------------------------- MODULE FeatureModelSxfmParser -------------------------
(***************************************************************************)
(* FeatureModelSxfmParser: a tree is given by the indentation of its       *)
(* lines, groups by a line of their own above their members, and           *)
(* constraints by formulas over identifiers that stand for names.  A line  *)
(* is a record of what it says; its level is the number of indentation     *)
(* strings before its colon.  No line is indented less than the first: the *)
(* reader has no parent for one.  Formulas are texts.                      *)
(***************************************************************************)
EXTENDS NamedFeatureModel, ConstraintParser

CONSTANT GroupName   \* the name of the n-th line that has none

Wildcard == -1

Markers == {"r", "m", "o", "g", " "}

\* Exactly one, or at least one.
GroupKind(cardinality) ==
  CASE cardinality = <<1, 1>> -> "ALTERNATIVE"
    [] cardinality = <<1, Wildcard>> -> "OR"
    [] OTHER -> Nil

\* Does p occur in s, and where first?
Occurrences(p, s) == {i \in 1 .. Len(s) - Len(p) + 1 : SubSeq(s, i, i + Len(p) - 1) = p}

FirstLine(name) ==
  [ calls  |-> [NoCalls EXCEPT !.info.name = name],
    last   |-> -1,        \* the level of the line before
    root   |-> -1,        \* and of the first one
    above  |-> << >>,     \* the last name on each level
    open   |-> << >>,     \* the groups on a level whose members are being read
    ids    |-> << >>,     \* the name of each identifier
    groups |-> 0 ]        \* how many lines had no name

Refuses(s, line) ==
  \/ ~line.colon
  \/ s.last # -1 /\ line.level > s.last + 1
  \/ line.marker \notin Markers
  \/ line.marker = "g" /\ GroupKind(line.cardinality) = Nil
  \/ line.id # Nil /\ line.id # line.name /\ Occurrences(line.id, line.name) # {}

\* A second line on the level of the first is refused once its feature is made.
SecondRoot(s, line) == s.last # -1 /\ line.level = s.root

EmplaceGroup(calls, group) == EmplaceRelationship(calls, group.kind, group.parent)

\* Mutant: a group is lost when the next one of its level begins.
CloseNothing(calls, open, level) == calls

\* The group of a level ends with the next line of the level.
CloseGroup(calls, open, level) ==
  IF level \in DOMAIN open THEN EmplaceGroup(calls, open[level]) ELSE calls

ReadLine(s, line) ==
  LET unnamed == line.name = << >>
      name == IF unnamed THEN GroupName[s.groups + 1] ELSE line.name
      made == IF line.marker = "r" THEN MakeRoot(s.calls, name)
              ELSE MakeFeature(s.calls, name, [ kind |-> "binary", optional |-> line.marker = "o",
                                                values |-> Nil, locations |-> << >> ])
      placed == IF s.last = -1 THEN made ELSE AddEdge(made, s.above[line.level - 1], name)
      others == [l \in DOMAIN s.open \ {line.level} |-> s.open[l]]
  IN  IF s.calls.failed \/ Refuses(s, line) \/ SecondRoot(s, line) THEN [s EXCEPT !.calls = Fail(@)]
      ELSE [ calls  |-> CloseGroup(placed, s.open, line.level),
             last   |-> line.level,
             root   |-> IF s.last = -1 THEN line.level ELSE s.root,
             above  |-> (line.level :> name) @@ s.above,
             open   |-> IF line.marker # "g" THEN others
                        ELSE (line.level :> [parent |-> name, kind |-> GroupKind(line.cardinality)]) @@ others,
             ids    |-> IF line.id = Nil THEN s.ids ELSE (line.id :> line.name) @@ s.ids,
             groups |-> IF unnamed THEN s.groups + 1 ELSE s.groups ]

ParseFeatureTree(file) ==
  LET s == FoldLeft(ReadLine, FirstLine(file.name), file.lines)
  IN  [s EXCEPT !.calls = FoldLeft(LAMBDA calls, l : EmplaceGroup(calls, s.open[l]), @, SetToSeq(DOMAIN s.open))]

-------------------------------------------------------------------------------
(* Constraints *)

\* Until none is left.
RECURSIVE Replaced(_, _, _)
Replaced(s, key, value) ==
  IF Occurrences(key, s) = {} THEN s
  ELSE LET i == Min(Occurrences(key, s))
       IN  Replaced(SubSeq(s, 1, i - 1) \o value \o SubSeq(s, i + Len(key), Len(s)), key, value)

\* Mutant: an identifier comes before those it is the beginning of.
Shortest(ids) == SetToSortSeq(DOMAIN ids, LAMBDA a, b : Rank[a] < Rank[b])

\* The identifiers in descending order.
Keys(ids) == SetToSortSeq(DOMAIN ids, LAMBDA a, b : Rank[a] > Rank[b])

WithNames(ids, formula) ==
  FoldLeft(LAMBDA s, key : IF ids[key] = key THEN s ELSE Replaced(s, key, ids[key]), formula, Keys(ids))

WithOperators(formula) ==
  Replaced(Replaced(formula, <<" ", "o", "r", " ">>, <<" ", "|", " ">>),
           <<" ", "a", "n", "d", " ">>, <<" ", "&", " ">>)

\* A formula that cannot be parsed is passed over.
ParseFormula(s, formula) ==
  LET tree == BuildConstraint(WithOperators(WithNames(s.ids, formula.text)))
  IN  IF ~formula.colon THEN [s EXCEPT !.calls = Fail(@)]
      ELSE IF tree = Null THEN s
      ELSE [s EXCEPT !.calls.boolean = Append(@, tree)]

ReadSxfm(file) == Build(FoldLeft(ParseFormula, ParseFeatureTree(file), file.formulas).calls)

===============================================================================
