-------------------------- MODULE FeatureModelXmlParser --------------------------
(***************************************************************************)
(* FeatureModelXmlParser: the calls a document makes to a builder, and     *)
(* the model that is built.  A document is one that the DTD accepts.       *)
(***************************************************************************)
EXTENDS FeatureModelXmlWriter, ConstraintParser

CONSTANTS
  RootNames,      \* the names that are a root in an XML document
  MemberOffsets,  \* the texts that are a member offset
  CurrentPath     \* the path of a model that names none

\* A number of a document that an int64_t cannot hold becomes the nearest one it can.
ReadInteger(v) == Min({Max({v, -MaxInteger - 1}), MaxInteger})

\* Without a list of values it is a range, with its bounds at zero where they are missing.
ReadValues(values) ==
  IF values = Nil THEN [range |-> TRUE, numbers |-> <<0, 0>>]
  ELSE [values EXCEPT !.numbers = [i \in DOMAIN @ |-> ReadInteger(@[i])]]

Given(element, field) == IF field \in DOMAIN element THEN element[field] ELSE Nil

ReadSourceRange(l) ==
  [ path     |-> l.path,
    start    |-> l.start,
    end      |-> l.end,
    category |-> IF Given(l, "category") = Nil THEN "necessary" ELSE l.category,
    member   |-> IF Given(l, "member") \in MemberOffsets THEN l.member ELSE Nil,
    revision |-> Given(l, "revision") ]

\* Mutant: a parent that was claimed already gives way.
ClaimLast(calls, parent, child) == AddEdge(calls, parent, child)

\* A feature that was claimed by another parent before ends the reading.
Claim(calls, parent, child) ==
  IF child \in DOMAIN calls.parents /\ calls.parents[child] # parent THEN Fail(calls)
  ELSE AddEdge(calls, parent, child)

\* An option claims its parent, then its children.
ClaimEdges(calls, option) ==
  FoldLeft(LAMBDA s, child : Claim(s, option.name, child),
           IF option.parent = Nil THEN calls ELSE Claim(calls, option.parent, option.name),
           option.children)

Relate(kind, name, partners) ==
  [i \in DOMAIN partners |->
     BinaryConstraint(kind, PrimaryFeatureConstraint(name), PrimaryFeatureConstraint(partners[i]))]

OptionData(option, num) ==
  [ kind      |-> IF num THEN "numeric" ELSE "binary",
    optional  |-> option.optional,
    values    |-> IF num THEN ReadValues(option.values) ELSE Nil,
    locations |-> [i \in DOMAIN option.locations |-> ReadSourceRange(option.locations[i])] ]

ParseConfigurationOption(calls, option, num) ==
  LET claimed == ClaimEdges(calls, option)
      related == [claimed EXCEPT !.boolean = @ \o Relate("IMPLIES", option.name, option.implied)
                                              \o Relate("EXCLUDES", option.name, option.excluded)]
  IN  IF calls.failed THEN calls
      ELSE IF option.name \in RootNames THEN MakeRoot(related, option.name)
      ELSE MakeFeature(related, option.name, OptionData(option, num))

ParseOptions(calls, options, num) ==
  FoldLeft(LAMBDA s, option : ParseConfigurationOption(s, option, num), calls, options)

\* A constraint that cannot be parsed ends the reading.
ParseConstraints(calls, field, texts) ==
  LET trees == [i \in DOMAIN texts |-> BuildConstraint(texts[i])]
  IN  IF Null \in ToSet(trees) THEN Fail(calls) ELSE [calls EXCEPT ![field] = @ \o trees]

\* What is not "none" is all, what is not "neg" is positive.
ParseMixedConstraints(calls, elements) ==
  LET trees == [i \in DOMAIN elements |->
                  [ tree     |-> BuildConstraint(elements[i].text),
                    req      |-> IF elements[i].req = "none" THEN "none" ELSE "all",
                    exprKind |-> IF elements[i].exprKind = "neg" THEN "neg" ELSE "pos" ]]
  IN  IF \E i \in DOMAIN trees : trees[i].tree = Null THEN Fail(calls) ELSE [calls EXCEPT !.mixed = @ \o trees]

ParseInfo(info) ==
  [info EXCEPT !.commit = IF @ = Nil THEN NoText ELSE @, !.path = IF @ = Nil THEN CurrentPath ELSE @]

ParseVm(doc) ==
  LET options == ParseOptions(ParseOptions([NoCalls EXCEPT !.info = ParseInfo(doc.info)], doc.binary, FALSE),
                              doc.numeric, TRUE)
  IN  ParseMixedConstraints(
        ParseConstraints(ParseConstraints(options, "boolean", doc.boolean), "nonBoolean", doc.nonBoolean),
        doc.mixed)

-------------------------------------------------------------------------------
(* Alternatives are mandatory features that exclude each other *)

DetectExclude(m, a, b) == b \in ToSet(Partners(m, "EXCLUDES", a))

AreAlternatives(m, F) ==
  /\ Cardinality(F) > 1
  /\ \A f \in F : ~m.data[f].optional /\ \A c \in F \ {f} : DetectExclude(m, f, c) /\ DetectExclude(m, c, f)

\* The iterator of the model reaches what is below the root.
DetectXmlAlternatives(m) ==
  [m EXCEPT !.groups = @ \cup
     {[kind |-> "ALTERNATIVE", parent |-> f, members |-> Children(m.parent, f)] :
        f \in {g \in ToSet(DepthFirst(m.parent, m.root)) : AreAlternatives(m, Children(m.parent, g))}}]

ReadXml(doc) ==
  LET built == Build(ParseVm(doc)) IN IF built = NoModel THEN NoModel ELSE DetectXmlAlternatives(built)

===============================================================================
