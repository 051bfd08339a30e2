---------------------------- MODULE FeatureModelFiles ----------------------------
(***************************************************************************)
(* A program that reads feature models from XML and SXFM files or makes    *)
(* them itself, saves them as XML and reads them again, and reads step     *)
(* functions.                                                              *)
(***************************************************************************)
EXTENDS FeatureModelXmlParser, FeatureModelSxfmParser, StepFunctionParser

CONSTANTS
  XmlFiles,     \* documents the DTD accepts
  SxfmFiles,
  Models,       \* models a program makes itself
  StepTexts,    \* texts of step functions
  Unread        \* what a double may hold that was never written

VARIABLES
  stage,        \* what was done last
  source,       \* what the model comes from
  model,        \* the model, or NoModel
  file          \* what it was saved to

filesVars == <<stage, source, model, file>>

FilesInit ==
  /\ stage = "start"
  /\ source = Nil
  /\ model = NoModel
  /\ file = Nil

OpenXml(doc) ==
  /\ stage = "start"
  /\ stage' = "opened xml"
  /\ source' = doc
  /\ model' = ReadXml(doc)
  /\ UNCHANGED file

OpenSxfm(sxfm) ==
  /\ stage = "start"
  /\ stage' = "opened sxfm"
  /\ source' = sxfm
  /\ model' = ReadSxfm(sxfm)
  /\ UNCHANGED file

Make(m) ==
  /\ stage = "start"
  /\ stage' = "made"
  /\ source' = m
  /\ model' = m
  /\ UNCHANGED file

ReadStep(text, unread) ==
  /\ stage = "start"
  /\ stage' = "step"
  /\ source' = text
  /\ model' = [step |-> BuildStepFunction(text, unread)]
  /\ UNCHANGED file

Save ==
  /\ stage \in {"opened xml", "opened sxfm", "made"}
  /\ model # NoModel
  /\ stage' = "saved"
  /\ source' = model
  /\ file' = WriteFeatureModel(model)
  /\ UNCHANGED model

Reload ==
  /\ stage = "saved"
  /\ stage' = "reloaded"
  /\ model' = ReadXml(file)
  /\ UNCHANGED <<source, file>>

FilesNext ==
  \/ \E doc \in XmlFiles : OpenXml(doc)
  \/ \E sxfm \in SxfmFiles : OpenSxfm(sxfm)
  \/ \E m \in Models : Make(m)
  \/ \E text \in StepTexts, unread \in Unread : ReadStep(text, unread)
  \/ Save
  \/ Reload

FilesSpec == FilesInit /\ [][FilesNext]_filesVars

-------------------------------------------------------------------------------
(* The order of features *)

IsTree(m) ==
  \A S \in SUBSET (DOMAIN m.parent \ {m.root}) : S # {} => \E n \in S : m.parent[n] \notin S

\* Features are visited once each in the order that operator< gives, "depth first
\* ordering" (Feature.h:86), whatever the tree, and all of them if it is one: the
\* options of a written document are in the order of the vectors beside them.
DepthFirstIsSorted ==
  stage \notin {"start", "step"} /\ model # NoModel =>
    LET order == DepthFirst(model.parent, model.root) IN
    /\ \A i, j \in DOMAIN order : i < j <=> Before(model.parent, order[i], order[j])
    /\ IsTree(model) => ToSet(order) = DOMAIN model.parent

-------------------------------------------------------------------------------
(* Saving *)

\* The operators a constraint is printed with are ones the lexer knows, and no number
\* in it is negative.
Lexable(c) ==
  \A n \in ToSet(Visited(c)) : n.kind \notin {"XOR", "DIVISION"} /\ (n.kind = "INTEGER" => n.value >= 0)

\* What a document can say: the root has one of the names that make an option a root
\* and nothing to say but that, all values but the last one of a list fit an int, and
\* the constraints can be parsed.
Writable(m) ==
  /\ DOMAIN m.parent \cap RootNames = {m.root}
  /\ IsTree(m)
  /\ \A f \in DOMAIN m.data : WriteValues(m.data[f].values) = m.data[f].values
  /\ \A c \in ToSet(Trees(m)) : Lexable(c)

WrittenData(data) == [data EXCEPT !.locations = [i \in DOMAIN @ |-> WriteSourceRange(@[i])]]

Excluded(m, f) == ToSet(Partners(m, "EXCLUDES", f)) \cup Siblings(m, f)

\* A model that was saved and read again has its features below the same parents with
\* the same values and places, implies what it did, excludes what it did and the other
\* members of a group, and says the same in its other constraints.  Its alternative
\* groups of at least two mandatory features are there again, and each group it has now
\* consists of features that excluded each other.
SavedModelsReadBack ==
  stage = "reloaded" /\ Writable(source) =>
    /\ model # NoModel
    /\ model.root = source.root /\ model.parent = source.parent /\ model.info = source.info
    /\ \A f \in DOMAIN source.data :
         /\ WrittenData(model.data[f]) = WrittenData(source.data[f])
         /\ ToSet(Partners(model, "IMPLIES", f)) = ToSet(Partners(source, "IMPLIES", f))
         /\ ToSet(Partners(model, "EXCLUDES", f)) = Excluded(source, f)
    /\ WriteBooleanConstraints(model) = WriteBooleanConstraints(source)
    /\ Texts(model.nonBoolean) = Texts(source.nonBoolean)
    /\ WriteMixedConstraints(model) = WriteMixedConstraints(source)
    /\ {g \in source.groups : /\ g.kind = "ALTERNATIVE" /\ Cardinality(g.members) > 1
                              /\ g.members = Children(source.parent, g.parent)
                              /\ \A f \in g.members : ~source.data[f].optional} \subseteq model.groups
    /\ \A g \in model.groups : \A f \in g.members :
         ~source.data[f].optional /\ g.members \ {f} \subseteq Excluded(source, f)

-------------------------------------------------------------------------------
(* Reading *)

Claims(doc) ==
  UNION {(IF o.parent = Nil THEN {} ELSE {<<o.name, o.parent>>}) \cup {<<c, o.name>> : c \in ToSet(o.children)} :
         o \in ToSet(doc.binary) \cup ToSet(doc.numeric)}

Named(doc) == {o.name : o \in ToSet(doc.binary) \cup ToSet(doc.numeric)}

\* The features there are: the default root gives way to one that is read.
Known(doc) == Named(doc) \cup (IF Named(doc) \cap RootNames = {} THEN {DefaultRoot} ELSE {})

\* An edge may be claimed by the child, by the parent or by both, before or after the
\* other end is read.  A document in which two claims disagree is refused, "Ambiguous
\* edge" (FeatureModelParser.cpp:59), and so is one with a feature below itself or below
\* none of the document; any other has the edges that were claimed, and the root above
\* what nobody claimed.
ClaimsAreKept ==
  stage = "opened xml" =>
    LET claims == Claims(source) IN
    IF \E c, d \in claims : c[1] = c[2] \/ c[2] \notin Known(source) \/ (c[1] = d[1] /\ c # d)
    THEN model = NoModel
    ELSE /\ model # NoModel
         /\ \A f \in DOMAIN model.parent \ {model.root} :
              \/ <<f, model.parent[f]>> \in claims
              \/ model.parent[f] = model.root /\ \A c \in claims : c[1] # f

NameOfLine(lines, i) ==
  IF lines[i].name # << >> THEN lines[i].name
  ELSE GroupName[Cardinality({j \in 1 .. i : lines[j].name = << >>})]

LineAbove(lines, i) == Max({j \in 1 .. i - 1 : lines[j].level < lines[i].level})

\* No line is indented by two more than the one above it, only the first one is on its
\* level, names differ and no name holds its identifier.
WellIndented(lines) ==
  /\ \A i \in DOMAIN lines :
       /\ lines[i].colon
       /\ lines[i].marker \in Markers
       /\ lines[i].marker = "g" => lines[i].cardinality \in {<<1, 1>>, <<1, Wildcard>>}
       /\ i > 1 => lines[i].level \in lines[1].level + 1 .. lines[i - 1].level + 1
       /\ lines[i].id # Nil /\ lines[i].id # lines[i].name => Occurrences(lines[i].id, lines[i].name) = {}
  /\ \A i, j \in DOMAIN lines : NameOfLine(lines, i) = NameOfLine(lines, j) => i = j

\* The tree of an SXFM file whose first line is its root is the one its indentation
\* shows: each line is below the nearest line above it that is indented less, and each
\* group line has a group of its kind with all lines right below it as members, also when
\* it is followed by another one on its level or by the end of the file.  Files that are
\* not indented like that, "Indentation error" (FeatureModelParser.cpp:598), are refused.
IndentationIsTheTree ==
  LET lines == source.lines IN
  stage = "opened sxfm" /\ (\A i \in DOMAIN lines : lines[i].marker = "r" <=> i = 1) =>
    IF ~WellIndented(lines) \/ \E i \in DOMAIN source.formulas : ~source.formulas[i].colon
    THEN model = NoModel
    ELSE model # NoModel =>
      /\ model.root = lines[1].name
      /\ \A i \in DOMAIN lines \ {1} :
           model.parent[NameOfLine(lines, i)] = NameOfLine(lines, LineAbove(lines, i))
      /\ model.groups =
           {[ kind    |-> IF lines[i].cardinality = <<1, 1>> THEN "ALTERNATIVE" ELSE "OR",
              parent  |-> NameOfLine(lines, i),
              members |-> {NameOfLine(lines, j) : j \in {k \in i + 1 .. Len(lines) : LineAbove(lines, k) = i}} ] :
            i \in {k \in DOMAIN lines : lines[k].marker = "g"}}

Identified(lines) == {i \in DOMAIN lines : lines[i].id # Nil}

IdsOf(lines) == {lines[i].id : i \in Identified(lines)}

\* An identifier means one line with a name, is no part of a name or a word of the formulas,
\* and of another identifier at most the beginning.
Separable(lines) ==
  /\ \A i, j \in Identified(lines) : lines[i].id = lines[j].id => i = j
  /\ \A i \in Identified(lines) :
       /\ lines[i].name # << >>
       /\ \A w \in {lines[j].name : j \in DOMAIN lines} \cup {<<"o", "r">>, <<"a", "n", "d">>} :
            w # lines[i].id => Occurrences(lines[i].id, w) = {}
  /\ \A a, b \in IdsOf(lines) : a # b => Occurrences(a, b) \subseteq {1}

RECURSIVE Renamed(_, _)
Renamed(lines, c) ==
  IF c.kind = "FEATURE" /\ c.name \in IdsOf(lines)
  THEN [c EXCEPT !.name = lines[CHOOSE i \in Identified(lines) : lines[i].id = c.name].name]
  ELSE [c EXCEPT !.operands = [i \in DOMAIN @ |-> Renamed(lines, @[i])]]

\* The constraints of an SXFM file are the ones its formulas say with the name of a feature
\* for each identifier, also where an identifier is the beginning of another one, and a
\* file whose constraints are about its features is read.
IdentifiersBecomeNames ==
  LET lines == source.lines
      formulas == source.formulas
      said == [i \in DOMAIN formulas |-> BuildConstraint(WithOperators(formulas[i].text))]
      parsed == SelectSeq(said, LAMBDA c : c # Null)
      meant == [i \in DOMAIN parsed |-> Renamed(lines, parsed[i])]
  IN  /\ stage = "opened sxfm"
      /\ WellIndented(lines) /\ Separable(lines)
      /\ \A i \in DOMAIN formulas : formulas[i].colon
      /\ \A c \in ToSet(meant) : Mentioned(c) \subseteq {NameOfLine(lines, i) : i \in DOMAIN lines}
      => model # NoModel /\ model.boolean = meant

Hundredths(f) ==
  \A operand \in {f.lhs, f.rhs} : operand.kind = "constant" => operand.thousandths % 10 = 0

IsName(s) == s[1] \in Letters /\ ToSet(s) \subseteq Letters \cup Digits \cup {"_"}

IsNumeral(s) == ToSet(s) \subseteq Digits \cup {"."}

\* An operator stands between a name and a number.
SaysStep(s) ==
  \E i \in 2 .. Len(s) - 1 :
    LET sides == {SubSeq(s, 1, i - 1), SubSeq(s, i + 1, Len(s))} IN
    s[i] \in {"+", "*", "^"} /\ (\E a \in sides : IsName(a)) /\ (\E b \in sides : IsNumeral(b))

\* A text is read as a step function exactly if it has one operand that is a variable and
\* one that is a constant, which is what StepFunction::next relies on, and such a function
\* prints as a text that is it again.
StepFunctionsReadBack ==
  stage = "step" =>
    LET f == model.step IN
    /\ ToSet(source) \cap Blanks = {} => (f # NoStepFunction <=> SaysStep(source))
    /\ f # NoStepFunction =>
         /\ {f.lhs.kind, f.rhs.kind} = {"variable", "constant"}
         /\ Hundredths(f) => \A unread \in Unread : BuildStepFunction(StepText(f), unread) = f

===============================================================================
