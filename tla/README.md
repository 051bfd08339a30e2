# A verification project for vara-feature

vara-feature represents feature models: trees of features with groups,
constraints and configurations. This directory holds TLA+ modules that model
its core, TLC configurations that check them on small instances, and proofs
that TLAPS checks for instances of every size. Paths below are relative to the
repository (`src/`).

## 1. The system

The library is single-threaded C++. Nothing is persisted but files written on
request. Its hard behaviours come from shared mutable structure: objects own
each other through `unique_ptr` and name each other through raw pointers, edits
are queued and executed later, and several edit queues can be open at once.

| Component | State | Operations | Talks to |
|---|---|---|---|
| `FeatureModel`, `FeatureTreeNode`, `Feature`, `Relationship` | owned features by name, owned relationships, root pointer, per node one parent pointer and an edge set, owned constraints, name/path/commit | lookups, child and parent walks, DFS iteration, `clone`, the consistency rules; private mutators | written by the modifications (friends), read by all |
| Modifications (`detail::FeatureModelModification`) | their arguments; a new feature, group or constraint is owned until inserted | ten `operator()`s | called by a commit, write the model |
| `ModifyTransaction` | pointer to the model (null once finished), queue of modifications | open, ten queueing calls, `commit`, `abort`, destructor (commits) | shares the model with its caller and with other transactions |
| `CopyTransaction` | a private clone of the model | the same calls, executed at once on the clone; `commit` hands it out | clones the model, translates features by name |
| Helpers (`addFeature`, `removeFeatures`, `mergeFeatureModels`, ...) | none of their own | sequences of transactions | `ModifyTransaction`, `CopyTransaction` |
| `FeatureModelBuilder` | three `ModifyTransaction`s on one model | queue to one of three, `buildFeatureModel` commits them in order | `ModifyTransaction` |
| Solver, `ConfigurationFactory`, `ConfigurationIterator` | Z3 solver, map from options to variables, the enumerated values; the current configuration | `addFeature`, `addConstraint`, `hasValidConfigurations`, `getNextConfiguration`, iteration | reads the model |
| Feature order | a sorted vector of features | insert, compare | reads parent chains |
| Constraints, `ConstraintBuilder`, `ConstraintParser` | expression trees; operator frames and nesting of the builder; token stream of the parser | build, parse, bind to features | stored in the model |
| `StepFunction` and its parser | a closure | apply | used by the solver and numeric features |
| XML and SXFM readers and writers | libxml2 documents, an indentation stack | parse, write | use `FeatureModelBuilder` |
| `Configuration`, sampling, source ranges, utilities, tools, bindings | values | accessors, JSON, CSV | |

### What makes it hard

`PROJECT.json` lists each hazard with its line. In short:

* **An edit touches both ends.** Parent pointers and edges are stored
  separately, so each modification has to update two or three nodes; a
  forgotten end is a dangling pointer that a later, unrelated call meets.
* **No undo.** A commit executes its queue on the shared model and stops at the
  first error. What came before the error stays.
* **Stale arguments.** Arguments are captured when a call is queued and
  dereferenced when the commit runs, after other modifications, or other
  transactions, have changed the model.
* **Long-range calls.** Some walks look further than their names say:
  `getChildren<Feature>` looks through groups, `getChildren<Relationship>`
  through features.
* **A weak check.** The consistency check behind a commit looks at one edge per
  feature. Cycles, shared nodes and dangling pointers pass it.
* **Results nobody looks at.** `applyModelOnSolver`, `removeFeatures`,
  `mergeFeatureModels` and the SXFM reader make calls whose errors they drop.
* **Two of everything.** Constraints can be built or parsed, features compared
  or iterated, edges claimed by either end, groups stored or written as
  exclusions. Each pair has to agree without sharing code.

### What makes each component correct

* Model and modifications: the pointers describe one tree, every node of which
  is alive and reached from the root; a name means one feature; constraints
  point at live features; no call has undefined behaviour when its caller keeps
  to the documented and asserted rules.
* `ModifyTransaction`: a queue is executed once, in order, up to the first
  error; nobody else writes to the model.
* `CopyTransaction`: nothing is visible before `commit`; the copy is what a clone
  keeps of the model, with the calls that take effect on it.
* Helpers and builder: what they report as done is done, and what they hand
  back is all that is missing.
* Solver: the enumeration returns each valid configuration once and ends.
* Builder and parser of constraints: both yield the same expression, in the
  order it was written, and what is printed can be read again.
* Readers and writer: what is read is what the file says, or nothing; what is
  saved is read back as the same model, or as the most a document can say of it.
* Feature order: the iterator, the comparison and the sorted vector agree.

## 2. The modules

| Module | Models | Depends on |
|---|---|---|
| `FeatureModel` | the data structure, walks, consistency rules, well-formedness | |
| `FeatureModelModification` | the ten modifications as operators on models | `FeatureModel` |
| `ModifyTransaction` | transactions on one shared model; the state machine | `FeatureModelModification` |
| `ClientRules` | what a caller has to keep to | `FeatureModelModification` |
| `DisciplinedClient` | `ModifyTransaction` driven by a caller within the rules | `ModifyTransaction`, `ClientRules` |
| `FeatureTree` | the abstract specification: a tree of features and four edits | |
| `ModelCopy` | equality of models up to the identity of their objects, what a clone keeps and what it loses, when a model can be cloned | `FeatureModel` |
| `FeatureModelBuilder` | the builder's three transactions, and `FeatureModel::clone` as its client | `ModifyTransaction`, `ModelCopy` |
| `CopyTransaction` | transactions on a private clone, and a client that edits the original meanwhile | `ClientRules`, `ModelCopy` |
| `MergeFeatureModels` | `mergeFeatureModels`, one action per call of `mergeSubtree` | `CopyTransaction` |
| `RemoveFeatures` | `removeFeatures`, one action per round and per turn of its commit | `ModifyTransaction` |
| `Characters` | letters, digits, blanks and decimal numbers | |
| `ConstraintTree` | constraints, the visitors, how each prints | `Characters` |
| `ConstraintParser` | lexer and parser of constraints | `ConstraintTree` |
| `ConstraintBuilder` | the builder, one action per call, and what it, the parser and the printer owe each other | `ConstraintParser` |
| `StepFunction`, `StepFunctionParser` | step functions, their values along a range, their text | `Characters` |
| `Z3Solver` | every call of `Solver` as an action on the set of satisfying assignments | |
| `Z3Visitor` | the visitor: what one constraint, one range of values and one number come to in Z3, and what they mean | `Z3Solver`, `ConstraintTree`, `StepFunction` |
| `ConfigurationEnumeration` | the abstract specification: valid configurations, one by one | |
| `ConfigurationFactory` | `SolverFactory`, the iterator, the methods of the factory, and a client with a solver of its own | `Z3Solver` |
| `FeatureOrder` | `Feature::operator<`, the sorted vector, the depth-first iterator | |
| `NamedFeatureModel` | models whose features are known by their names, and the calls to a builder that make one | `FeatureOrder`, `ConstraintTree` |
| `FeatureModelXmlWriter`, `FeatureModelXmlParser` | a model as a document, a document as a model | `NamedFeatureModel`, `ConstraintParser` |
| `FeatureModelSxfmParser` | the indentation tree, identifiers and formulas of SXFM | `NamedFeatureModel`, `ConstraintParser` |
| `FeatureModelFiles` | a program that reads, makes, saves and reads again | both parsers, `StepFunctionParser` |
| `MC...`, one for each module with a run | instances for TLC | |
| `ClientRules_proofs`, `ModifyTransaction_proofs`, `DisciplinedClient_proofs`, `RemoveFeatures_proofs`, `CopyTransaction_proofs`, `FeatureModelBuilder_proofs`, `MergeFeatureModels_proofs`, `ConfigurationFactory_proofs` | theorems | the modules they are named after |

### How they correspond to the code

A **model** is a record, not a set of variables, so that the same operators
serve the shared model, the private copy of a `CopyTransaction` and both sides
of a merge.
`features` and `relationships` are the objects the model owns; an object
outside them is freed or not inserted yet. `parent` and `edges` are the two
redundant representations of the tree that `FeatureTreeNode` keeps. `bound`
holds a pair for each `PrimaryFeatureConstraint` that points at a feature.
`output` is what a feature is constructed with and a copy may lose: its output
string and the step function of its values. Destroying nodes (`Destroy`) removes
what they store and leaves what others store about them, as `unique_ptr::reset`
does. A **name** is a model value and `NameOf` is the constructor argument; the
other numbers and strings that make up a feature are left out because no
modification reads them and every copy keeps them.

A **modification** is a record with the arguments of its class. `Outcomes(m,
mod)` is its `operator()`: the set of pairs of the model it leaves and the code
it returns. There is more than one outcome where the code takes the first
element of a set ordered by address or hash (`RemoveFeature`,
`RemoveRelationship`). The code `"UB"` marks a call that dereferences a null or
freed pointer, erases `end()`, or walks a cycle. What can be dereferenced is the
argument `alive` of the operators: the nodes of the model, and the features that
wait in a queue, which an `AddFeature` owns until it is executed (`Alive`).
Modifications of another transaction may point at those and are defined on them:
`AddChild` hangs such a feature into the tree before it is in the model.
`FeatureModel::removeFeature` finds what it erases by name, so removing it frees
the feature the model has under that name, if there is one (`Erased`). `Outcomes`
is the case in which nothing waits in a queue. Asserts are compiled out, as in
the release build; where an assert states a rule, the rule is in `ClientRules` or
in a property.

A recursive removal is one operator and not a recursion: `Subtree` is the least
set closed under `getChildren<Feature>`, `Pruned` removes it with its groups,
and `RecursionIsSafe` says when the recursion in the code comes to the same
result (each feature met once, parents and edges of the subtree in agreement).
Where two features of a subtree have one name, because one of them waits in a
queue, the removal of one takes the other along: behaviour is undefined always,
or in some orders of the set of pointers (`ClashesAlways`, `ClashesPerhaps`).

`ModifyTransaction` has one action per call of `FeatureModelTransaction`
(`OpenTransaction`, `Queue`, `Commit`, `CommitAgain`, `Abort`,
`DestroyTransaction`) and two for the inside of a commit: `Execute`, one turn
of its loop, and `Finish`, the consistency check. They are separate so that
invariants are checked between two modifications of one commit. No call happens
while a commit runs (`Idle`), as the code is single-threaded and a
modification calls nothing back. `phase` stands for the optional pointer to the
model and for the lifetime of the object: `"closed"` is a null pointer,
`"destroying"` is the commit inside the destructor. A `Queue` call allocates
new objects (`IsFresh`) and may point at what is alive, in the model or in the queue of
any transaction (`Alive`).

`DisciplinedClient` adds no behaviour, it leaves some out: one transaction is
open at a time and every queued modification is `Proper` in the model it will
meet. The variable `forecast` is that model, worked out when the call is queued.

`FeatureModelBuilder` reuses `ModifyTransaction` as it is: `Ask` is any call of
a client, `BuilderOf` says which of the three queues it goes to, and
`BuildFeatureModel`, `FeaturesBuilt`, `TreeBuilt`, `RelationsBuilt` are the three
commits with their aborts. `Clone`, `CloneFeature`, `CloneRelationship` and
`CloneConstraint` are the loops of `clone`: one action per object of the
original, in every order of the hash table, features before groups before
constraints. `cloned` is how far the loops are; nobody else makes a call until
they are through (`AllCloned`). A clone allocates new objects, and `Twin` names them:
`Renamed(m, Twin)` is the model `m` made of them, which is what a deep clone would
be. What clone makes is `Renamed` of the model without output strings and step
functions (`WithoutOutput`), which it passes to no constructor. The kind of a feature
is left out; a plain `Feature`, whose locations clone drops, does not occur.

`CopyTransaction` takes what `CloneKeepsAllButOutputHolds` shows of the builder as the effect of
its constructor: the copy is `Renamed(Cloned(FM), Twin)`, where `Cloned` moves
features beside a group into it (`Regrouped`), drops output strings and step
functions (`WithoutOutput`) and drops the locations of roots and of plain `Feature`s (`UnknownFeature`), which `clone` passes no locations
for. It clones what satisfies `MayClone`: every constraint bound to all that it
mentions, as the builder binds it anew. A model in which another feature has
the name of a new model's root cannot be cloned and is left out.

`Call` executes one modification on `copy` at once, with the
feature it refers to looked up by name (`translateFeature`). After a commit or
an abort the object lives on without a model and its calls report an error or
are undefined. The client passes pointers into its own model or into the copy,
edits its own model between calls (`EditOriginal`) and may replace it by what
it was handed (`Adopt`). Within `ClientRules` a copy cannot become invalid, so
the client may also add a second root, which is how a commit comes to refuse a
copy. `mirror` is a history variable: what becomes of the original as it was by
the calls that take effect, which are all but `addChild` (`TakesEffect`). That the
copy lacks the edge an `addChild` should have made is therefore not a violation of
`CopyFollowsTheModel`; it is listed among the disagreements of section 3. The
client's rules are about it, so that they do not depend
on how the code translates its arguments.

`MergeFeatureModels` follows the walk over the second model with a stack,
visiting the children of a node in any order. It writes to `copy` alone, as the
results of its calls are not looked at. `PropertiesOf` stands for what
`compareProperties` compares besides the parents. Parents it compares by
`Feature::operator!=`, that is in lower case: `LowerCase` is any function on names,
and the instance has two names that it makes equal. All lookups go by the name as
it is written.

`FeatureTree` knows nothing of relationships, edges or owners.
`DisciplinedClient` implements it under `Tree`: `up` is
`Feature::getParentFeature`.

`RemoveFeatures` is a client of `ModifyTransaction`: `Round` partitions what is
listed, queues the removals and begins the commit, whose turns are `Execute`
and `Finish`; `NextRound` destroys the transaction and takes the rest. The list
is a set of names and pointers, as `std::partition` keeps no order.
`Removable` has more than one answer where only some children of a feature are
listed: `std::set_intersection` is given a hash set, which is not sorted.

`ConstraintBuilder` has the builder's own state: the tree under construction
(`Root`), the slot the next call fills (`Head_`) and the stack of slots an
operator may still take (`Frames`). `unique_ptr`s into the tree are paths from
its root. `ConstraintTree` keeps every kind of constraint; `ConstraintParser`
works on characters, because what is checked is where a token ends.

`Z3Solver` replaces Z3 by what it is used for: `System` is the set of the
assignments that satisfy what was asserted, a model is any of them, and no
assignment is "unsat". The encoding is translated clause by clause, with the
sorts the code gives its constants; how a configuration is excluded, and over
which options, is in `Exclude`. `ConfigurationFactory` adds the callers:
`Start`, `Apply`, `Applied` are `initializeSolver`; `Deref` and `Advance` are
the two halves of a turn of the loops over `ConfigurationIterator`;
`AskIfValid` is `isValid`. `ValidConfigurations` says independently of the
encoding which configurations are valid.

The visitor of a constraint, the enumeration of a range and the text of a
number are recursive, and no proof can reach a recursive operator. They are
therefore constants of `Z3Solver` and `ConfigurationFactory`, which the
configurations of TLC give the operators of `Z3Visitor`:

| Constant | In `Solver.cfg` and `IsValid.cfg` | Meaning |
|---|---|---|
| `Visit` | `VisitConstraint` | the Z3 term of a constraint, evaluated |
| `FeaturesOf` | `Mentioned` | the features a mixed constraint counts |
| `ValuesOf` | `NumericValues` | a list, or a range with its step function; whether it ends |
| `NumberText` | `Z3Text` | how Z3 prints a value |
| `TrueIn` | `IsTrueIn` | what a constraint says: by truth tables, and by the side of a number another one lies on |
| `DeclaredValues` | `ValuesDeclared` | what a range says: the least set closed under a step |

`MeansWhatItSays` relates the two halves of the table. It is an assumption of
the proofs, and TLC evaluates it for every model of the `Solver` run.

`NamedFeatureModel` stands for `FeatureModel` where files are concerned.
`Build` is what `buildFeatureModel` makes of the calls, taken from what
`BuiltAsAsked` and `BuildsWhatIsConsistent` show of `FeatureModelBuilder`. An
XML document is a record of the elements the DTD allows, an SXFM file a list of
lines with their indentation and a list of formulas, both in the order of the
file. The reader and the writer are operators, and the state machine of
`FeatureModelFiles` opens, makes, saves and reloads.

## 3. What is checked

| Run | Instance | Shows |
|---|---|---|
| `ClientTree` | only a root at first; all tree edits, queues of two | a client within the rules: no undefined behaviour, edges and parents agree, rooted, groups well placed, commits do what was foreseen, implements `FeatureTree` |
| `ClientData` | only a root at first; constraints, locations, names, new roots; queues of two | names identify; no constraint points at a freed feature and one that is bound to all its operands stays so, also after a failed commit. The exception is a constraint at which its commit failed, which stays in the model bound in part |
| `AnyClient` | chains `root-a-b` with and without a group; two overlapping transactions, no rules, queues of one, with pointers into the other queue, also to a feature named like the root | what can still be committed has executed nothing (with the types); names stay unique; only open transactions write; the root pointer comes to dangle in one way only, by the removal of a queued feature that is named like the root, which does occur |
| `Builder` | a menu of fourteen calls in any order, three per queue, among them a root made as a feature and a second group below one feature; clone of a chain, a chain with a group and a tree half grouped, in every order of the hash table (three million states) | what is built is what was asked for; consistent requests never fail; trees in, trees out; a clone is the original up to identity, except that features beside a group move into it and that output strings and step functions are lost |
| `Copy` | `root-a` with twins for all objects, pointers into original and copy, a second root | arguments reach the right features also when the original has changed, and what takes effect does what it would do to the original; no object in two models; only trees are handed out |
| `Merge` | nine second models: with a feature below, above or beside the common one, below one whose name differs from it by case, with the same and another root, in a group, with another root, with a root named like the common one, with a feature that cannot be copied; strict and not; the first model is edited between merges | a merge is the union of both or is refused, exactly on a contradiction, wherever it shows, where parents that differ by case are none; without one it throws exactly when the second root has a name the first model does not know |
| `RemoveFeatures` | every list of five names and two pointers, with and without recursion, call after call, on six trees of three features, three of them with a group | a lawful list is worked off completely and exactly the rest is handed back; whatever is listed, a call that is defined leaves a tree and takes no feature it should not |
| `Constraints` | every sequence of up to seven calls, builds in between; one operator of each precedence | the tree reads as the calls came; builder and parser agree; blanks are optional; what is printed reads back |
| `Solver` | 28 feature models: two options under every operator but XOR, lists and ranges of numbers under every comparison and every arithmetic operator, mixed constraints, nested and grouped features; `getAllConfigs`, `getNConfigs` for 0, 1, 2 and more than there are, `isValid`; a client that makes four calls of its own | options follow the tree; what is handed out is valid and complete; no configuration twice, also when features are added in between; implements `ConfigurationEnumeration`, with its end |
| `Files` | all trees of three features with groups, constraints, values and places; documents in which parent, child, both or two parents claim an edge; SXFM files of up to five lines at all indentations; identifiers that begin others; texts of step functions | the iterator visits in the order of `operator<`; saved models read back; claims are kept or refused; indentation is the tree; identifiers become names; step functions read back |
| `Committed` | one client, four kinds of calls | violation: a commit returns Ok for a model that is no tree |
| `IsValid` | the models of `Solver` | violation: `isValid` is true for a model without a valid configuration |

### Where code and documentation disagree

`Committed` and `IsValid` are quoted in `PROJECT.json` under "findings". The
first stands for three ways to a committed model that is no tree: `AddChild`
below a descendant closes a cycle, `RemoveRelationship` dissolves a group
further down and leaves an edge to it, and removing a feature leaves
constraints that point at it. Others were met and are stated here, with the
definition that has them; the properties of passing runs are worded so that
they say exactly how far the promise goes.

* `abort` is documented as throwing away all changes; a commit that fails aborts
  itself and keeps what it executed (`Execute`, `CommitsAsForecast`).
* `addChild` on a `CopyTransaction` does nothing (`TakesEffect`, `CallOutcomes`): the
  modification is made and dropped. `FeatureModelTransaction` offers the call in both
  modes without a word on it. No run shows it as a violation.
* `FeatureModel::removeFeature` is documented as deleting a feature. It deletes the
  one with the name of the feature it is given. If that one waits in another queue
  and is named like the root, after an `AddChild` that is defined, the root is freed
  and `Root` still points at it (`Erased`, `RootDanglesOnlyByItsNamesake`).
* `clone` is documented as a "deep clone of whole data structure". It drops the step
  functions of numeric features and the output strings of both kinds, so that a model reads
  and solves differently after a `CopyTransaction`; a merge drops them too, also
  those of the second model (`WithoutOutput`, `CloneKeepsAllButOutput`, `Merged`). It
  also moves features beside a group into it (`Regrouped`).
* `mergeFeatureModels` compares parents in lower case (`SameParents`), while models
  distinguish names by case; a TODO in `Feature.h` notes it. `root-Foo-A` and
  `root-foo-A` merge, to a model with `Foo` and `foo` in which `A` stays below `Foo`.
* A mixed constraint that requires `all` Boolean features is documented to evaluate
  to false if one of them is not selected (`Solver.h:103`). The encoding makes it
  true then (`Z3Solver.cpp:260`). `MixedIn`, by which `HandsOutTheValid` says what is
  valid, follows the code: the run shows that the enumeration agrees with this
  reading, not with the documented one.
* `mergeFeatureModels` is documented to return null when merging fails; it
  throws if the roots have two names (`MergingThrowsOnlyForAnotherRoot`).
* `removeFeatures` is documented to hand back all that cannot be deleted. A
  recursive call that lists a feature and one further below it, not its child
  or in a group, queues both removals. If the ancestor goes first the other
  fails: with a name the commit stops, and what was queued behind is neither
  removed nor handed back; with a pointer behaviour is undefined. The doc of
  `canBeDeletedRecursively` speaks of transitive children, the code looks at
  direct ones (`Removable`, `Lawful`). Conversely, a recursive call hands back
  only names the model does not have (`OnlySubtreesGo`).
* XOR is encoded as "not both" (`Combined`); no model of the `Solver` run has
  it. `addConstraint` is documented to fail for features that were not added; it
  makes a free constant (`AddConstraint`).
* `verifyFeatureModel` is documented to check for cycles and unique names; it
  checks the DTD only. A cycle of claims is built.

Behaviour that no documentation speaks of, and that a caller should know:

* Constraints: a failed `build` pops the open frames, so calls after it are
  put together in another order of binding; a second `build` after a successful
  one hands out moved-from leaves. XOR, division and negative integers are
  printed and cannot be lexed; a feature called `or` is the operator; `1-2` is
  one number.
* Solver: constants of numeric features that are grouped or excluded by a group
  are Boolean ones of the same name; numeric features imply no parent; a step
  that does not grow never ends; a range without a step function dereferences
  null; negative values print as `(- 5)`.
* Files: an OR group is written as mutual exclusions and read back as an
  alternative, or as no group if a member is optional. A root that is neither
  `root` nor `base` comes back as a feature below a new root. All values of a
  list but the last pass through an `int`. `A => A` is doubled by each save and
  read. An SXFM line indented less than the root has no parent, an identifier
  inside a longer word is replaced in it, a formula with an unnamed group or one
  that cannot be parsed is dropped, and a step function with the number `1.2.3`
  holds an uninitialised double.

### Bounds

`MaxQueue` bounds a queue, `MaxLocations` the copies of a location. A
transaction can be destroyed and opened again, so behaviours are not bounded in
length: the model goes through every sequence of commits. Two modifications per
queue are enough for a first one that succeeds and a second one that fails or
depends on it. Two features besides the root, one of them with a twin of the
same name, and two relationships give a feature in a group in a feature in a
group, a duplicate name and a move up, down and sideways; three roots give a
root of the same name and one of another name. In `AnyClient` one modification
per queue and two transactions already interleave, since a transaction is
reopened at will; one can wait with a feature in its queue while the other moves
that feature in one commit and removes it in the next. In `Builder`, three calls per queue let features, edges and a
root change come in each order, a name come twice, an edge be asked for twice,
and a cycle close and open while the tree is committed. In `Copy`, an object
and its twin allow one clone at a time, and a copy that was adopted can be
cloned back; there is a feature more than the initial model has, so that
features are added below original and copied parents. In `Merge` each of the
second models differs from the first in one way, and one in two, so that what is no
conflict meets another root. In `RemoveFeatures` a chain of
three and both groups are the smallest trees in which a listed descendant is a
child, is no child, and is hidden by a group; two pointers are enough for a
freed one and for a feature listed twice. The proofs are free of these bounds.

`Constraints`: `MaxCalls` is seven, enough for three operands and two operators
inside parentheses, or for four operands of three precedences; `MaxInteger`
(99) takes the place of 64 bits in the parsers, so that the overflow of a third
digit happens. `Solver`: `Numbers` is the range in which integer constants are
looked for, `MaxInteger` bounds a reference quotient and the length of a range
that does not end, and the models have at most two options beside a number;
`MaxClientCalls` is four, which is add, search, add, search. `Files`: `MaxInt`
(7) takes the place of `int`, with one value just above it. Three features give
all shapes of siblings and depth; five SXFM lines give a group followed by a
deeper line, one of its level, a shallower one and the end of the file;
`Unread` holds two values for a double that is not written.

**Symmetry** is used in `AnyClient`, on transaction objects, with safety
properties only. **Deadlock**: `CHECK_DEADLOCK FALSE` appears where a call with
undefined behaviour ends the execution, where a client has made the calls of its
bound, or where a program has read, saved and reread its file.

### Fairness

`FactorySpec` assumes `WF_vars(FactoryNext)`: the factory's methods are loops in
one thread, and a loop that can take its next turn does. Nothing else is
assumed of Z3 but that it answers. Under it `ImplementsEnumeration` includes
that the enumeration comes to its end whenever the values of all numeric
features do (`finite`); a step that does not grow is in the instance, and
there the loop inside `addFeature` never returns. No other property needs
fairness. A commit is a loop over a finite queue; nothing in it waits.

## 4. What is proved

Every theorem holds for every value of the constants that satisfies the named
assumptions of the module. No bound on features, transactions, queues, lists or
feature models is used.

| Assumption | Says | Why the code justifies it |
|---|---|---|
| `ConstantsAssumption` | features, groups and names are disjoint, a feature has one name, a constraint mentions names | they are objects and strings |
| `TransactionAssumption` | the menu holds modifications, transactions are opened on well-formed models | that is what a loaded or built model is |
| `RemoveAssumption` | a list is finite | it is a `std::vector` |
| `CopyAssumption` | every object is paired with another one of its kind and name, its own twin's twin; a copy allocates the twin if no model has it; a plain `Feature` is no root | the copy constructors; an address freed with one copy may serve the next |
| `MergeAssumption` | a second model is a well-formed model with finitely many features; lower case is a function on names | it was loaded or built; `StringRef::lower` |
| `BuilderAssumption` | a new model holds a default root; constraints are no nodes; an original is well-formed and its constraints are bound by name; a clone allocates distinct objects of the same kind and name | constructor of `FeatureModel`, `clone` of its parts |
| `SolverAssumption` | names and numbers are finite, two numbers print differently | a finite range stands for the integers of Z3 |
| `RequestsAssumption` | a model lists parents before children and names no numeric feature where a Boolean is implied (`WellPosed`); Z3 gives a constraint the truth it has (`MeansWhatItSays`) | the iterator is depth-first; for numeric features the encoding falls apart, as section 3 says; the visitor is recursive, so this part is evaluated by TLC on the models of `Solver` and assumed elsewhere |
| `ClientAssumption` | a client of a bare solver adds a feature under one parent, and under a name it does not also add as a mere name | else the option may be there before the parent, and nothing could be said |

**For every client** (`ModifyTransaction_proofs`): `LifeCycleHolds`,
`NamesAreUniqueHolds`, `OnlyOpenTransactionsWriteHolds` and
`RootDanglesOnlyByItsNamesakeHolds`, with `TypeCorrect` below them.
`TypesAndNames` is inductive with nothing but types, because unique names are kept
by each outcome of each modification, defined or not. That the root is live is no
invariant. `OutcomesKeepRootAndNames` says instead that a modification keeps it so
unless it removes a feature outside the model that has the name of the root, and
for features inside the model this is where unique names are needed: what is erased
by name is then what was meant. `LifeCycleOK` is inductive with the types; a commit
that fails has to step over the modification that failed, which gave up what it
owned.

**For a client within the rules** (`DisciplinedClient_proofs`): no undefined
behaviour, edges match parents, rooted, groups well placed, names identify,
constraints stay bound, commits as forecast. The argument has three layers.

1. The first part of `ClientRules_proofs` turns the walks, which are least fixed
   points, into facts about parents on a well-formed model: `FeatureChildrenAre`
   (a child or a member of a child group), `RelationshipWalkIsSafe`,
   `FeatureWalkIsSafe` (from `NoCycle`, since no set of nodes contains all its
   parents), `SubtreeIsAcyclic`, `ParentFeatureIs`. `WellFormedIsValid`
   concludes that the check of a commit is defined and passes.
2. Its second part shows for each edit that it keeps a model well-formed
   and, in `ProperIsHarmless`, that a modification within the rules is defined,
   has a single outcome and leaves a well-formed model, also when it fails. The
   part that takes an argument is always rootedness: given a set of nodes of
   the new model, a node of it whose parent is outside is found in the old
   model, in the set with the new group added, or with the moved subtree taken
   away.
3. `ClientInv` is the inductive invariant of the state machine. A well-formed
   model alone is not inductive: that the next modification is proper was
   established when it was queued, about a model that did not exist yet. So the
   invariant says that the forecast came true so far (`Foreseen`), that every
   modification is proper in the model foreseen for it, and that what follows
   an error repeats it. That the foreseen model is the one met needs layer 2
   once more: a proper modification has one outcome.

**The abstract tree** (`DisciplinedClient_proofs`): `ProperIsEdit` works out
`ParentFeature` after each modification within the rules and finds that features
come, go, move or get another root as one edit of `FeatureTree` allows, or stay;
`ImplementsFeatureTreeHolds` is the refinement. `FeatureTree` states no
fairness, so the theorem is the whole property of the run.

**Removing features** (`RemoveFeatures_proofs`): `OnlySubtreesGoHolds` is about
any list. Its invariant `RemoveInv` says that the model stays a tree, a part of
the one the call was given, and that only what is below the list has gone; it
has to be conditional on `~undefined`, as a pointer to a removed feature ends
all knowledge. `RemovesWhatItCanHolds` is about lawful lists and needs
`LawfulInv`: every pending removal stands for one feature that is still there,
and removing it takes no other one of the list (`Alone`). Without `Alone` the
invariant is not inductive, and the disagreement of section 3 is what then
happens. That a call ends with an empty queue comes from the list being finite
only through `Round`; termination itself is not proved.

**Copies** (`CopyTransaction_proofs`): `CopyInv` says that the client's model is
well-formed, that the copy is `mirror` with some objects exchanged
(`IsCopy`), and that the three models have no object in common. Isolation and
correspondence need each other: a twin is allocated only where no model has it,
and only because the copy is apart from the original may the client edit the
one without the other. Well-formedness of the copy is claimed only without a
second root (`CopyKept`), and a commit hands nothing out then
(`OnlyTreesAreHandedOutHolds`).

**Merging** (`MergeFeatureModels_proofs`): while the walk is under way `CopyInv`
does not describe the copy, which no sequence of proper calls has made: the walk
adds features of a foreign model, perhaps a second root, and their locations at
once. `MergeInv` says instead that there is a set `V` of features visited, closed
towards the root of the second model, that the stack holds each feature right
below `V` once and nothing else (`Walked`), and that the copy has the first model
and what is in `V` beyond it, every feature below the one its model has it below,
with the locations of both and no output (`SoFar`). `V` is not part of the state and need not
be: it is quantified in the invariant. The stack alone would not do, as an
empty one says nothing about what was met. `VisitWalks` takes one feature from the
boundary to `V`, whichever order its children are pushed in; `WalkIsComplete` uses
that the second model is rooted to conclude that an empty boundary is the end of
the walk (`AllIsVisited`), and `ConflictIsVisited` that a contradiction anywhere
is met, since the walk only stops at one. `LocationsMerge` and `CopyIsAdded` are
the two branches of `mergeSubtree`; the second needs that the parent was visited
before, and by name, that its counterpart is in the copy. The copy is a tree at
every step but for a second root (`Grown`), which the check of the commit refuses
(`SecondRootIsInvalid`) and nothing else (`UnionIsValid`); from this
`MergeIsTheUnionHolds`, `MergeRefusesConflictsHolds` and
`MergingThrowsOnlyForAnotherRootHolds` follow. `MergeStepsSucceed` shows that the results
`mergeSubtree` does not look at are never errors, and `MergingSharesNothing` that
the promises of a copying transaction hold in the middle of a merge as well.

**The builder** (`FeatureModelBuilder_proofs`): `BuilderInv` describes the model
after k calls of each of the three commits. While features are made all of them
hang below the root (`Star`), also when the root is replaced in between; while
edges are executed each feature hangs below the parent named last for it so far
(`TreeMade`), and cycles are allowed, which is why rootedness is no part of it;
while groups and constraints are executed the feature above each feature does
not change (`Up`), although edges of an older group may stay (`EdgesClimb`). A
commit that fails proves a contradiction between two calls (`~Consistent`).
`BuiltAsAskedHolds`, `BuildsWhatIsConsistentHolds` and
`BuiltTreesAreWellFormedHolds` follow; a clone is one of the clients.

`CloneKeepsAllButOutputHolds` needs more than what the calls ask for: that a clone has
nothing besides. `CloneInv` adds two parts to `BuilderInv`. `CloneAsks` says that
the queues hold exactly the calls for the objects cloned so far, in whatever
order the features came; `CloneIsConsistent` and `CloneIsTreeLike` conclude that
these calls never contradict each other and describe the tree of the original,
so the theorems above apply. `DataKept` follows what the tree does not show:
locations, which the features of a clone are constructed with, bindings, which
only ever follow a name that the constraint mentions, and the texts and
constraints of the calls executed so far. `TwinIs` and `TwinsHang` then give the
correspondence of objects and of parents. Where a feature hangs beside a group
it is the rule that a group takes all features below its parent (`GroupsTakeAll`)
that makes it a member, which is what `Regrouped` says.

**The solver and the factory** (`ConfigurationFactory_proofs`): `FactoryInv` has
one part for each phase. While the model is put in, the solutions are those of
the calls made so far (`ApplyInv`, `SolutionsOf`). `ConfigurationsAreValid` shows
that after the last call the solutions are, seen through the options, exactly
the configurations the model calls valid: this is the correctness of the
encoding of features, groups and constraints, for models of any size. From
then on the solutions left are those whose configuration was not found
(`ModelIsIn`). `NoConfigurationTwiceHolds` also covers a client that adds
features between two searches, so `SearchInv` speaks of the options there were
when a configuration was found. What was handed out is all that was found, but
for the one the iterator stands at (`HandedInv`), which makes `Deref` and
`Advance` inductive together and neither alone.
`FactoryEnumerates` is the safety part of `ImplementsEnumeration`: initial states
map to initial states, and every step to `Give`, `Finish` or a stutter. That a
configuration is given while `count < limit` takes that the valid ones are
finitely many (`ValidIsFinite`).

Each inductive invariant was checked with TLC on the instance of its run before
it was proved. The theorems rest on no unproved fact but the named assumptions
and the theorems of the library on finite sets.

**Only model-checked**:

* that the enumeration comes to its end (the fairness part of
  `ImplementsEnumeration`), as the prover cannot reason about `ENABLED`;
* constraints (the four properties of `Constraints`) and files (the six of
  `Files`), and the visitor, ranges and texts that the solver is given: trees,
  tokens and documents are taken apart by recursive operators, and what these
  compute for every input needs induction over the data;
* the violations.

## 5. Plan

All components with a protocol of their own are modelled, and every invariant and
every action property of theirs that does not speak of a recursive operator is
proved. What is left:

1. Constraints, step functions and files, if a prover for induction over trees and
   sequences is at hand: `CallsStayInOrder` first, with the invariant that the slots in
   `Frames` are prefixes of `Head_`, one inside the other.
2. The end of the enumeration, which needs reasoning about `ENABLED`.

## 6. What is not modelled

* libxml2 and the DTD: documents are those that are valid. Loading by file name,
  and what is tried when a file is no XML, are glue.
* Z3: it decides and it answers; time-outs and "unknown" are not in the model,
  and the code has no case for them.
* `Configuration` (JSON), sampling (CSV), command line tools, Python bindings,
  HTML output and dumping. They translate between values and text without
  a protocol.
* `FeatureSourceRange`, `Result` and the iterator and variant utilities, as
  modules of their own: they are values in the other modules.
* Numbers of 64 bits and doubles: integers are small, doubles are thousandths.
* Allocation failure and exceptions.
* Threads: the library uses none and documents no thread safety.
