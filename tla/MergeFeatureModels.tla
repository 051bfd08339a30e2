-------------------------- MODULE MergeFeatureModels --------------------------
(***************************************************************************)
(* mergeFeatureModels: a CopyTransaction on the first model is given what  *)
(* a depth-first walk over the second finds missing, and committed.        *)
(***************************************************************************)
EXTENDS CopyTransaction, SequencesExt

CONSTANTS
  Others,           \* models that may be merged into the client's
  PropertiesOf,     \* whether a feature is optional, its kind and its values
  LowerCase         \* the name in lower case, by which features compare

VARIABLES
  FM2,              \* the second model
  Strict,
  frontier,         \* features of FM2 still to be visited, a stack
  merging           \* the call is running

mergeVars == <<FM2, Strict, frontier, merging>>

ASSUME MergeAssumption ==
  /\ \A m \in Others : m \in Model /\ WellFormed(m) /\ IsFiniteSet(m.features)
  /\ LowerCase \in [Name -> Name]

MergeInit ==
  /\ CopyInit
  /\ FM2 \in Others
  /\ Strict \in BOOLEAN
  /\ frontier = << >>
  /\ merging = FALSE

-------------------------------------------------------------------------------

\* Feature::operator!= on the parents: models tell their features apart by the case of
\* the names, a comparison of features does not.
SameParents(F1, F2) ==
  LowerCase[NameOf[ParentFeature(FM, F1)]] = LowerCase[NameOf[ParentFeature(FM2, F2)]]

\* Mutant: only strict merging looks at the parents.
compareStrictly(F1, F2) ==
  Strict =>
    /\ {F1, F2} \cap RootFeature = {} => SameParents(F1, F2)
    /\ PropertiesOf[F1] = PropertiesOf[F2]
    /\ F1 \in RootFeature <=> F2 \in RootFeature
    /\ F1 \notin RootFeature => (FM.parent[F1] \in Feature <=> FM2.parent[F2] \in Feature)
    /\ F1 \notin UnknownFeature

\* For two features of one name; their parents are always compared.
compareProperties(F1, F2) ==
  /\ {F1, F2} \cap RootFeature = {} => SameParents(F1, F2)
  /\ Strict =>
       /\ PropertiesOf[F1] = PropertiesOf[F2]
       /\ F1 \in RootFeature <=> F2 \in RootFeature
       /\ F1 \notin RootFeature => (FM.parent[F1] \in Feature <=> FM2.parent[F2] \in Feature)
       /\ F1 \notin UnknownFeature

\* featureCopy knows binary, numeric and root features.
Mergeable(F) ==
  LET CMP == GetFeature(FM, NameOf[F]) IN
  IF CMP # Nil THEN compareProperties(CMP, F) ELSE F \notin UnknownFeature

\* Locations that the feature of the first model does not have are added.
MergeLocations(F) ==
  LET CMP == GetFeature(FM, NameOf[F])
      missing == {l \in Location : FM.locations[CMP][l] = 0}
  IN  [copy EXCEPT !.locations[translateFeature(CMP)] =
         [l \in Location |-> @[l] + IF l \in missing THEN FM2.locations[F][l] ELSE 0]]

\* The copy of a feature is constructed with its locations, that of a root is not, and
\* none with the output.
WithLocations(m, F) ==
  IF F \in RootFeature THEN m
  ELSE [m EXCEPT !.locations[Twin[F]] = FM2.locations[F], !.output[Twin[F]] = Nil]

\* Mutant: the parent is forgotten.
AddCopyToRoot(F) == [op |-> "AddFeature", feature |-> Twin[F], parent |-> Nil]

AddCopy(F) ==
  [op |-> "AddFeature", feature |-> Twin[F], parent |-> ParentFeature(FM2, F)]

\* openTransaction on the first model, and the walk begins at the second's root.
MergeFeatureModels(strict) ==
  /\ ~merging
  /\ {Twin[x] : x \in Objects(FM2)} \cap (Allocated \cup {Twin[x] : x \in Objects(FM)}) = {}
  /\ OpenTransaction
  /\ Strict' = strict
  /\ frontier' = <<FM2.root>>
  /\ merging' = TRUE
  /\ UNCHANGED FM2

\* One call of mergeSubtree.  What addFeature returns is not looked at.
mergeSubtree ==
  /\ merging
  /\ frontier # << >>
  /\ LET F == Head(frontier) IN
       /\ Mergeable(F)
       /\ IF GetFeature(FM, NameOf[F]) # Nil THEN copy' = MergeLocations(F)
          ELSE LET call == [AddCopy(F) EXCEPT !.parent = IF @ = Nil THEN Nil ELSE translateFeature(@)]
               IN  \E o \in Outcomes(WithLocations(copy, F), call) : copy' = o.model
       /\ \E children \in SetToSeqs(FeatureChildren(FM2, F)) :
            frontier' = children \o Tail(frontier)
  /\ UNCHANGED <<FM, Continue, opened, handedOut, answer, mirror, FM2, Strict, merging>>

\* A conflict ends the walk: the transaction is aborted.
MergeConflict ==
  /\ merging
  /\ frontier # << >> /\ ~Mergeable(Head(frontier))
  /\ Continue' = FALSE
  /\ copy' = Nil
  /\ mirror' = Nil
  /\ opened' = FALSE
  /\ answer' = "nullptr"
  /\ merging' = FALSE
  /\ frontier' = << >>
  /\ UNCHANGED <<FM, handedOut, FM2, Strict>>

\* Mutant: the commit hands the model out unchecked.
MergeEndUnchecked ==
  /\ merging
  /\ frontier = << >>
  /\ handedOut' = copy
  /\ answer' = "OK"
  /\ copy' = Nil
  /\ mirror' = Nil
  /\ opened' = FALSE
  /\ merging' = FALSE
  /\ UNCHANGED <<FM, FM2, Strict, frontier, Continue>>

\* *Trans.commit(): an error has no value, and asking for it throws.
MergeEnd ==
  /\ merging
  /\ frontier = << >>
  /\ IF IsFeatureModelValid(copy)
     THEN handedOut' = copy /\ answer' = "OK" /\ UNCHANGED Continue
     ELSE Continue' = FALSE /\ answer' = "throws" /\ UNCHANGED handedOut
  /\ copy' = Nil
  /\ mirror' = Nil
  /\ opened' = FALSE
  /\ merging' = FALSE
  /\ UNCHANGED <<FM, FM2, Strict, frontier>>

MergeNext ==
  \/ ~merging /\ CopyNext /\ UNCHANGED mergeVars
  \/ \E strict \in BOOLEAN : MergeFeatureModels(strict)
  \/ mergeSubtree
  \/ MergeConflict
  \/ MergeEnd

MergeSpec == MergeInit /\ [][MergeNext]_<<copyVars, mergeVars>>

-------------------------------------------------------------------------------

NamesIn(m) == {NameOf[f] : f \in m.features}

ParentName(m, n) ==
  LET p == ParentFeature(m, GetFeature(m, n)) IN IF p = Nil THEN Nil ELSE NameOf[p]

LocationsIn(m, n) ==
  IF GetFeature(m, n) = Nil THEN {} ELSE {l \in Location : m.locations[GetFeature(m, n)][l] > 0}

\* What a model says of a feature, apart from the feature it hangs below.
Description(m, f) == <<PropertiesOf[f], f \in RootFeature, m.parent[f] \in Relationship>>

\* The models say different things of a name, or a feature cannot be copied.  Parents
\* whose names differ by case only are no contradiction.
Conflict(n) ==
  LET f == GetFeature(FM, n)
      g == GetFeature(FM2, n)
  IN  /\ g # Nil
      /\ IF f = Nil THEN g \in UnknownFeature
         ELSE \/ /\ {f, g} \cap RootFeature = {}
                /\ LowerCase[ParentName(FM, n)] # LowerCase[ParentName(FM2, n)]
              \/ Strict /\ (Description(FM, f) # Description(FM2, g) \/ f \in UnknownFeature)

Merged(m) ==
  /\ WellFormed(m)
  /\ NamesIn(m) = NamesIn(FM) \cup NamesIn(FM2)
  /\ \A n \in NamesIn(m) :
       ParentName(m, n) = IF n \in NamesIn(FM) THEN ParentName(FM, n) ELSE ParentName(FM2, n)
  /\ \A n \in NamesIn(m) : GetFeature(FM, n) \notin RootFeature \cup UnknownFeature =>
       LocationsIn(m, n) = LocationsIn(FM, n) \cup LocationsIn(FM2, n)
  /\ m.output = NoOutput

\* What is returned has the features of both models, each where its model has it (the
\* first, if both have it below names that differ by case), with the locations of both
\* unless clone drops them and with no output, and is a tree; the models merged stay as
\* they are.
MergeIsTheUnion ==
  [][merging /\ ~merging' =>
       /\ answer' = "OK" => Merged(handedOut')
       /\ UNCHANGED <<FM, FM2>>]_<<copyVars, mergeVars>>

\* Merging is refused exactly when the models contradict each other, wherever in
\* the walk the contradiction shows, and then nothing is handed out.  A feature that
\* the models have below names like Foo and foo is no contradiction for the code,
\* although both parents come to be in the result.
MergeRefusesConflicts ==
  [][merging /\ ~merging' =>
       /\ (answer' = "nullptr") <=> \E n \in Name : Conflict(n)
       /\ answer' # "OK" => handedOut' = handedOut]_<<copyVars, mergeVars>>

\* Without a contradiction a model is returned, unless the roots have two names:
\* the error of the commit is then not looked at and its value is asked for.
MergingThrowsOnlyForAnotherRoot ==
  [][merging /\ ~merging' =>
       (answer' = "throws" <=> NameOf[FM2.root] \notin NamesIn(FM) /\ ~\E n \in Name : Conflict(n))]_<<copyVars, mergeVars>>

===============================================================================
