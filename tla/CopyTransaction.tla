---------------------------- MODULE CopyTransaction ----------------------------
(***************************************************************************)
(* FeatureModelTransaction<CopyTransactionMode>: it clones the model when  *)
(* it is opened, executes each call on the clone at once, and hands the    *)
(* clone out when it is committed.  Features are passed to it by name or   *)
(* by pointer, also into the original, and looked up by name in the clone. *)
(*                                                                         *)
(* The client keeps to ClientRules in what it asks of the clone.  It may   *)
(* edit the original while the transaction is open, and may adopt the      *)
(* model it is handed as its own.                                          *)
(***************************************************************************)
EXTENDS ClientRules, ModelCopy

CONSTANTS
  Menu,             \* the calls the client makes
  EditMenu,         \* the modifications it makes to its own model
  InitialModels,
  Twin,             \* pairs each object with one of the same name
  UnknownFeature,   \* features of kind FK_UNKNOWN
  MaxLocations      \* bound on the copies of a location a feature is given

\* Locations belong to Feature objects: what is not in the model has none.
OnlyItsLocations(m) == \A f \in Feature \ m.features, l \in Location : m.locations[f][l] = 0

ASSUME CopyAssumption ==
  /\ MaxLocations \in Nat
  /\ Menu \cup EditMenu \subseteq Modification
  /\ InitialModels \subseteq Model
  /\ \A m \in InitialModels : WellFormed(m) /\ OnlyItsLocations(m)
  /\ Constraint \cap (Node \cup Name \cup {Nil}) = {}
  /\ Nil \notin Model
  /\ UnknownFeature \subseteq Feature \ RootFeature
  /\ Twin \in [Node \cup Constraint -> Node \cup Constraint]
  /\ \A x \in DOMAIN Twin : Twin[x] # x /\ Twin[Twin[x]] = x
  /\ \A f \in Feature : Twin[f] \in Feature /\ NameOf[Twin[f]] = NameOf[f]
  /\ \A f \in RootFeature : Twin[f] \in RootFeature
  /\ \A r \in Relationship : Twin[r] \in Relationship
  /\ \A c \in Constraint : Twin[c] \in Constraint /\ Mentions[Twin[c]] = Mentions[c]

VARIABLES
  FM,               \* the client's model
  copy,             \* the transaction's model, or Nil
  Continue,         \* FALSE once the transaction is aborted
  opened,           \* there is a transaction object
  handedOut,        \* the model a commit returned, until the client adopts it
  answer,           \* what the last call returned
  mirror            \* what the calls that take effect would have made of what was cloned

copyVars == <<FM, copy, Continue, opened, handedOut, answer, mirror>>

CopyInit ==
  /\ FM \in InitialModels
  /\ copy = Nil
  /\ Continue = TRUE
  /\ opened = FALSE
  /\ handedOut = Nil
  /\ answer = "none"
  /\ mirror = Nil

-------------------------------------------------------------------------------

Objects(m) == IF m = Nil THEN {} ELSE Live(m) \cup m.constraints

Allocated == Objects(FM) \cup Objects(copy) \cup Objects(handedOut)

\* What clone keeps of a model, which FeatureModelBuilder works out: no output, and no
\* locations of a root or of a feature of no known kind, which are not among the
\* arguments of makeRoot and makeFeature.
Cloned(m) ==
  [WithoutOutput(Regrouped(m)) EXCEPT !.locations =
     [f \in Feature |-> IF f \in RootFeature \cup UnknownFeature THEN [l \in Location |-> 0] ELSE @[f]]]

\* The constructor clones.
OpenTransaction ==
  /\ ~opened
  /\ handedOut = Nil
  /\ MayClone(FM)
  /\ {Twin[x] : x \in Objects(FM)} \cap Allocated = {}
  /\ opened' = TRUE
  /\ copy' = Renamed(Cloned(FM), Twin)
  /\ Continue' = TRUE
  /\ mirror' = Cloned(FM)
  /\ answer' = "none"
  /\ UNCHANGED <<FM, handedOut>>

\* translateFeature: the feature of that name in the copy, or null.
translateFeature(f) == GetFeature(copy, NameOf[f])

RefersToFeature ==
  {"RemoveFeature", "AddRelationship", "RemoveRelationship", "AddLocation", "RemoveLocation"}

\* The feature that is passed on to translateFeature by reference.
Referred(mod) == IF mod.ref \in Name THEN GetFeature(copy, mod.ref) ELSE mod.ref

\* Mutant: the parent is not looked up in the copy.
TranslatedReferences(mod) ==
  IF mod.op \in RefersToFeature THEN [mod EXCEPT !.ref = translateFeature(Referred(mod))] ELSE mod

\* Mutant: the parent is dropped.
TranslatedWithoutParent(mod) ==
  IF mod.op = "AddFeature" THEN [mod EXCEPT !.parent = Nil]
  ELSE IF mod.op \in RefersToFeature THEN [mod EXCEPT !.ref = translateFeature(Referred(mod))]
  ELSE mod

Translated(mod) ==
  IF mod.op = "AddFeature" /\ mod.parent # Nil THEN [mod EXCEPT !.parent = translateFeature(@)]
  ELSE IF mod.op \in RefersToFeature THEN [mod EXCEPT !.ref = translateFeature(Referred(mod))]
  ELSE mod

\* These calls report that there is no model; the others assert.
ReportsError == {"AddFeature", "AddRelationship", "AddConstraint", "SetRoot"}

DereferencesNull(mod) ==
  IF copy = Nil THEN mod.op \notin ReportsError \cup {"AddChild"}
  ELSE mod.op \in RefersToFeature /\ Referred(mod) = Nil

\* addChildImpl makes a modification and never executes it.
TakesEffect(mod) == mod.op # "AddChild"

CallOutcomes(mod) ==
  IF DereferencesNull(mod) THEN Undefined(copy)
  ELSE IF ~TakesEffect(mod) THEN Succeeds(copy)
  ELSE IF copy = Nil THEN {Outcome(copy, "ERROR")}
  ELSE Outcomes(copy, Translated(mod))

\* The same call on the original, in which each object of the copy has its twin.
Mirrored(mod) ==
  LET back(x) == IF x \in Objects(copy) \cup Owned(mod) THEN Twin[x] ELSE x IN
  IF mod.op \in {"AddFeature", "SetRoot"}
  THEN IF mod.op = "SetRoot" THEN [mod EXCEPT !.feature = back(@)]
       ELSE [mod EXCEPT !.feature = back(@), !.parent = back(@)]
  ELSE IF mod.op \in RefersToFeature
  THEN IF mod.op = "AddRelationship" THEN [mod EXCEPT !.relationship = back(@), !.ref = back(@)]
       ELSE [mod EXCEPT !.ref = back(@)]
  ELSE IF mod.op = "AddConstraint" THEN [mod EXCEPT !.constraint = back(@)]
  ELSE mod

\* The copy has a second root.
TwoRoots(m) == m.features \cap RootFeature # {m.root}

\* The client asks for what its own model, as it was, could do, and passes live
\* pointers.  It may add a second root, and then only commits or aborts.
MayCall(mod) ==
  /\ PointsTo(mod) \subseteq Live(FM) \cup (Objects(copy) \cap Node)
  /\ Owned(mod) \cap Allocated = {}
  /\ {Twin[x] : x \in Owned(mod)} \cap (Objects(copy) \cup Objects(mirror)) = {}
  /\ copy = Nil => mod.op \in ReportsError \cup {"AddChild"}
  /\ copy # Nil /\ TakesEffect(mod) =>
       /\ ~TwoRoots(copy)
       /\ mod.op \in RefersToFeature => Finds(mirror, Mirrored(mod).ref)
       /\ \/ Proper(mirror, Mirrored(mod))
          \/ mod.op = "AddFeature" /\ Mirrored(mod).parent \in mirror.features \cup {Nil}

Call(mod) ==
  /\ opened
  /\ MayCall(mod)
  /\ copy # Nil /\ mod.op = "AddLocation" =>
       \A f \in Feature : copy.locations[f][mod.location] < MaxLocations
  /\ \E o \in CallOutcomes(mod) :
       /\ copy' = o.model
       /\ answer' = o.code
  /\ IF copy # Nil /\ TakesEffect(mod)
     THEN \E o \in Outcomes(mirror, Mirrored(mod)) : mirror' = o.model
     ELSE UNCHANGED mirror
  /\ UNCHANGED <<FM, Continue, opened, handedOut>>

\* Mutant: whatever the calls made of the copy is handed out.
CommitUnchecked ==
  /\ opened
  /\ IF Continue /\ copy # Nil
     THEN handedOut' = copy /\ answer' = "OK" /\ UNCHANGED Continue
     ELSE Continue' = FALSE /\ answer' = "ABORTED" /\ UNCHANGED handedOut
  /\ copy' = Nil
  /\ mirror' = Nil
  /\ UNCHANGED <<FM, opened>>

\* Mutant: the transaction keeps the model it hands out.
CommitKeepingCopy ==
  /\ opened
  /\ IF Continue /\ copy # Nil /\ IsFeatureModelValid(copy)
     THEN handedOut' = copy /\ answer' = "OK" /\ UNCHANGED <<Continue, copy, mirror>>
     ELSE Continue' = FALSE /\ answer' = "ABORTED" /\ copy' = Nil /\ mirror' = Nil /\ UNCHANGED handedOut
  /\ UNCHANGED <<FM, opened>>

\* The model is moved out if it passes the check, and thrown away otherwise.
Commit ==
  /\ opened
  /\ IF Continue /\ copy # Nil /\ ~CheckIsSafe(copy, Live(copy))
     THEN answer' = "UB" /\ UNCHANGED <<Continue, handedOut>>
     ELSE IF Continue /\ copy # Nil /\ IsFeatureModelValid(copy)
     THEN handedOut' = copy /\ answer' = "OK" /\ UNCHANGED Continue
     ELSE Continue' = FALSE /\ answer' = "ABORTED" /\ UNCHANGED handedOut
  /\ copy' = Nil
  /\ mirror' = Nil
  /\ UNCHANGED <<FM, opened>>

Abort ==
  /\ opened
  /\ Continue' = FALSE
  /\ copy' = Nil
  /\ mirror' = Nil
  /\ answer' = "none"
  /\ UNCHANGED <<FM, opened, handedOut>>

\* The destructor asserts that there is nothing to commit; the copy is dropped.
DestroyTransaction ==
  /\ opened
  /\ opened' = FALSE
  /\ copy' = Nil
  /\ mirror' = Nil
  /\ answer' = "none"
  /\ UNCHANGED <<FM, Continue, handedOut>>

-------------------------------------------------------------------------------
(* What the client does with its own models *)

\* It edits its model by transactions of one modification each.
EditOriginal(mod) ==
  /\ Owned(mod) \cap Allocated = {}
  /\ PointsTo(mod) \subseteq Live(FM)
  /\ Proper(FM, mod)
  /\ \E o \in Outcomes(FM, mod) : FM' = o.model
  /\ UNCHANGED <<copy, Continue, opened, handedOut, answer, mirror>>

\* FM = std::move(*Result)
Adopt ==
  /\ ~opened
  /\ handedOut # Nil
  /\ FM' = handedOut
  /\ handedOut' = Nil
  /\ UNCHANGED <<copy, Continue, opened, answer, mirror>>

CopyNext ==
  \/ OpenTransaction
  \/ \E mod \in Menu : Call(mod)
  \/ Commit \/ Abort \/ DestroyTransaction
  \/ \E mod \in EditMenu : EditOriginal(mod)
  \/ Adopt

CopySpec == CopyInit /\ [][CopyNext]_copyVars

-------------------------------------------------------------------------------

\* The copy is what the calls so far, all but addChild, would have made of what was
\* cloned when the transaction was opened: every argument is translated to the right
\* feature, also when the original has changed since.  That addChild is without effect,
\* where a transaction that modifies moves the child, is not held against it here.
CopyFollowsTheModel == copy # Nil => copy = Renamed(mirror, Twin)

\* The client's model, the copy and what was handed out have no object in
\* common, and none has a pointer into another: each is closed and well-formed,
\* but for the root the client may have added to the copy.
NothingIsShared ==
  /\ Objects(FM) \cap (Objects(copy) \cup Objects(handedOut)) = {}
  /\ Objects(copy) \cap Objects(handedOut) = {}
  /\ WellFormed(FM)
  /\ copy # Nil => EdgesMatchParents(copy) /\ ConstraintsBound(copy)
  /\ copy # Nil /\ ~TwoRoots(copy) => WellFormed(copy)

\* Only a well-formed model leaves a commit, although the copy may be broken.
OnlyTreesAreHandedOut == handedOut # Nil => WellFormed(handedOut)

\* No call within the rules dereferences a null or freed pointer.
CallsAreDefined == answer # "UB"

===============================================================================
