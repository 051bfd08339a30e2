---------------------------- MODULE RemoveFeatures ----------------------------
(***************************************************************************)
(* removeFeatures: the features of a list are removed in rounds.  A round  *)
(* picks those that nothing listed hangs below and commits their removal   *)
(* in one ModifyTransaction, the next round works on the rest of the list, *)
(* and a round that picks nothing hands the rest back.                     *)
(*                                                                         *)
(* std::partition keeps no order, so the list is a set of names and        *)
(* pointers; a feature is listed twice when its name and a pointer are.    *)
(***************************************************************************)
EXTENDS ModifyTransaction, SequencesExt

CONSTANTS
  Trans,            \* the transaction of a round
  Lists             \* the lists a client passes

ASSUME RemoveAssumption ==
  /\ Transaction = {Trans}
  /\ Lists \subseteq SUBSET (Feature \cup Name)
  /\ \A list \in Lists : IsFiniteSet(list)

VARIABLES
  rest,             \* what is still listed
  Recursive,
  call,             \* where the running call is, or "idle"
  NotDeletedFeatures,
  asked, before     \* history: the list and the model the call was given

removeVars == <<rest, Recursive, call, NotDeletedFeatures, asked, before>>

RemoveInit ==
  /\ Init
  /\ rest = {}
  /\ Recursive = FALSE
  /\ call = "idle"
  /\ NotDeletedFeatures = {}
  /\ asked = {}
  /\ before = FM

-------------------------------------------------------------------------------

\* getActualFeature for each entry; a name that is not found is left out.
Listed(m, list) == {Resolve(m, ref) : ref \in list} \ {Nil}

Children(f) == Targets(FM, {f})

\* fvIsLeaf: a group without members is a child as well.
isLeaf(f) == Children(f) = {}

\* Mutant: what else is listed does not matter.
EverythingListed == {Listed(FM, rest)}

\* The features of a round: leaves and, when it is recursive, features without a listed
\* child.  canBeDeletedRecursively only looks at direct children, groups among them, and
\* std::set_intersection walks them in the order of a hash set: where only some are
\* listed it may meet none of those.
Removable ==
  LET listed == Listed(FM, rest)
      free == {f \in listed : isLeaf(f) \/ (Recursive /\ Children(f) \cap listed = {})}
      overlooked == {f \in listed : Recursive /\ ~(Children(f) \subseteq listed)}
  IN  {free \cup F : F \in SUBSET overlooked}

Removal(ref) == [op |-> "RemoveFeature", ref |-> ref, recursive |-> Recursive]

removeFeatures(list, recursive) ==
  /\ ~undefined
  /\ call = "idle"
  /\ list \cap Node \subseteq FM.features
  /\ call' = "round"
  /\ rest' = list
  /\ Recursive' = recursive
  /\ NotDeletedFeatures' = {}
  /\ asked' = list
  /\ before' = FM
  /\ UNCHANGED vars

\* The removals of a round are queued and their commit begins.
Round ==
  /\ ~undefined
  /\ call = "round"
  /\ Listed(FM, rest) \subseteq FM.features
  /\ \E F \in Removable :
       LET picked == {ref \in rest : Resolve(FM, ref) \in F} IN
       /\ picked # {}
       /\ rest' = rest \ picked
       /\ \E order \in SetToSeqs(picked) :
            Modifications' = [Modifications EXCEPT ![Trans] = [i \in DOMAIN order |-> Removal(order[i])]]
  /\ phase' = [phase EXCEPT ![Trans] = "committing"]
  /\ call' = "committing"
  /\ UNCHANGED <<FM, next, result, undefined, Recursive, NotDeletedFeatures, asked, before>>

\* An entry is a pointer to a feature that an earlier round freed.
RoundOnFreed ==
  /\ ~undefined
  /\ call = "round"
  /\ ~(Listed(FM, rest) \subseteq FM.features)
  /\ undefined' = TRUE
  /\ UNCHANGED <<FM, phase, Modifications, next, result, removeVars>>

\* Nothing, or nothing that can be deleted, is left.
Return ==
  /\ ~undefined
  /\ call = "round"
  /\ Listed(FM, rest) \subseteq FM.features
  /\ \E F \in Removable : F = {}
  /\ NotDeletedFeatures' = rest
  /\ rest' = {}
  /\ call' = "idle"
  /\ UNCHANGED <<vars, Recursive, asked, before>>

\* What the commit returns is not looked at.
NextRound ==
  /\ call = "committing"
  /\ phase[Trans] = "closed"
  /\ DestroyTransaction(Trans)
  /\ call' = "round"
  /\ UNCHANGED <<rest, Recursive, NotDeletedFeatures, asked, before>>

RemoveNext ==
  \/ \E list \in Lists, recursive \in BOOLEAN : removeFeatures(list, recursive)
  \/ Round \/ RoundOnFreed \/ Return
  \/ Step(Trans) /\ UNCHANGED removeVars
  \/ NextRound

RemoveSpec == RemoveInit /\ [][RemoveNext]_<<vars, removeVars>>

-------------------------------------------------------------------------------

Returned == call = "idle" /\ ~undefined

\* The features below f.
BelowIt(m, f) == Subtree(m, f) \ {f}

\* The list names no feature twice and not the root and, for a recursive call, a feature
\* that another listed one hangs below has all its children listed.
Lawful ==
  LET listed == Listed(before, asked) IN
  /\ \A r, q \in asked : Resolve(before, r) = Resolve(before, q) /\ r # q => Resolve(before, r) = Nil
  /\ before.root \notin listed
  /\ Recursive => \A f \in listed : BelowIt(before, f) \cap listed # {} => Targets(before, {f}) \subseteq listed

\* Listed features below which there is nothing but listed features.
Clear == {f \in Listed(before, asked) : Below(before, f) \subseteq Listed(before, asked)}

\* A lawful list is worked off completely: without recursion the features go that have
\* nothing but listed features below them and the others are handed back, with it each
\* goes with all that is below it, and no name comes back but those that are unknown.
\* No round frees what another one still has a pointer to.
RemovesWhatItCan ==
  Lawful =>
    /\ ~undefined
    /\ Returned =>
         /\ before.features \ FM.features =
              IF Recursive THEN UNION {Subtree(before, f) : f \in Listed(before, asked)} ELSE Clear
         /\ NotDeletedFeatures =
              {ref \in asked : Resolve(before, ref) \notin IF Recursive THEN Listed(before, asked) ELSE Clear}

\* Whatever is listed, a call that is defined leaves a tree and takes nothing but listed
\* features and, if it is recursive, what is below them; a recursive call hands back only
\* what the model does not have any more.
OnlySubtreesGo ==
  Returned =>
    /\ EdgesMatchParents(FM) /\ Rooted(FM) /\ GroupsWellPlaced(FM)
    /\ \A n \in Live(FM) : FM.parent[n] = before.parent[n]
    /\ before.features \ FM.features \subseteq
         IF Recursive THEN UNION {Subtree(before, f) : f \in Listed(before, asked)} ELSE Listed(before, asked)
    /\ NotDeletedFeatures \subseteq asked
    /\ Recursive => Listed(FM, NotDeletedFeatures) = {}

===============================================================================
