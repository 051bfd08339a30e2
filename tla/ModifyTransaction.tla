--------------------------- MODULE ModifyTransaction ---------------------------
(***************************************************************************)
(* FeatureModelTransaction<ModifyTransactionMode>: the API calls of a      *)
(* client are queued as modifications, a commit executes the queue on the  *)
(* shared model one modification at a time and stops at the first error.   *)
(* Several transactions may be open on one model (FeatureModelBuilder      *)
(* opens three).  The code is single-threaded: no call is made while a     *)
(* commit runs, but any may be made between two commits.                   *)
(***************************************************************************)
EXTENDS FeatureModelModification, Sequences

CONSTANTS
  Transaction,      \* transaction objects
  Menu,             \* the modifications clients may ask for
  InitialModels,    \* the models the transactions are opened on
  MaxQueue,         \* bound on the modifications queued in one transaction
  MaxLocations      \* bound on the copies of a location a feature is given

ASSUME TransactionAssumption ==
  /\ Menu \subseteq Modification
  /\ InitialModels \subseteq Model
  /\ \A m \in InitialModels : WellFormed(m)
  /\ MaxQueue \in Nat
  /\ MaxLocations \in Nat
  /\ Nil \notin Transaction

VARIABLES
  FM,               \* the feature model
  phase,            \* life cycle of each transaction object
  Modifications,    \* its queue
  next,             \* index of the modification a running commit executes next
  result,           \* what the last commit of the transaction returned
  undefined         \* some call had undefined behaviour, the execution ends

vars == <<FM, phase, Modifications, next, result, undefined>>

\* "destroying" is the commit that ~FeatureModelTransaction makes.
Phase == {"none", "open", "committing", "destroying", "closed"}
Running == {"committing", "destroying"}
Result == ErrorCode \cup {"none", "OK", "INCONSISTENT", "ABORTED"}

TypeOK ==
  /\ FM \in Model
  /\ phase \in [Transaction -> Phase]
  /\ Modifications \in [Transaction -> Seq(Menu)]
  /\ next \in [Transaction -> Nat]
  /\ result \in [Transaction -> Result]
  /\ undefined \in BOOLEAN

Init ==
  /\ FM \in InitialModels
  /\ phase = [t \in Transaction |-> "none"]
  /\ Modifications = [t \in Transaction |-> << >>]
  /\ next = [t \in Transaction |-> 1]
  /\ result = [t \in Transaction |-> "none"]
  /\ undefined = FALSE

-------------------------------------------------------------------------------

\* The client can make a call.
Idle == ~undefined /\ \A t \in Transaction : phase[t] \notin Running

Queued == UNION {{Modifications[t][i] : i \in 1..Len(Modifications[t])} : t \in Transaction}

\* The features that a transaction owns because their insertion was not executed yet.
\* They can be dereferenced like those of the model, also from another queue.
QueuedFeatures ==
  {x \in Feature : \E t \in Transaction : \E i \in next[t]..Len(Modifications[t]) :
     Modifications[t][i].op = "AddFeature" /\ Modifications[t][i].feature = x}

Alive == Live(FM) \cup QueuedFeatures

\* An object can be allocated when nothing owns or names it.  What an object stored
\* that was freed before it came to be in the model is never read, so it is not
\* allocated again.
IsFresh(x) ==
  /\ x \notin Live(FM) \cup FM.constraints
  /\ \A b \in FM.bound : x \notin {b[1], b[2]}
  /\ \A e \in FM.edges : x \notin {e[1], e[2]}
  /\ x \in Node => FM.parent[x] = Nil
  /\ x \in Feature => \A l \in Location : FM.locations[x][l] = 0
  /\ \A n \in Node : FM.parent[n] # x
  /\ FM.root # x
  /\ \A mod \in Queued : x \notin Owned(mod) \cup PointsTo(mod)

OpenTransaction(t) ==
  /\ Idle
  /\ phase[t] = "none"
  /\ phase' = [phase EXCEPT ![t] = "open"]
  /\ UNCHANGED <<FM, Modifications, next, result, undefined>>

\* Most calls queue on a finished transaction as well; the others assert.
QueuesWhenClosed(mod) ==
  mod.op \notin {"AddFeature", "SetInfo", "SetRoot", "AddChild"}

\* addFeature, removeFeature, ...: a pointer names what is alive when the call is made,
\* in the model or in a queue.
Queue(t, mod) ==
  /\ Idle
  /\ phase[t] = "open" \/ (phase[t] = "closed" /\ QueuesWhenClosed(mod))
  /\ Len(Modifications[t]) < MaxQueue
  /\ mod.op = "AddLocation" => \A f \in Feature : FM.locations[f][mod.location] < MaxLocations
  /\ \A x \in Owned(mod) : IsFresh(x)
  /\ PointsTo(mod) \subseteq Alive
  /\ Modifications' = [Modifications EXCEPT ![t] = Append(@, mod)]
  /\ UNCHANGED <<FM, phase, next, result, undefined>>

\* Mutant: a finished transaction commits once more.
CommitFinished(t) ==
  /\ Idle
  /\ phase[t] \in {"open", "closed"}
  /\ phase' = [phase EXCEPT ![t] = "committing"]
  /\ UNCHANGED <<FM, Modifications, next, result, undefined>>

Commit(t) ==
  /\ Idle
  /\ phase[t] = "open"
  /\ phase' = [phase EXCEPT ![t] = "committing"]
  /\ UNCHANGED <<FM, Modifications, next, result, undefined>>

\* A transaction that is not open any more does nothing.
CommitAgain(t) ==
  /\ Idle
  /\ phase[t] = "closed"
  /\ result' = [result EXCEPT ![t] = "ABORTED"]
  /\ UNCHANGED <<FM, phase, Modifications, next, undefined>>

Abort(t) ==
  /\ Idle
  /\ phase[t] = "open"
  /\ phase' = [phase EXCEPT ![t] = "closed"]
  /\ UNCHANGED <<FM, Modifications, next, result, undefined>>

\* The destructor commits an uncommitted transaction.
DestroyTransaction(t) ==
  /\ Idle
  /\ phase[t] \in {"open", "closed"}
  /\ IF phase[t] = "open"
     THEN /\ phase' = [phase EXCEPT ![t] = "destroying"]
          /\ UNCHANGED <<Modifications, next, result>>
     ELSE /\ phase' = [phase EXCEPT ![t] = "none"]
          /\ Modifications' = [Modifications EXCEPT ![t] = << >>]
          /\ next' = [next EXCEPT ![t] = 1]
          /\ result' = [result EXCEPT ![t] = "none"]
  /\ UNCHANGED <<FM, undefined>>

-------------------------------------------------------------------------------

\* Mutant: a commit that fails does not finish the transaction.
EndWithoutAbort(t, code) ==
  IF phase[t] = "committing"
  THEN /\ phase' = [phase EXCEPT ![t] = IF code = "OK" THEN "closed" ELSE "open"]
       /\ result' = [result EXCEPT ![t] = code]
       /\ next' = [next EXCEPT ![t] = IF @ > Len(Modifications[t]) THEN @ ELSE @ + 1]
       /\ UNCHANGED Modifications
  ELSE /\ phase' = [phase EXCEPT ![t] = "none"]
       /\ result' = [result EXCEPT ![t] = "none"]
       /\ Modifications' = [Modifications EXCEPT ![t] = << >>]
       /\ next' = [next EXCEPT ![t] = 1]

\* A commit of t ends with a code.  The queue is only destroyed with t; a modification
\* that failed has given up what it owned.
End(t, code) ==
  IF phase[t] = "committing"
  THEN /\ phase' = [phase EXCEPT ![t] = "closed"]
       /\ result' = [result EXCEPT ![t] = code]
       /\ next' = [next EXCEPT ![t] = IF @ > Len(Modifications[t]) THEN @ ELSE @ + 1]
       /\ UNCHANGED Modifications
  ELSE /\ phase' = [phase EXCEPT ![t] = "none"]
       /\ result' = [result EXCEPT ![t] = "none"]
       /\ Modifications' = [Modifications EXCEPT ![t] = << >>]
       /\ next' = [next EXCEPT ![t] = 1]

\* Mutant: the loop does not stop at an error.
ExecuteAll(t) ==
  /\ ~undefined
  /\ phase[t] \in Running
  /\ next[t] <= Len(Modifications[t])
  /\ \E o \in OutcomesAmong(FM, Modifications[t][next[t]], Alive) :
       /\ FM' = o.model
       /\ undefined' = (o.code = "UB")
  /\ next' = [next EXCEPT ![t] = @ + 1]
  /\ UNCHANGED <<phase, Modifications, result>>

\* One turn of the loop in commitImpl.
Execute(t) ==
  /\ ~undefined
  /\ phase[t] \in Running
  /\ next[t] <= Len(Modifications[t])
  /\ \E o \in OutcomesAmong(FM, Modifications[t][next[t]], Alive) :
       /\ FM' = o.model
       /\ undefined' = (o.code = "UB")
       /\ IF o.code \in {"OK", "UB"}
          THEN /\ next' = [next EXCEPT ![t] = @ + 1]
               /\ UNCHANGED <<phase, Modifications, result>>
          ELSE End(t, o.code)

\* The consistency check behind the loop.
Finish(t) ==
  /\ ~undefined
  /\ phase[t] \in Running
  /\ next[t] > Len(Modifications[t])
  /\ IF CheckIsSafe(FM, Alive)
     THEN /\ End(t, IF IsFeatureModelValid(FM) THEN "OK" ELSE "INCONSISTENT")
          /\ UNCHANGED undefined
     ELSE /\ undefined' = TRUE
          /\ UNCHANGED <<phase, Modifications, next, result>>
  /\ UNCHANGED FM

Call(t) ==
  \/ OpenTransaction(t)
  \/ \E mod \in Menu : Queue(t, mod)
  \/ Commit(t)
  \/ CommitAgain(t)
  \/ Abort(t)
  \/ DestroyTransaction(t)

Step(t) == Execute(t) \/ Finish(t)

Next == \E t \in Transaction : Call(t) \/ Step(t)

Spec == Init /\ [][Next]_vars

-------------------------------------------------------------------------------
(* What holds for every client, however the transactions overlap *)

\* A transaction that can still be committed has executed nothing of its queue, so no
\* commit executes a modification twice, also after one that failed; none runs past its
\* queue; and one that is opened anew finds no queue and no result of an earlier one.
LifeCycleOK ==
  /\ TypeOK
  /\ \A t \in Transaction :
       /\ next[t] \in 1..(Len(Modifications[t]) + 1)
       /\ phase[t] = "open" => next[t] = 1
       /\ phase[t] = "none" => Modifications[t] = << >> /\ result[t] = "none"

RootIsLive(m) == m.root \in m.features \cup {Nil}

\* The features that a modification removes.
Removes(m, mod) ==
  IF mod.op # "RemoveFeature" \/ Resolve(m, mod.ref) = Nil THEN {}
  ELSE IF mod.recursive THEN Subtree(m, Resolve(m, mod.ref))
  ELSE {Resolve(m, mod.ref)}

\* t is about to remove a feature that has the name of the root and waits in a queue.
RemovesNamesake(t) ==
  /\ phase[t] \in Running
  /\ next[t] <= Len(Modifications[t])
  /\ \E f \in Removes(FM, Modifications[t][next[t]]) \ FM.features : NameOf[f] = NameOf[FM.root]

\* The root pointer is null or names a feature of the model, whatever removals and root
\* changes the transactions interleave, with one exception: removeFeature erases by name
\* and resets the pointer by identity, so the removal of a queued feature named like the
\* root frees the root under the pointer.
RootDanglesOnlyByItsNamesake ==
  [][RootIsLive(FM) /\ ~undefined' =>
       RootIsLive(FM') \/ \E t \in Transaction : RemovesNamesake(t)]_vars

\* No two features of the model have one name, although transactions allocate
\* features for the same name independently.
NamesAreUnique == \A f, g \in FM.features : NameOf[f] = NameOf[g] => f = g

\* The model changes only while a commit runs, and once a transaction is
\* committed or aborted neither a second commit nor its destructor executes
\* what is still, or again, in its queue.
OnlyOpenTransactionsWrite ==
  [][/\ FM' # FM => \E t \in Transaction : phase[t] \in Running
     /\ \A t \in Transaction : phase[t] = "closed" => phase'[t] \in {"closed", "none"}]_vars

-------------------------------------------------------------------------------
(* What the documentation and the asserts say, checked for an arbitrary client *)

CommitsOK(t) == phase[t] = "committing" /\ phase'[t] = "closed" /\ result'[t] = "OK"

\* A FeatureModel is a "Tree like representation of features", and transactions preserve
\* its correctness: what a commit reports as Ok is still rooted, its edges name live
\* nodes whose parent they leave, and its constraints point at features of the model.
CommittedModelsAreWellFormed ==
  [][\A t \in Transaction :
       CommitsOK(t) => Rooted(FM') /\ EdgesMatchParents(FM') /\ ConstraintsBound(FM')]_vars

===============================================================================
