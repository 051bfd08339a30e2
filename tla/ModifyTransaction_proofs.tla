------------------------ MODULE ModifyTransaction_proofs ------------------------
(***************************************************************************)
(* What holds of ModifyTransaction for every client and every number of    *)
(* overlapping transactions.                                               *)
(***************************************************************************)
EXTENDS ModifyTransaction, ClientRules_proofs

(* Types *)

\* Features that wait in a queue are nodes, and so is what can be dereferenced.
LEMMA AliveAreNodes == TypeOK => Alive \in SUBSET Node
  BY ModelFields DEF Alive, QueuedFeatures, TypeOK, Live, Node

\* Executing the next call yields a model and a code.
LEMMA ExecuteType ==
  ASSUME TypeOK, NEW t \in Transaction, phase[t] \in Running,
         next[t] <= Len(Modifications[t]),
         \A s \in Transaction : next[s] \in Nat \ {0},
         NEW o \in OutcomesAmong(FM, Modifications[t][next[t]], Alive)
  PROVE  o.model \in Model /\ o.code \in Code
  <1>1. Modifications[t][next[t]] \in Modification
    BY TransactionAssumption DEF TypeOK
  <1> QED
    BY <1>1, AliveAreNodes, OutcomesAmongType DEF TypeOK

\* The index of the next modification starts at one and only grows.
IndexOK == \A t \in Transaction : next[t] # 0

\* Ending a transaction keeps the types.
LEMMA EndType ==
  ASSUME TypeOK, IndexOK, NEW t \in Transaction, NEW code \in Result, End(t, code)
  PROVE  /\ phase' \in [Transaction -> Phase]
         /\ Modifications' \in [Transaction -> Seq(Menu)]
         /\ next' \in [Transaction -> Nat]
         /\ result' \in [Transaction -> Result]
         /\ IndexOK'
  <1>1. CASE phase[t] = "committing"
    <2>1. /\ phase' = [phase EXCEPT ![t] = "closed"] /\ result' = [result EXCEPT ![t] = code]
          /\ Modifications' = Modifications
          /\ \E n \in {next[t], next[t] + 1} : next' = [next EXCEPT ![t] = n]
      BY <1>1 DEF End
    <2>2. \A s \in Transaction : next[s] \in Nat /\ next[s] # 0
      BY DEF TypeOK, IndexOK
    <2> QED
      BY <2>1, <2>2 DEF TypeOK, IndexOK, Phase
  <1>2. CASE phase[t] # "committing"
    <2>1. /\ phase' = [phase EXCEPT ![t] = "none"] /\ result' = [result EXCEPT ![t] = "none"]
          /\ Modifications' = [Modifications EXCEPT ![t] = << >>]
          /\ next' = [next EXCEPT ![t] = 1]
      BY <1>2 DEF End
    <2>2. << >> \in Seq(Menu) /\ "none" \in Phase /\ "none" \in Result
      BY DEF Phase, Result
    <2> QED
      BY <2>1, <2>2 DEF TypeOK, IndexOK
  <1> QED
    BY <1>1, <1>2

\* A step of a commit keeps the types.
LEMMA StepType ==
  ASSUME TypeOK, IndexOK, NEW t \in Transaction, Step(t)
  PROVE  TypeOK' /\ IndexOK'
  <1>1. CASE Execute(t)
    <2>1. PICK o \in OutcomesAmong(FM, Modifications[t][next[t]], Alive) :
             /\ FM' = o.model
             /\ undefined' = (o.code = "UB")
             /\ IF o.code \in {"OK", "UB"}
                THEN /\ next' = [next EXCEPT ![t] = @ + 1]
                     /\ UNCHANGED <<phase, Modifications, result>>
                ELSE End(t, o.code)
      BY <1>1 DEF Execute
    <2>2. o.model \in Model /\ o.code \in Code
      BY <1>1, ExecuteType DEF Execute, TypeOK, IndexOK
    <2>0. undefined' \in BOOLEAN
      BY <2>1
    <2>3. CASE o.code \in {"OK", "UB"}
      <3>1. /\ FM' = o.model /\ next' = [next EXCEPT ![t] = @ + 1]
            /\ phase' = phase /\ Modifications' = Modifications /\ result' = result
        BY <2>1, <2>3
      <3>2. next' \in [Transaction -> Nat] /\ IndexOK'
        BY <3>1 DEF TypeOK, IndexOK
      <3> QED
        BY <2>0, <2>2, <3>1, <3>2 DEF TypeOK
    <2>4. CASE o.code \notin {"OK", "UB"}
      <3>1. o.code \in Result
        BY <2>2, <2>4 DEF Code, Result
      <3> QED
        BY <2>0, <2>1, <2>2, <2>4, <3>1, EndType DEF TypeOK
    <2> QED
      BY <2>3, <2>4
  <1>2. CASE Finish(t)
    <2>1. CASE CheckIsSafe(FM, Alive)
      <3>1. PICK code \in {"OK", "INCONSISTENT"} : End(t, code)
        BY <1>2, <2>1 DEF Finish
      <3>2. code \in Result
        BY DEF Result
      <3> QED
        BY <1>2, <2>1, <3>1, <3>2, EndType DEF Finish, TypeOK
    <2>2. CASE ~CheckIsSafe(FM, Alive)
      BY <1>2, <2>2 DEF Finish, TypeOK, IndexOK
    <2> QED
      BY <2>1, <2>2
  <1> QED
    BY <1>1, <1>2 DEF Step

\* A call of a client keeps the types.
LEMMA CallType ==
  ASSUME TypeOK, IndexOK, NEW t \in Transaction, Call(t)
  PROVE  TypeOK' /\ IndexOK'
  <1>1. CASE OpenTransaction(t)
    BY <1>1 DEF OpenTransaction, TypeOK, IndexOK, Phase
  <1>2. ASSUME NEW mod \in Menu, Queue(t, mod) PROVE TypeOK' /\ IndexOK'
    BY <1>2 DEF Queue, TypeOK, IndexOK
  <1>3. CASE Commit(t)
    BY <1>3 DEF Commit, TypeOK, IndexOK, Phase
  <1>4. CASE CommitAgain(t)
    BY <1>4 DEF CommitAgain, TypeOK, IndexOK, Result
  <1>5. CASE Abort(t)
    BY <1>5 DEF Abort, TypeOK, IndexOK, Phase
  <1>6. CASE DestroyTransaction(t)
    <2>1. << >> \in Seq(Menu) /\ {"none", "destroying"} \subseteq Phase /\ "none" \in Result
      BY DEF Phase, Result
    <2>0. FM' \in Model /\ undefined' \in BOOLEAN
      BY <1>6 DEF DestroyTransaction, TypeOK
    <2>2. CASE phase[t] = "open"
      BY <1>6, <2>0, <2>1, <2>2 DEF DestroyTransaction, TypeOK, IndexOK
    <2>3. CASE phase[t] # "open"
      <3>1. /\ phase' = [phase EXCEPT ![t] = "none"] /\ result' = [result EXCEPT ![t] = "none"]
            /\ Modifications' = [Modifications EXCEPT ![t] = << >>]
            /\ next' = [next EXCEPT ![t] = 1]
        BY <1>6, <2>3 DEF DestroyTransaction
      <3> QED
        BY <2>0, <2>1, <3>1 DEF TypeOK, IndexOK
    <2> QED
      BY <2>2, <2>3
  <1> QED
    BY <1>1, <1>2, <1>3, <1>4, <1>5, <1>6 DEF Call

\* The types hold in the initial states.
LEMMA InitType ==
  ASSUME Init
  PROVE  TypeOK /\ IndexOK
  <1>1. << >> \in Seq(Menu) /\ "none" \in Phase /\ "none" \in Result
    BY DEF Phase, Result
  <1>2. undefined \in BOOLEAN
    BY DEF Init
  <1> QED
    BY <1>1, <1>2, TransactionAssumption DEF Init, TypeOK, IndexOK

\* Every step keeps the types.
LEMMA NextType ==
  ASSUME TypeOK, IndexOK, [Next]_vars
  PROVE  TypeOK' /\ IndexOK'
  <1>1. CASE UNCHANGED vars
    BY <1>1 DEF vars, TypeOK, IndexOK
  <1> QED
    BY <1>1, StepType, CallType DEF Next

\* Queues hold modifications, the model stays a model and results stay in the
\* error type, whatever the clients do.
THEOREM TypeCorrect == Spec => []TypeOK
  <1>1. TypeOK /\ IndexOK /\ [Next]_vars => (TypeOK /\ IndexOK)'
    BY NextType
  <1>2. Init => TypeOK /\ IndexOK
    BY InitType
  <1> QED
    BY <1>1, <1>2, PTL DEF Spec

-------------------------------------------------------------------------------
(* The life cycle *)

\* The life cycle is as promised in the initial states.
LEMMA LifeCycleInitially ==
  ASSUME Init
  PROVE  LifeCycleOK
  <1>1. ASSUME NEW t \in Transaction
        PROVE  /\ Modifications[t] = << >> /\ phase[t] = "none" /\ next[t] = 1
               /\ result[t] = "none"
    BY DEF Init
  <1>2. 1 \in 1..(Len(<< >>) + 1)
    OBVIOUS
  <1> QED
    BY <1>1, <1>2, InitType DEF LifeCycleOK

\* What LifeCycleOK says of one transaction.
LifeCycleOf(t) ==
  /\ next[t] \in 1..(Len(Modifications[t]) + 1)
  /\ phase[t] = "open" => next[t] = 1
  /\ phase[t] = "none" => Modifications[t] = << >> /\ result[t] = "none"

\* A step of a transaction leaves the life cycle of the others alone.
LEMMA OthersKeepLifeCycle ==
  ASSUME TypeOK, TypeOK', LifeCycleOK, NEW t \in Transaction, LifeCycleOf(t)',
         \A s \in Transaction \ {t} :
           /\ phase'[s] = phase[s] /\ Modifications'[s] = Modifications[s]
           /\ next'[s] = next[s] /\ result'[s] = result[s]
  PROVE  LifeCycleOK'
  <1>1. ASSUME NEW s \in Transaction
        PROVE  /\ next'[s] \in 1..(Len(Modifications'[s]) + 1)
               /\ phase'[s] = "open" => next'[s] = 1
               /\ phase'[s] = "none" => Modifications'[s] = << >> /\ result'[s] = "none"
    <2>1. CASE s = t
      BY <2>1 DEF LifeCycleOf
    <2>2. CASE s # t
      BY <2>2 DEF LifeCycleOK
    <2> QED
      BY <2>1, <2>2
  <1> QED
    BY <1>1 DEF LifeCycleOK

\* The end of a commit leaves the index behind what was executed, and a destroyed
\* transaction with nothing.
LEMMA EndKeepsLifeCycle ==
  ASSUME TypeOK, TypeOK', LifeCycleOK, NEW t \in Transaction, NEW code, phase[t] \in Running,
         End(t, code)
  PROVE  LifeCycleOK'
  <1>1. next[t] \in 1..(Len(Modifications[t]) + 1) /\ Len(Modifications[t]) \in Nat
    BY DEF LifeCycleOK, TypeOK
  <1>2. CASE phase[t] = "committing"
    <2>1. /\ phase' = [phase EXCEPT ![t] = "closed"] /\ result' = [result EXCEPT ![t] = code]
          /\ Modifications' = Modifications
          /\ next' = [next EXCEPT ![t] = IF @ > Len(Modifications[t]) THEN @ ELSE @ + 1]
      BY <1>2 DEF End
    <2>2. phase'[t] = "closed" /\ next'[t] \in 1..(Len(Modifications'[t]) + 1)
      BY <1>1, <2>1 DEF TypeOK
    <2>3. LifeCycleOf(t)'
      BY <2>2 DEF LifeCycleOf
    <2> QED
      BY <2>1, <2>3, OthersKeepLifeCycle DEF TypeOK
  <1>3. CASE phase[t] # "committing"
    <2>1. /\ phase' = [phase EXCEPT ![t] = "none"] /\ result' = [result EXCEPT ![t] = "none"]
          /\ Modifications' = [Modifications EXCEPT ![t] = << >>]
          /\ next' = [next EXCEPT ![t] = 1]
      BY <1>3 DEF End
    <2>2. /\ phase'[t] = "none" /\ result'[t] = "none" /\ Modifications'[t] = << >> /\ next'[t] = 1
      BY <2>1 DEF TypeOK
    <2>3. LifeCycleOf(t)'
      BY <2>2 DEF LifeCycleOf
    <2> QED
      BY <2>1, <2>3, OthersKeepLifeCycle DEF TypeOK
  <1> QED
    BY <1>2, <1>3

\* A call of a client keeps the life cycle.
LEMMA CallKeepsLifeCycle ==
  ASSUME TypeOK, TypeOK', LifeCycleOK, NEW t \in Transaction, Call(t)
  PROVE  LifeCycleOK'
  <1>1. LifeCycleOf(t) /\ Len(Modifications[t]) \in Nat
    BY DEF LifeCycleOK, LifeCycleOf, TypeOK
  <1>2. CASE OpenTransaction(t)
    <2>1. LifeCycleOf(t)'
      BY <1>1, <1>2 DEF OpenTransaction, LifeCycleOf, TypeOK
    <2> QED
      BY <1>2, <2>1, OthersKeepLifeCycle DEF OpenTransaction, TypeOK
  <1>3. ASSUME NEW mod \in Menu, Queue(t, mod) PROVE LifeCycleOK'
    <2>1. /\ Modifications' = [Modifications EXCEPT ![t] = Append(@, mod)]
          /\ phase' = phase /\ next' = next /\ result' = result /\ phase[t] \in {"open", "closed"}
      BY <1>3 DEF Queue
    <2>2. Len(Modifications'[t]) = Len(Modifications[t]) + 1
      BY <2>1 DEF TypeOK
    <2>3. LifeCycleOf(t)'
      BY <1>1, <2>1, <2>2 DEF LifeCycleOf
    <2> QED
      BY <2>1, <2>3, OthersKeepLifeCycle DEF TypeOK
  <1>4. CASE Commit(t)
    <2>1. LifeCycleOf(t)'
      BY <1>1, <1>4 DEF Commit, LifeCycleOf, TypeOK
    <2> QED
      BY <1>4, <2>1, OthersKeepLifeCycle DEF Commit, TypeOK
  <1>5. CASE CommitAgain(t)
    <2>1. LifeCycleOf(t)'
      BY <1>1, <1>5 DEF CommitAgain, LifeCycleOf, TypeOK
    <2> QED
      BY <1>5, <2>1, OthersKeepLifeCycle DEF CommitAgain, TypeOK
  <1>6. CASE Abort(t)
    <2>1. LifeCycleOf(t)'
      BY <1>1, <1>6 DEF Abort, LifeCycleOf, TypeOK
    <2> QED
      BY <1>6, <2>1, OthersKeepLifeCycle DEF Abort, TypeOK
  <1>7. CASE DestroyTransaction(t)
    <2>1. CASE phase[t] = "open"
      <3>1. /\ phase' = [phase EXCEPT ![t] = "destroying"]
            /\ Modifications' = Modifications /\ next' = next /\ result' = result
        BY <1>7, <2>1 DEF DestroyTransaction
      <3>2. LifeCycleOf(t)'
        BY <1>1, <3>1 DEF LifeCycleOf, TypeOK
      <3> QED
        BY <3>1, <3>2, OthersKeepLifeCycle DEF TypeOK
    <2>2. CASE phase[t] # "open"
      <3>1. /\ phase' = [phase EXCEPT ![t] = "none"] /\ result' = [result EXCEPT ![t] = "none"]
            /\ Modifications' = [Modifications EXCEPT ![t] = << >>]
            /\ next' = [next EXCEPT ![t] = 1]
        BY <1>7, <2>2 DEF DestroyTransaction
      <3>2. /\ phase'[t] = "none" /\ result'[t] = "none" /\ Modifications'[t] = << >>
            /\ next'[t] = 1
        BY <3>1 DEF TypeOK
      <3>3. LifeCycleOf(t)'
        BY <3>2 DEF LifeCycleOf
      <3> QED
        BY <3>1, <3>3, OthersKeepLifeCycle DEF TypeOK
    <2> QED
      BY <2>1, <2>2
  <1> QED
    BY <1>2, <1>3, <1>4, <1>5, <1>6, <1>7 DEF Call

\* A step of a commit keeps the life cycle.
LEMMA StepKeepsLifeCycle ==
  ASSUME TypeOK, TypeOK', LifeCycleOK, NEW t \in Transaction, Step(t)
  PROVE  LifeCycleOK'
  <1>1. phase[t] \in Running /\ phase[t] \notin {"open", "none"}
    BY DEF Step, Execute, Finish, Running
  <1>2. CASE Execute(t)
    <2>1. \/ \E code : End(t, code)
          \/ /\ next' = [next EXCEPT ![t] = @ + 1]
             /\ phase' = phase /\ Modifications' = Modifications /\ result' = result
      BY <1>2 DEF Execute
    <2>2. CASE \E code : End(t, code)
      BY <1>1, <2>2, EndKeepsLifeCycle
    <2>3. CASE /\ next' = [next EXCEPT ![t] = @ + 1]
               /\ phase' = phase /\ Modifications' = Modifications /\ result' = result
      <3>1. next[t] <= Len(Modifications[t]) /\ next[t] \in 1..(Len(Modifications[t]) + 1)
        BY <1>2 DEF Execute, LifeCycleOK
      <3>2. next'[t] = next[t] + 1 /\ Len(Modifications[t]) \in Nat
        BY <2>3 DEF TypeOK
      <3>3. LifeCycleOf(t)'
        BY <1>1, <2>3, <3>1, <3>2 DEF LifeCycleOf
      <3> QED
        BY <2>3, <3>3, OthersKeepLifeCycle DEF TypeOK
    <2> QED
      BY <2>1, <2>2, <2>3
  <1>3. CASE Finish(t)
    <2>1. \/ \E code : End(t, code)
          \/ phase' = phase /\ Modifications' = Modifications /\ next' = next /\ result' = result
      BY <1>3 DEF Finish
    <2>2. CASE \E code : End(t, code)
      BY <1>1, <2>2, EndKeepsLifeCycle
    <2>3. CASE phase' = phase /\ Modifications' = Modifications /\ next' = next /\ result' = result
      BY <2>3 DEF LifeCycleOK
    <2> QED
      BY <2>1, <2>2, <2>3
  <1> QED
    BY <1>2, <1>3 DEF Step

\* Every step keeps the life cycle.
LEMMA LifeCycleInductive ==
  ASSUME LifeCycleOK, [Next]_vars
  PROVE  LifeCycleOK'
  <1>1. TypeOK /\ IndexOK
    BY DEF LifeCycleOK, IndexOK
  <1>2. TypeOK'
    BY <1>1, NextType
  <1>3. CASE UNCHANGED vars
    BY <1>2, <1>3 DEF vars, LifeCycleOK
  <1> QED
    BY <1>1, <1>2, <1>3, CallKeepsLifeCycle, StepKeepsLifeCycle DEF Next

\* FeatureModelTransaction::commit: a transaction that can still be committed has
\* executed nothing, and one that is opened anew starts with nothing.
THEOREM LifeCycleHolds == Spec => []LifeCycleOK
  BY LifeCycleInitially, LifeCycleInductive, PTL DEF Spec

-------------------------------------------------------------------------------
(* The root pointer and the names *)

NamesDiffer(m) == \A f, g \in m.features : NameOf[f] = NameOf[g] => f = g

\* addFeature refuses a name the model has, and leaves the root.
LEMMA AddFeatureKeepsNames ==
  ASSUME NEW m \in Model, NamesDiffer(m), NEW f \in Feature, NEW parent \in Feature \cup {Nil},
         NEW alive \in SUBSET Node, NEW o \in AddFeature(m, f, parent, alive)
  PROVE  /\ NamesDiffer(o.model)
         /\ RootIsLive(m) => RootIsLive(o.model)
  <1> DEFINE p == IF parent # Nil THEN parent ELSE m.root
  <1>1. CASE o.model = m
    BY <1>1
  <1>2. CASE o.model # m
    <2>1. \A g \in m.features : NameOf[g] # NameOf[f]
      BY <1>2, GetFeatureFinds DEF AddFeature, Fails, Outcome
    <2>2. /\ o.model.features = m.features \cup {f}
          /\ o.model.root = m.root
      <3>1. [m EXCEPT !.features = @ \cup {f}].features = m.features \cup {f}
        BY DEF Model
      <3>2. [m EXCEPT !.features = @ \cup {f}].root = m.root
        BY DEF Model
      <3>3. ASSUME p \in alive
            PROVE  /\ Insert(m, f, p).features = m.features \cup {f}
                   /\ Insert(m, f, p).root = m.root
        <4>1. p \in Node
          BY <3>3
        <4> HIDE DEF p
        <4> QED
          BY <4>1, InsertType
      <3>4. \/ o.model = [m EXCEPT !.features = @ \cup {f}]
            \/ p \in alive /\ o.model = Insert(m, f, p)
        BY <1>2 DEF AddFeature, Fails, Undefined, Succeeds, Outcome
      <3> QED
        BY <3>1, <3>2, <3>3, <3>4
    <2> QED
      BY <2>1, <2>2 DEF RootIsLive, NamesDiffer
  <1> QED
    BY <1>1, <1>2

\* What the removal of a subtree does to the features, the root and the constraints.
LEMMA RemoveSubtreeYields ==
  ASSUME NEW m \in Model, NEW f \in Feature, NEW alive \in SUBSET Node,
         NEW o \in RemoveSubtree(m, f, alive), o.model # m
  PROVE  \E N \in SUBSET Relationship :
           /\ o.model.features = m.features \ (Erased(m, Subtree(m, f)) \cup N)
           /\ o.model.root = IF m.root \in Subtree(m, f) THEN Nil ELSE m.root
           /\ o.model.constraints = m.constraints /\ o.model.bound = m.bound
  <1> DEFINE D == Subtree(m, f)
  <1>1. D \in SUBSET Feature
    BY DEF Subtree
  <1>2. o.model = Pruned(m, D)
    BY DEF RemoveSubtree, Succeeds, Undefined, Outcome
  <1>3. GroupsOf(m, D) \in SUBSET Relationship
    BY DEF GroupsOf
  <1> HIDE DEF D
  <1>4. /\ Pruned(m, D).features = m.features \ (Erased(m, D) \cup GroupsOf(m, D))
        /\ Pruned(m, D).root = IF m.root \in D THEN Nil ELSE m.root
        /\ Pruned(m, D).constraints = m.constraints /\ Pruned(m, D).bound = m.bound
    BY <1>1, PrunedType
  <1> QED
    BY <1>2, <1>3, <1>4 DEF D

\* What the removal of a leaf does to the features, the root and the constraints.
LEMMA RemoveLeafYields ==
  ASSUME NEW m \in Model, NEW f \in Feature, NEW alive \in SUBSET Node,
         NEW o \in RemoveLeaf(m, f, alive), o.model # m, NEW D, D = {f}
  PROVE  \E N \in SUBSET Relationship :
           /\ o.model.features = m.features \ (Erased(m, D) \cup N)
           /\ o.model.root = IF m.root \in D THEN Nil ELSE m.root
           /\ o.model.constraints = m.constraints /\ o.model.bound = m.bound
  <1>1. PICK R \in SUBSET RelationshipChildren(m, f) :
          o \in Undefined(m) \cup Fails(m, "NON_LEAF_NODE")
                 \cup Succeeds(Unlinked(m, f, Erased(m, {f}) \cup R))
    BY DEF RemoveLeaf
  <1>2. o.model = Unlinked(m, f, Erased(m, {f}) \cup R)
    BY <1>1 DEF Succeeds, Fails, Undefined, Outcome
  <1>3. R \in SUBSET Relationship
    BY DEF RelationshipChildren
  <1>4. Erased(m, {f}) \cup R \in SUBSET Node
    BY <1>3, ModelFields DEF Erased, Node
  <1>5. /\ o.model.features = m.features \ (Erased(m, {f}) \cup R)
        /\ o.model.root = IF m.root = f THEN Nil ELSE m.root
        /\ o.model.constraints = m.constraints /\ o.model.bound = m.bound
    <2> DEFINE N == Erased(m, {f}) \cup R
    <2>1. N \in SUBSET Node /\ o.model = Unlinked(m, f, N)
      BY <1>2, <1>4
    <2> HIDE DEF N
    <2>2. /\ Unlinked(m, f, N).features = m.features \ N
          /\ Unlinked(m, f, N).root = IF m.root = f THEN Nil ELSE m.root
          /\ Unlinked(m, f, N).parent = [n \in Node |-> IF n \in N THEN Nil ELSE m.parent[n]]
          /\ Unlinked(m, f, N).constraints = m.constraints
          /\ Unlinked(m, f, N).bound = m.bound
      BY <2>1, UnlinkedType
    <2> QED
      BY <2>1, <2>2 DEF N
  <1>6. /\ o.model.features = m.features \ (Erased(m, D) \cup R)
        /\ o.model.root = IF m.root \in D THEN Nil ELSE m.root
    BY <1>5
  <1> QED
    BY <1>3, <1>5, <1>6

\* removeFeature frees the root under its pointer only as the namesake of a feature
\* that the model does not hold.
LEMMA RemoveFeatureKeepsRoot ==
  ASSUME NEW m \in Model, NamesDiffer(m), NEW mod \in Modification, mod.op = "RemoveFeature",
         NEW alive \in SUBSET Node,
         NEW o \in RemoveFeature(m, mod.ref, mod.recursive, alive)
  PROVE  /\ o.model.features \subseteq m.features
         /\ RootIsLive(m) => \/ RootIsLive(o.model)
                             \/ \E g \in Removes(m, mod) \ m.features : NameOf[g] = NameOf[m.root]
  <1> DEFINE f == Resolve(m, mod.ref)
             D == IF mod.recursive THEN Subtree(m, f) ELSE {f}
  <1>0. mod.ref \in Feature \cup Name /\ mod.recursive \in BOOLEAN
    BY DEF Modification
  <1>1. CASE o.model = m
    BY <1>1
  <1>2. CASE o.model # m
    <2>1. f # Nil /\ f \in alive
      BY <1>2 DEF RemoveFeature, Fails, Undefined, Outcome
    <2>2. f \in Feature
      BY <1>0, <2>1, ModelFields, ResolveType
    <2>3. Removes(m, mod) = D /\ D \in SUBSET Feature
      BY <2>1, <2>2 DEF Removes, Subtree
    <2>4. ASSUME NEW N \in SUBSET Relationship,
                 o.model.features = m.features \ (Erased(m, D) \cup N),
                 o.model.root = IF m.root \in D THEN Nil ELSE m.root
          PROVE  /\ o.model.features \subseteq m.features
                 /\ RootIsLive(m) => \/ RootIsLive(o.model)
                                     \/ \E g \in D \ m.features : NameOf[g] = NameOf[m.root]
      <3> HIDE DEF D
      <3>1. ASSUME RootIsLive(m), ~RootIsLive(o.model)
            PROVE  \E g \in D \ m.features : NameOf[g] = NameOf[m.root]
        <4>1. m.root \in m.features /\ m.root \notin D /\ m.root \in Erased(m, D)
          BY <2>4, <3>1, ModelFields, ConstantsAssumption DEF RootIsLive
        <4>2. PICK g \in D : NameOf[g] = NameOf[m.root]
          BY <4>1 DEF Erased
        <4> QED
          BY <4>1, <4>2 DEF NamesDiffer
      <3> QED
        BY <2>4, <3>1
    <2>5. \E N \in SUBSET Relationship :
            /\ o.model.features = m.features \ (Erased(m, D) \cup N)
            /\ o.model.root = IF m.root \in D THEN Nil ELSE m.root
      <3>1. CASE mod.recursive
        <4>1. o \in RemoveSubtree(m, f, alive)
          BY <2>1, <3>1 DEF RemoveFeature
        <4>2. D = Subtree(m, f)
          BY <3>1
        <4> HIDE DEF f, D
        <4> QED
          BY <1>2, <2>2, <4>1, <4>2, RemoveSubtreeYields
      <3>2. CASE ~mod.recursive
        <4>1. o \in RemoveLeaf(m, f, alive)
          BY <2>1, <3>2 DEF RemoveFeature
        <4>2. D = {f}
          BY <3>2
        <4> HIDE DEF f, D
        <4> QED
          BY <1>2, <2>2, <4>1, <4>2, RemoveLeafYields
      <3> QED
        BY <3>1, <3>2
    <2> QED
      BY <2>3, <2>4, <2>5
  <1> QED
    BY <1>1, <1>2

\* setRoot refuses a name that another feature has.
LEMMA SetRootKeepsNames ==
  ASSUME NEW m \in Model, NamesDiffer(m), NEW f \in RootFeature, NEW alive \in SUBSET Node,
         NEW o \in SetRoot(m, f, alive)
  PROVE  /\ NamesDiffer(o.model)
         /\ RootIsLive(m) => RootIsLive(o.model)
  <1>0. f \in Feature
    BY ConstantsAssumption
  <1>1. CASE o.model = m
    BY <1>1
  <1>2. CASE o.model # m
    <2>1. \A g \in m.features : NameOf[g] # NameOf[f]
      BY <1>2, GetFeatureFinds DEF SetRoot, Fails, Succeeds, Undefined, Outcome
    <2>2. /\ o.model.root = f /\ o.model.features \subseteq m.features \cup {f}
          /\ RootIsLive(m) => f \in o.model.features
      <3>1. CASE m.root = Nil
        <4>1. o.model = [m EXCEPT !.features = @ \cup {f}, !.root = f]
          BY <1>2, <3>1 DEF SetRoot, Fails, Succeeds, Undefined, Outcome
        <4>2. o.model.root = f /\ o.model.features = m.features \cup {f}
          BY <4>1 DEF Model
        <4> QED
          BY <4>2
      <3>2. CASE m.root # Nil
        <4>1. o.model = RootReplaced(m, f)
          BY <1>2, <3>2 DEF SetRoot, Fails, Succeeds, Undefined, Outcome
        <4>2. m.root \in Feature /\ (RootIsLive(m) => m.root # f)
          BY <2>1, <3>2, ModelFields DEF RootIsLive
        <4>3. /\ RootReplaced(m, f).root = f
              /\ RootReplaced(m, f).features = (m.features \cup {f}) \ {m.root}
          BY <1>0, <4>2, RootReplacedType
        <4> QED
          BY <4>1, <4>2, <4>3
      <3> QED
        BY <3>1, <3>2
    <2> QED
      BY <2>1, <2>2 DEF RootIsLive, NamesDiffer
  <1> QED
    BY <1>1, <1>2

\* Every other modification leaves the features and the root alone.
LEMMA OthersKeepFeatures ==
  ASSUME NEW m \in Model, NEW mod \in Modification,
         mod.op \notin {"AddFeature", "RemoveFeature", "SetRoot"},
         NEW alive \in SUBSET Node, NEW o \in OutcomesAmong(m, mod, alive)
  PROVE  o.model.features = m.features /\ o.model.root = m.root
  <1>1. CASE mod.op = "AddRelationship"
    <2>1. mod.relationship \in Relationship
      BY <1>1 DEF Modification
    <2>2. ASSUME NEW p \in alive
          PROVE  /\ Grouped(m, mod.relationship, p).features = m.features
                 /\ Grouped(m, mod.relationship, p).root = m.root
      <3> DEFINE r == mod.relationship
      <3>1. p \in Node /\ r \in Relationship
        BY <2>1, ModelFields DEF Node
      <3> HIDE DEF r
      <3>2. /\ Grouped(m, r, p) \in Model
            /\ Grouped(m, r, p).features = m.features
            /\ Grouped(m, r, p).root = m.root
            /\ Grouped(m, r, p).parent =
                 [n \in Node |-> IF n = r THEN p
                                 ELSE IF n \in FeatureChildren(m, p) THEN r ELSE m.parent[n]]
        BY <3>1, GroupedType
      <3> QED
        BY <3>2 DEF r
    <2> QED
      BY <1>1, <2>2 DEF OutcomesAmong, AddRelationship, Succeeds, Undefined, Outcome
  <1>2. CASE mod.op = "RemoveRelationship"
    <2>1. ASSUME NEW p \in alive, NEW r \in Relationship
          PROVE  /\ Ungrouped(m, p, r).features = m.features
                 /\ Ungrouped(m, p, r).root = m.root
      <3>1. p \in Node /\ m.features \ {r} = m.features
        BY ModelFields, ConstantsAssumption DEF Node
      <3>2. /\ Ungrouped(m, p, r) \in Model
            /\ Ungrouped(m, p, r).features = m.features \ {r}
            /\ Ungrouped(m, p, r).root = m.root
            /\ Ungrouped(m, p, r).parent =
                 [n \in Node |-> IF n = r THEN Nil
                                 ELSE IF n \in FeatureChildren(m, r) THEN p ELSE m.parent[n]]
        BY <3>1, UngroupedType
      <3> QED
        BY <3>1, <3>2
    <2>2. \A p : RelationshipChildren(m, p) \subseteq Relationship
      BY DEF RelationshipChildren
    <2>3. o \in RemoveRelationship(m, mod.ref, alive)
      BY <1>2 DEF OutcomesAmong
    <2> QED
      BY <2>1, <2>2, <2>3 DEF RemoveRelationship, Succeeds, Fails, Undefined, Outcome
  <1>3. CASE mod.op = "AddLocation"
    BY <1>3 DEF OutcomesAmong, AddLocation, Succeeds, Undefined, Outcome, Model
  <1>4. CASE mod.op = "RemoveLocation"
    BY <1>4 DEF OutcomesAmong, RemoveLocation, Succeeds, Undefined, Outcome, Model
  <1>5. CASE mod.op = "AddConstraint"
    <2> DEFINE k == mod.constraint
               found == {f \in m.features : NameOf[f] \in Mentions[k]}
               n2 == [m EXCEPT !.constraints = @ \cup {k}, !.bound = @ \cup ({k} \X found)]
    <2>1. n2.features = m.features /\ n2.root = m.root
      BY DEF Model
    <2>2. o \in Succeeds(n2) \cup Fails(n2, "MISSING_FEATURE")
      BY <1>5 DEF OutcomesAmong, AddConstraint
    <2> HIDE DEF n2
    <2> QED
      BY <2>1, <2>2 DEF Succeeds, Fails, Outcome
  <1>6. CASE mod.op = "SetInfo"
    BY <1>6 DEF OutcomesAmong, SetInfo, Succeeds, Outcome, Model
  <1>7. CASE mod.op = "AddChild"
    <2>1. ASSUME NEW p \in alive, NEW c \in alive
          PROVE  Attached(m, p, c).features = m.features /\ Attached(m, p, c).root = m.root
      <3>1. p \in Node /\ c \in Node
        BY <2>1, ModelFields
      <3>2. Attached(m, p, c).features = m.features
        BY <3>1, AttachedType
      <3>3. Attached(m, p, c).root = m.root
        BY <3>1, AttachedType
      <3> QED
        BY <3>2, <3>3
    <2>2. o \in AddChild(m, mod.parent, mod.child, alive)
      BY <1>7 DEF OutcomesAmong
    <2> QED
      BY <2>1, <2>2 DEF AddChild, Succeeds, Fails, Undefined, Outcome
  <1> QED
    BY <1>1, <1>2, <1>3, <1>4, <1>5, <1>6, <1>7 DEF Modification

\* No call gives a name to two features, or frees the root but as a namesake.
LEMMA OutcomesKeepRootAndNames ==
  ASSUME NEW m \in Model, NamesDiffer(m), NEW mod \in Modification,
         NEW alive \in SUBSET Node, NEW o \in OutcomesAmong(m, mod, alive)
  PROVE  /\ NamesDiffer(o.model)
         /\ RootIsLive(m) => \/ RootIsLive(o.model)
                             \/ \E g \in Removes(m, mod) \ m.features : NameOf[g] = NameOf[m.root]
  <1>1. CASE mod.op = "AddFeature"
    BY <1>1, AddFeatureKeepsNames DEF OutcomesAmong, Modification
  <1>2. CASE mod.op = "RemoveFeature"
    BY <1>2, RemoveFeatureKeepsRoot DEF OutcomesAmong, NamesDiffer
  <1>3. CASE mod.op = "SetRoot"
    BY <1>3, SetRootKeepsNames DEF OutcomesAmong, Modification
  <1>4. CASE mod.op \notin {"AddFeature", "RemoveFeature", "SetRoot"}
    BY <1>4, OthersKeepFeatures DEF RootIsLive, NamesDiffer
  <1> QED
    BY <1>1, <1>2, <1>3, <1>4

\* The inductive invariant: no strengthening but the types is needed, because
\* it holds of every outcome, defined or not.
TypesAndNames == TypeOK /\ IndexOK /\ NamesDiffer(FM)

\* No step disturbs it, and only the removal of a namesake frees the root.
LEMMA TypesAndNamesInductive ==
  ASSUME TypesAndNames, [Next]_vars
  PROVE  /\ TypesAndNames'
         /\ RootIsLive(FM) => RootIsLive(FM') \/ \E t \in Transaction : RemovesNamesake(t)
  <1>1. TypeOK' /\ IndexOK'
    BY NextType DEF TypesAndNames
  <1>2. CASE FM' = FM
    BY <1>1, <1>2 DEF TypesAndNames, RootIsLive, NamesDiffer
  <1>3. ASSUME NEW t \in Transaction, Execute(t)
        PROVE  /\ TypesAndNames'
               /\ RootIsLive(FM) => RootIsLive(FM') \/ RemovesNamesake(t)
    <2> DEFINE mod == Modifications[t][next[t]]
    <2>1. PICK o \in OutcomesAmong(FM, mod, Alive) : FM' = o.model
      BY <1>3 DEF Execute
    <2>2. FM \in Model /\ mod \in Modification /\ Alive \in SUBSET Node
      BY <1>3, AliveAreNodes, TransactionAssumption DEF TypesAndNames, TypeOK, IndexOK, Execute
    <2>3. phase[t] \in Running /\ next[t] <= Len(Modifications[t])
      BY <1>3 DEF Execute
    <2> HIDE DEF mod
    <2>4. /\ NamesDiffer(o.model)
          /\ RootIsLive(FM) => \/ RootIsLive(o.model)
                               \/ \E g \in Removes(FM, mod) \ FM.features :
                                    NameOf[g] = NameOf[FM.root]
      BY <2>2, OutcomesKeepRootAndNames DEF TypesAndNames
    <2> QED
      BY <1>1, <2>1, <2>3, <2>4 DEF TypesAndNames, RemovesNamesake, mod
  <1>4. FM' = FM \/ \E t \in Transaction : Execute(t)
    BY DEF Next, vars, Call, Step, OpenTransaction, Queue, Commit, CommitAgain, Abort,
           DestroyTransaction, Finish
  <1> QED
    BY <1>2, <1>3, <1>4

\* Names differ in the initial states.
LEMMA TypesAndNamesInitially ==
  ASSUME Init
  PROVE  TypesAndNames
  <1>1. FM \in InitialModels /\ WellFormed(FM)
    BY TransactionAssumption DEF Init
  <1> QED
    BY <1>1, InitType DEF TypesAndNames, NamesDiffer, WellFormed, NamesIdentify

\* However clients interleave removals and root changes, the root pointer is null or
\* names a feature of the model, until a feature of the name of the root is removed that
\* waits in a queue.
THEOREM RootDanglesOnlyByItsNamesakeHolds == Spec => RootDanglesOnlyByItsNamesake
  <1>1. TypesAndNames /\ [Next]_vars =>
          [RootIsLive(FM) /\ ~undefined' =>
             RootIsLive(FM') \/ \E t \in Transaction : RemovesNamesake(t)]_vars
    BY TypesAndNamesInductive
  <1>2. TypesAndNames /\ [Next]_vars => TypesAndNames'
    BY TypesAndNamesInductive
  <1>3. Init => TypesAndNames
    BY TypesAndNamesInitially
  <1> QED
    BY <1>1, <1>2, <1>3, PTL DEF Spec, RootDanglesOnlyByItsNamesake

\* However clients interleave insertions and root changes, no two features of
\* the model have one name.
THEOREM NamesAreUniqueHolds == Spec => []NamesAreUnique
  <1>1. TypesAndNames => NamesAreUnique
    BY DEF TypesAndNames, NamesDiffer, NamesAreUnique
  <1>2. TypesAndNames /\ [Next]_vars => TypesAndNames'
    BY TypesAndNamesInductive
  <1>3. Init => TypesAndNames
    BY TypesAndNamesInitially
  <1> QED
    BY <1>1, <1>2, <1>3, PTL DEF Spec

\* FeatureModelTransaction::commit: only a running commit writes to the model,
\* and a transaction that was committed or aborted never runs again.
THEOREM OnlyOpenTransactionsWriteHolds == Spec => OnlyOpenTransactionsWrite
  <1>1. ASSUME TypeOK, [Next]_vars
        PROVE  [/\ FM' # FM => \E t \in Transaction : phase[t] \in Running
                /\ \A t \in Transaction : phase[t] = "closed" => phase'[t] \in {"closed", "none"}]_vars
    <2>1. CASE UNCHANGED vars
      BY <2>1
    <2>2. ASSUME NEW t \in Transaction, Call(t)
          PROVE  /\ FM' = FM
                 /\ \A s \in Transaction : phase[s] = "closed" => phase'[s] \in {"closed", "none"}
      BY <1>1, <2>2
      DEF Call, OpenTransaction, Queue, Commit, CommitAgain, Abort, DestroyTransaction, TypeOK
    <2>3. ASSUME NEW t \in Transaction, Step(t)
          PROVE  /\ phase[t] \in Running
                 /\ \A s \in Transaction : phase[s] = "closed" => phase'[s] \in {"closed", "none"}
      <3>1. phase[t] \in Running /\ phase[t] # "closed"
        BY <2>3 DEF Step, Execute, Finish, Running
      <3>2. phase' = phase \/ \E x \in Phase : phase' = [phase EXCEPT ![t] = x]
        BY <2>3 DEF Step, Execute, Finish, End, Phase
      <3> QED
        BY <1>1, <3>1, <3>2 DEF TypeOK
    <2> QED
      BY <1>1, <2>1, <2>2, <2>3 DEF Next
  <1>2. Init => TypeOK /\ IndexOK
    BY InitType
  <1>3. TypeOK /\ IndexOK /\ [Next]_vars => (TypeOK /\ IndexOK)'
    BY NextType
  <1> QED
    BY <1>1, <1>2, <1>3, PTL DEF Spec, OnlyOpenTransactionsWrite

===============================================================================
