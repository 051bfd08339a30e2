------------------------ MODULE DisciplinedClient_proofs ------------------------
(***************************************************************************)
(* A client that keeps to ClientRules never meets undefined behaviour, and *)
(* its commits do what it foresaw.  It implements FeatureTree: whatever a  *)
(* modification does to edges, parents and groups, seen from the features  *)
(* it is one edit of the tree or none.                                     *)
(***************************************************************************)
EXTENDS DisciplinedClient, ModifyTransaction_proofs, ClientRules_proofs

(* The inductive invariant *)

Active == {"open"} \cup Running

\* The forecast holds well-formed models, and what follows an error repeats it.
ForecastOK ==
  /\ forecast \in Seq([model : Model, code : Code])
  /\ \A i \in 1..Len(forecast) :
       /\ forecast[i].code # "UB"
       /\ WellFormed(forecast[i].model)
       /\ forecast[i].code # "OK" => \A j \in i..Len(forecast) : forecast[j] = forecast[i]

\* The forecast is about the queue of t, and so far it came true.
Foreseen(t) ==
  /\ Len(forecast) = Len(Modifications[t]) + 1
  /\ next[t] \in 1..Len(forecast)
  /\ FM = forecast[next[t]].model
  /\ forecast[next[t]].code = "OK"
  /\ \A i \in 1..Len(Modifications[t]) : forecast[i].code = "OK" =>
       /\ Proper(forecast[i].model, Modifications[t][i])
       /\ forecast[i + 1] \in Outcomes(forecast[i].model, Modifications[t][i])

OneActive == \A t, u \in Transaction : phase[t] \in Active /\ phase[u] \in Active => t = u

NewIsEmpty ==
  \A t \in Transaction : phase[t] = "none" => Modifications[t] = << >> /\ next[t] = 1

ClientInv ==
  /\ TypeOK /\ IndexOK
  /\ ~undefined
  /\ WellFormed(FM)
  /\ ForecastOK
  /\ OneActive
  /\ NewIsEmpty
  /\ \A t \in Transaction : phase[t] \in Active => Foreseen(t)

\* An outcome is a record of a model and a code.
LEMMA OutcomesAreOutcomes ==
  ASSUME NEW m \in Model, NEW mod \in Modification, NEW o \in Outcomes(m, mod)
  PROVE  o \in [model : Model, code : Code]
  <1>1. o.model \in Model /\ o.code \in Code
    BY OutcomesType
  <1>2. o = [model |-> o.model, code |-> o.code]
    <2> USE DEF Outcome, Undefined, Fails, Succeeds
    <2>1. CASE mod.op = "AddFeature"
      BY <2>1 DEF Outcomes, OutcomesAmong, AddFeature
    <2>2. CASE mod.op = "RemoveFeature"
      <3> DEFINE f == Resolve(m, mod.ref)
      <3>1. \/ o \in Undefined(m) \cup Fails(m, "MISSING_FEATURE")
            \/ o \in RemoveSubtree(m, f, Live(m)) \/ o \in RemoveLeaf(m, f, Live(m))
        <4> HIDE DEF Undefined, Fails
        <4> QED
          BY <2>2 DEF Outcomes, OutcomesAmong, RemoveFeature
      <3> HIDE DEF f
      <3>2. CASE o \in RemoveSubtree(m, f, Live(m))
        BY <3>2 DEF RemoveSubtree
      <3>3. CASE o \in RemoveLeaf(m, f, Live(m))
        <4>1. \E N : o \in Undefined(m) \cup Fails(m, "NON_LEAF_NODE")
                            \cup Succeeds(Unlinked(m, f, N))
          <5> HIDE DEF Undefined, Fails, Succeeds
          <5> QED
            BY <3>3 DEF RemoveLeaf
        <4> QED
          BY <4>1
      <3> QED
        BY <3>1, <3>2, <3>3
    <2>3. CASE mod.op = "AddRelationship"
      BY <2>3 DEF Outcomes, OutcomesAmong, AddRelationship
    <2>4. CASE mod.op = "RemoveRelationship"
      BY <2>4 DEF Outcomes, OutcomesAmong, RemoveRelationship
    <2>5. CASE mod.op = "AddLocation"
      BY <2>5 DEF Outcomes, OutcomesAmong, AddLocation
    <2>6. CASE mod.op = "RemoveLocation"
      BY <2>6 DEF Outcomes, OutcomesAmong, RemoveLocation
    <2>7. CASE mod.op = "AddConstraint"
      BY <2>7 DEF Outcomes, OutcomesAmong, AddConstraint
    <2>8. CASE mod.op = "SetInfo"
      BY <2>8 DEF Outcomes, OutcomesAmong, SetInfo
    <2>9. CASE mod.op = "SetRoot"
      BY <2>9 DEF Outcomes, OutcomesAmong, SetRoot
    <2>10. CASE mod.op = "AddChild"
      BY <2>10 DEF Outcomes, OutcomesAmong, AddChild
    <2> QED
      BY <2>1, <2>2, <2>3, <2>4, <2>5, <2>6, <2>7, <2>8, <2>9, <2>10 DEF Modification
  <1> QED
    BY <1>1, <1>2

\* A step of the client is a step of the transactions.
LEMMA ClientNextIsNext ==
  ASSUME [ClientNext]_clientVars
  PROVE  [Next]_vars
  BY DEF ClientNext, clientVars, Next, Call, ClientOpen, ClientQueue, ClientAbort

\* The invariant holds in the initial states.
LEMMA ClientInitially ==
  ASSUME ClientInit
  PROVE  ClientInv
  <1>1. TypeOK /\ IndexOK
    BY InitType DEF ClientInit
  <1>2. ~undefined
    BY DEF ClientInit, Init
  <1>3. WellFormed(FM)
    BY TransactionAssumption DEF ClientInit, Init
  <1>4. ForecastOK
    BY DEF ClientInit, ForecastOK
  <1>5. \A t \in Transaction : phase[t] = "none" /\ Modifications[t] = << >> /\ next[t] = 1
    BY DEF ClientInit, Init
  <1>6. OneActive /\ NewIsEmpty
    BY <1>5 DEF OneActive, NewIsEmpty, Active, Running
  <1>7. \A t \in Transaction : phase[t] \notin Active
    BY <1>5 DEF Active, Running
  <1> QED
    BY <1>1, <1>2, <1>3, <1>4, <1>6, <1>7 DEF ClientInv

-------------------------------------------------------------------------------
(* The calls *)

\* Opening a transaction keeps the invariant.
LEMMA OpenKeepsInv ==
  ASSUME ClientInv, NEW t \in Transaction, ClientOpen(t)
  PROVE  ClientInv'
  <1>0. TypeOK' /\ IndexOK'
    BY CallType DEF ClientInv, ClientOpen, Call
  <1>1. /\ phase' = [phase EXCEPT ![t] = "open"] /\ phase[t] = "none"
        /\ FM' = FM /\ Modifications' = Modifications /\ next' = next
        /\ forecast' = <<Outcome(FM, "OK")>>
        /\ \A u \in Transaction : phase[u] \notin Active
    BY DEF ClientOpen, OpenTransaction, Idle, Active
  <1>2. ~undefined'
    BY DEF ClientInv, ClientOpen, OpenTransaction
  <1>3. /\ Len(forecast') = 1 /\ forecast'[1].model = FM /\ forecast'[1].code = "OK"
        /\ forecast' \in Seq([model : Model, code : Code])
    BY <1>1 DEF Outcome, ClientInv, TypeOK, Code
  <1>4. ForecastOK'
    BY <1>3 DEF ForecastOK, ClientInv
  <1>5. \A u \in Transaction : phase'[u] = IF u = t THEN "open" ELSE phase[u]
    BY <1>1 DEF ClientInv, TypeOK
  <1>6. OneActive'
    BY <1>1, <1>5 DEF OneActive
  <1>7. NewIsEmpty'
    BY <1>1, <1>5 DEF NewIsEmpty, ClientInv
  <1>8. Foreseen(t)'
    <2>1. Modifications[t] = << >> /\ next[t] = 1
      BY <1>1 DEF ClientInv, NewIsEmpty
    <2> QED
      BY <1>1, <1>3, <2>1 DEF Foreseen
  <1>9. \A u \in Transaction : phase'[u] \in Active => u = t
    BY <1>1, <1>5
  <1> QED
    BY <1>0, <1>1, <1>2, <1>4, <1>6, <1>7, <1>8, <1>9 DEF ClientInv

\* The forecast follows a queued call.
LEMMA QueueKeepsInv ==
  ASSUME ClientInv, NEW t \in Transaction, NEW mod \in Menu, ClientQueue(t, mod)
  PROVE  ClientInv'
  <1> DEFINE n == Len(forecast)
             last == forecast[n]
  <1>0. TypeOK' /\ IndexOK'
    BY CallType DEF ClientInv, ClientQueue, Call
  <1>1. /\ phase' = phase /\ phase[t] = "open" /\ FM' = FM /\ next' = next
        /\ Modifications' = [Modifications EXCEPT ![t] = Append(@, mod)]
        /\ Modifications[t] \in Seq(Menu)
    BY DEF ClientQueue, Queue, ClientInv, TypeOK
  <1>2. ~undefined'
    BY DEF ClientInv, ClientQueue, Queue
  <1>3. Foreseen(t) /\ n \in Nat \ {0} /\ n = Len(Modifications[t]) + 1
        /\ forecast \in Seq([model : Model, code : Code])
        /\ last \in [model : Model, code : Code]
    <2>1. Foreseen(t) /\ forecast \in Seq([model : Model, code : Code])
      BY <1>1 DEF ClientInv, Active, ForecastOK
    <2>2. n = Len(Modifications[t]) + 1
      BY <2>1 DEF Foreseen
    <2>3. Len(Modifications[t]) \in Nat
      BY <1>1
    <2> HIDE DEF n
    <2>4. n \in Nat \ {0} /\ n \in 1..Len(forecast)
      BY <2>2, <2>3 DEF n
    <2>5. forecast[n] \in [model : Model, code : Code]
      <3> DEFINE R == [model : Model, code : Code]
      <3>1. forecast \in Seq(R)
        BY <2>1
      <3> HIDE DEF R
      <3>2. forecast[n] \in R
        BY <2>4, <3>1
      <3> QED
        BY <3>2 DEF R
    <2> QED
      BY <2>1, <2>2, <2>4, <2>5
  <1>4. last.code # "UB" /\ WellFormed(last.model) /\ last.model \in Model
    BY <1>3 DEF ClientInv, ForecastOK
  <1>5. PICK o \in [model : Model, code : Code] :
          /\ forecast' = Append(forecast, o)
          /\ o.code # "UB" /\ WellFormed(o.model)
          /\ IF last.code = "OK"
             THEN Proper(last.model, mod) /\ o \in Outcomes(last.model, mod)
             ELSE o = last
    <2>1. CASE last.code = "OK"
      <3>1. Proper(last.model, mod) /\ mod \in Modification
        BY <2>1, TransactionAssumption DEF ClientQueue
      <3>2. PICK o \in Outcomes(last.model, mod) : forecast' = Append(forecast, o)
        BY <2>1 DEF ClientQueue
      <3>3. o.code # "UB" /\ WellFormed(o.model)
        BY <1>4, <3>1, ProperIsHarmless DEF Harmless
      <3>4. o \in [model : Model, code : Code]
        BY <1>4, <3>1, OutcomesAreOutcomes
      <3> QED
        BY <2>1, <3>1, <3>2, <3>3, <3>4
    <2>2. CASE last.code # "OK"
      <3>1. forecast' = Append(forecast, last)
        BY <2>2 DEF ClientQueue
      <3> QED
        BY <1>3, <1>4, <2>2, <3>1
    <2> QED
      BY <2>1, <2>2
  <1>6. /\ Len(forecast') = n + 1 /\ forecast'[n + 1] = o
        /\ \A i \in 1..n : forecast'[i] = forecast[i]
        /\ forecast' \in Seq([model : Model, code : Code])
    BY <1>3, <1>5
  <1>7. ForecastOK'
    <2>1. ASSUME NEW i \in 1..Len(forecast')
          PROVE  /\ forecast'[i].code # "UB" /\ WellFormed(forecast'[i].model)
                 /\ forecast'[i].code # "OK" =>
                      \A j \in i..Len(forecast') : forecast'[j] = forecast'[i]
      <3>1. CASE i = n + 1
        BY <1>3, <1>5, <1>6, <3>1
      <3>2. CASE i \in 1..n
        <4>1. /\ forecast[i].code # "UB" /\ WellFormed(forecast[i].model)
              /\ forecast[i].code # "OK" => \A j \in i..n : forecast[j] = forecast[i]
          BY <3>2 DEF ClientInv, ForecastOK
        <4>2. ASSUME forecast[i].code # "OK", NEW j \in i..(n + 1)
              PROVE  forecast'[j] = forecast[i]
          <5>1. last = forecast[i] /\ o = last
            BY <1>3, <1>5, <3>2, <4>1, <4>2
          <5> QED
            BY <1>3, <1>6, <3>2, <4>1, <4>2, <5>1
        <4> QED
          BY <1>6, <3>2, <4>1, <4>2
      <3> QED
        BY <1>3, <1>6, <3>1, <3>2
    <2> QED
      BY <1>6, <2>1 DEF ForecastOK
  <1>8. /\ Modifications'[t] = Append(Modifications[t], mod)
        /\ \A u \in Transaction \ {t} : Modifications'[u] = Modifications[u]
    BY <1>1 DEF ClientInv, TypeOK
  <1>9. OneActive' /\ NewIsEmpty'
    BY <1>1, <1>8 DEF ClientInv, OneActive, NewIsEmpty
  <1>10. Foreseen(t)'
    <2>1. /\ Len(Modifications'[t]) = n /\ Modifications'[t][n] = mod
          /\ \A i \in 1..(n - 1) : Modifications'[t][i] = Modifications[t][i]
      BY <1>1, <1>3, <1>8
    <2>2. /\ next[t] \in 1..n /\ FM = forecast[next[t]].model /\ forecast[next[t]].code = "OK"
          /\ \A i \in 1..(n - 1) : forecast[i].code = "OK" =>
               /\ Proper(forecast[i].model, Modifications[t][i])
               /\ forecast[i + 1] \in Outcomes(forecast[i].model, Modifications[t][i])
      BY <1>3 DEF Foreseen
    <2>3. ASSUME NEW i \in 1..n, forecast'[i].code = "OK"
          PROVE  /\ Proper(forecast'[i].model, Modifications'[t][i])
                 /\ forecast'[i + 1] \in Outcomes(forecast'[i].model, Modifications'[t][i])
      <3>1. CASE i = n
        BY <1>3, <1>5, <1>6, <2>1, <2>3, <3>1
      <3>2. CASE i \in 1..(n - 1)
        <4>1. i + 1 \in 1..n /\ i \in 1..n
          BY <1>3, <3>2
        <4> QED
          BY <1>6, <2>1, <2>2, <2>3, <3>2, <4>1
      <3> QED
        BY <1>3, <3>1, <3>2
    <2>4. next[t] \in 1..(n + 1) /\ forecast'[next[t]] = forecast[next[t]]
      BY <1>3, <1>6, <2>2
    <2> QED
      BY <1>1, <1>6, <2>1, <2>2, <2>3, <2>4 DEF Foreseen
  <1>11. \A u \in Transaction : phase'[u] \in Active => u = t
    BY <1>1 DEF ClientInv, OneActive, Active
  <1> QED
    BY <1>0, <1>1, <1>2, <1>7, <1>9, <1>10, <1>11 DEF ClientInv

\* A transaction that stops being active, or starts to run, keeps the rest.
LEMMA PhaseKeepsInv ==
  ASSUME ClientInv, TypeOK', IndexOK', FM' = FM, forecast' = forecast \/ forecast' = << >>,
         UNCHANGED <<Modifications, next, undefined>>,
         NEW t \in Transaction, NEW x \in Phase, phase' = [phase EXCEPT ![t] = x],
         x # "none",
         x \in Active => phase[t] \in Active /\ forecast' = forecast,
         forecast' = << >> => phase[t] \in Active
  PROVE  ClientInv'
  <1>1. \A u \in Transaction : phase'[u] = IF u = t THEN x ELSE phase[u]
    BY DEF ClientInv, TypeOK
  <1>2. ~undefined' /\ WellFormed(FM')
    BY DEF ClientInv
  <1>3. ForecastOK'
    <2>1. CASE forecast' = forecast
      BY <2>1 DEF ClientInv, ForecastOK
    <2>2. CASE forecast' = << >>
      BY <2>2 DEF ForecastOK
    <2> QED
      BY <2>1, <2>2
  <1>4. OneActive' /\ NewIsEmpty'
    BY <1>1 DEF ClientInv, OneActive, NewIsEmpty
  <1>5. ASSUME NEW u \in Transaction, phase'[u] \in Active PROVE Foreseen(u)'
    <2>1. phase[u] \in Active /\ Foreseen(u)
      BY <1>1, <1>5 DEF ClientInv
    <2>2. forecast' = forecast
      <3>1. CASE u = t
        BY <1>1, <1>5, <3>1
      <3>2. CASE u # t
        <4>1. phase[t] \notin Active
          BY <2>1, <3>2 DEF ClientInv, OneActive
        <4> QED
          BY <4>1
      <3> QED
        BY <3>1, <3>2
    <2> QED
      BY <2>1, <2>2 DEF Foreseen
  <1> QED
    BY <1>2, <1>3, <1>4, <1>5 DEF ClientInv

\* Beginning to commit keeps the invariant.
LEMMA CommitKeepsInv ==
  ASSUME ClientInv, NEW t \in Transaction, Commit(t), UNCHANGED forecast
  PROVE  ClientInv'
  <1>1. TypeOK' /\ IndexOK'
    BY CallType DEF ClientInv, Call
  <1>2. /\ phase[t] = "open" /\ phase' = [phase EXCEPT ![t] = "committing"]
        /\ UNCHANGED <<FM, Modifications, next, undefined>>
    BY DEF Commit
  <1>3. "committing" \in Phase /\ phase[t] \in Active
    BY <1>2 DEF Phase, Active
  <1> QED
    BY <1>1, <1>2, <1>3, PhaseKeepsInv

\* Aborting drops the calls, and the forecast with them.
LEMMA AbortKeepsInv ==
  ASSUME ClientInv, NEW t \in Transaction, ClientAbort(t)
  PROVE  ClientInv'
  <1>1. TypeOK' /\ IndexOK'
    BY CallType DEF ClientInv, Call, ClientAbort
  <1>2. /\ phase[t] = "open" /\ phase' = [phase EXCEPT ![t] = "closed"]
        /\ forecast' = << >>
        /\ UNCHANGED <<FM, Modifications, next, undefined>>
    BY DEF ClientAbort, Abort
  <1>3. "closed" \in Phase /\ "closed" \notin Active /\ phase[t] \in Active
    BY <1>2 DEF Phase, Active, Running
  <1> QED
    BY <1>1, <1>2, <1>3, PhaseKeepsInv

\* A second commit changes nothing.
LEMMA CommitAgainKeepsInv ==
  ASSUME ClientInv, NEW t \in Transaction, CommitAgain(t), UNCHANGED forecast
  PROVE  ClientInv'
  <1>1. TypeOK' /\ IndexOK'
    BY CallType DEF ClientInv, Call
  <1>2. UNCHANGED <<FM, phase, Modifications, next, undefined, forecast>>
    BY DEF CommitAgain
  <1> QED
    BY <1>1, <1>2 DEF ClientInv, ForecastOK, OneActive, NewIsEmpty, Foreseen

\* A transaction that is gone leaves an empty queue behind.
LEMMA GoneKeepsInv ==
  ASSUME ClientInv, TypeOK', IndexOK', ~undefined', WellFormed(FM'), UNCHANGED forecast,
         NEW t \in Transaction,
         phase' = [phase EXCEPT ![t] = "none"],
         Modifications' = [Modifications EXCEPT ![t] = << >>],
         next' = [next EXCEPT ![t] = 1],
         FM' = FM \/ phase[t] \in Active
  PROVE  ClientInv'
  <1>1. \A u \in Transaction :
          /\ phase'[u] = IF u = t THEN "none" ELSE phase[u]
          /\ Modifications'[u] = IF u = t THEN << >> ELSE Modifications[u]
          /\ next'[u] = IF u = t THEN 1 ELSE next[u]
    BY DEF ClientInv, TypeOK
  <1>2. ForecastOK'
    BY DEF ClientInv, ForecastOK
  <1>3. "none" \notin Active
    BY DEF Active, Running
  <1>4. OneActive' /\ NewIsEmpty'
    BY <1>1, <1>3 DEF ClientInv, OneActive, NewIsEmpty
  <1>5. ASSUME NEW u \in Transaction, phase'[u] \in Active PROVE Foreseen(u)'
    <2>1. u # t /\ phase[u] \in Active /\ Foreseen(u)
      BY <1>1, <1>3, <1>5 DEF ClientInv
    <2>2. FM' = FM
      BY <2>1 DEF ClientInv, OneActive
    <2> QED
      BY <1>1, <2>1, <2>2 DEF Foreseen
  <1> QED
    BY <1>2, <1>4, <1>5 DEF ClientInv

\* Destroying a transaction ends it.
LEMMA DestroyKeepsInv ==
  ASSUME ClientInv, NEW t \in Transaction, DestroyTransaction(t), UNCHANGED forecast
  PROVE  ClientInv'
  <1>1. TypeOK' /\ IndexOK'
    BY CallType DEF ClientInv, Call
  <1>2. UNCHANGED <<FM, undefined>>
    BY DEF DestroyTransaction
  <1>3. CASE phase[t] = "open"
    <2>1. /\ phase' = [phase EXCEPT ![t] = "destroying"]
          /\ UNCHANGED <<FM, Modifications, next, undefined>>
      BY <1>2, <1>3 DEF DestroyTransaction
    <2>2. "destroying" \in Phase /\ phase[t] \in Active
      BY <1>3 DEF Phase, Active
    <2> QED
      BY <1>1, <2>1, <2>2, PhaseKeepsInv
  <1>4. CASE phase[t] # "open"
    <2>1. /\ phase' = [phase EXCEPT ![t] = "none"]
          /\ Modifications' = [Modifications EXCEPT ![t] = << >>]
          /\ next' = [next EXCEPT ![t] = 1]
      BY <1>4 DEF DestroyTransaction
    <2>2. ~undefined' /\ WellFormed(FM')
      BY <1>2 DEF ClientInv
    <2> QED
      BY <1>1, <1>2, <2>1, <2>2, GoneKeepsInv
  <1> QED
    BY <1>3, <1>4

-------------------------------------------------------------------------------
(* The steps of a commit *)

\* What waits in the queue makes no difference to what the rules allow.
LEMMA OutcomesAmongTheQueued ==
  ASSUME TypeOK, WellFormed(FM), NEW mod \in Modification, Proper(FM, mod)
  PROVE  OutcomesAmong(FM, mod, Alive) = Outcomes(FM, mod)
  <1>1. FM \in Model /\ EdgesMatchParents(FM) /\ FM.root \in FM.features \cup {Nil}
    BY DEF TypeOK, WellFormed, Rooted
  <1>2. PointsTo(mod) \subseteq Live(FM)
    BY <1>1, ProperPointsToLive
  <1>3. Alive \in SUBSET Node /\ Live(FM) \subseteq Alive
    BY AliveAreNodes DEF Alive
  <1> QED
    BY <1>1, <1>2, <1>3, QueuedFeaturesDoNotMatter

\* What a step of a commit meets is what was foreseen.
LEMMA ExecuteIsForeseen ==
  ASSUME ClientInv, NEW t \in Transaction, phase[t] \in Running,
         next[t] <= Len(Modifications[t]),
         NEW o \in OutcomesAmong(FM, Modifications[t][next[t]], Alive)
  PROVE  /\ next[t] + 1 \in 1..Len(forecast)
         /\ o = forecast[next[t] + 1]
         /\ o.code # "UB" /\ WellFormed(o.model)
         /\ Modifications[t][next[t]] \in Modification
         /\ Proper(FM, Modifications[t][next[t]])
         /\ o \in Outcomes(FM, Modifications[t][next[t]])
  <1> DEFINE i == next[t]
             mod == Modifications[t][i]
  <1>1. /\ Foreseen(t) /\ i \in Nat /\ i # 0 /\ Modifications[t] \in Seq(Menu) /\ FM \in Model
    BY DEF ClientInv, Active, TypeOK, IndexOK
  <1>2. i \in 1..Len(Modifications[t]) /\ mod \in Modification
    BY <1>1, TransactionAssumption
  <1>3. /\ Proper(FM, mod) /\ forecast[i + 1] \in Outcomes(FM, mod)
        /\ Len(forecast) = Len(Modifications[t]) + 1
    BY <1>1, <1>2 DEF Foreseen
  <1>4. Harmless(Outcomes(FM, mod))
    BY <1>1, <1>2, <1>3, ProperIsHarmless DEF ClientInv
  <1>5. o \in Outcomes(FM, mod)
    BY <1>1, <1>2, <1>3, OutcomesAmongTheQueued DEF ClientInv
  <1>6. o = forecast[i + 1] /\ o.code # "UB" /\ WellFormed(o.model)
    BY <1>3, <1>4, <1>5 DEF Harmless
  <1>7. i + 1 \in 1..Len(forecast)
    BY <1>1, <1>2, <1>3
  <1> QED
    BY <1>2, <1>3, <1>5, <1>6, <1>7

\* When a commit ends, the transaction is closed or gone.
LEMMA EndKeepsInv ==
  ASSUME ClientInv, TypeOK', IndexOK', ~undefined', WellFormed(FM'), UNCHANGED forecast,
         NEW t \in Transaction, phase[t] \in Running, NEW code, End(t, code)
  PROVE  ClientInv'
  <1>0. phase[t] \in Active
    BY DEF Active
  <1>1. CASE phase[t] = "committing"
    <2>1. /\ phase' = [phase EXCEPT ![t] = "closed"] /\ Modifications' = Modifications
          /\ next' = [next EXCEPT ![t] = IF @ > Len(Modifications[t]) THEN @ ELSE @ + 1]
      BY <1>1 DEF End
    <2>2. \A u \in Transaction : /\ phase'[u] = IF u = t THEN "closed" ELSE phase[u]
                                 /\ u # t => next'[u] = next[u]
      BY <2>1 DEF ClientInv, TypeOK
    <2>3. "closed" \notin Active
      BY DEF Active, Running
    <2>4. ForecastOK'
      BY DEF ClientInv, ForecastOK
    <2>5. OneActive' /\ NewIsEmpty'
      BY <2>1, <2>2, <2>3 DEF ClientInv, OneActive, NewIsEmpty
    <2>6. \A u \in Transaction : phase'[u] \notin Active
      BY <1>0, <2>2, <2>3 DEF ClientInv, OneActive
    <2> QED
      BY <2>4, <2>5, <2>6 DEF ClientInv
  <1>2. CASE phase[t] # "committing"
    <2>1. /\ phase' = [phase EXCEPT ![t] = "none"]
          /\ Modifications' = [Modifications EXCEPT ![t] = << >>]
          /\ next' = [next EXCEPT ![t] = 1]
      BY <1>2 DEF End
    <2> QED
      BY <1>0, <2>1, GoneKeepsInv
  <1> QED
    BY <1>1, <1>2

\* Executing the next call does what was forecast.
LEMMA ExecuteKeepsInv ==
  ASSUME ClientInv, NEW t \in Transaction, Execute(t), UNCHANGED forecast
  PROVE  ClientInv'
  <1>0. TypeOK' /\ IndexOK'
    BY StepType DEF ClientInv, Step
  <1>1. phase[t] \in Running /\ next[t] <= Len(Modifications[t])
    BY DEF Execute
  <1>2. PICK o \in OutcomesAmong(FM, Modifications[t][next[t]], Alive) :
           /\ FM' = o.model
           /\ undefined' = (o.code = "UB")
           /\ IF o.code \in {"OK", "UB"}
              THEN /\ next' = [next EXCEPT ![t] = @ + 1]
                   /\ UNCHANGED <<phase, Modifications, result>>
              ELSE End(t, o.code)
    BY DEF Execute
  <1>3. /\ next[t] + 1 \in 1..Len(forecast) /\ o = forecast[next[t] + 1]
        /\ o.code # "UB" /\ WellFormed(o.model)
    BY <1>1, <1>2, ExecuteIsForeseen
  <1>4. ~undefined' /\ WellFormed(FM')
    BY <1>2, <1>3
  <1>5. CASE o.code # "OK"
    <2>1. End(t, o.code)
      BY <1>2, <1>3, <1>5
    <2> QED
      BY <1>0, <1>1, <1>4, <2>1, EndKeepsInv
  <1>6. CASE o.code = "OK"
    <2>1. /\ next' = [next EXCEPT ![t] = @ + 1] /\ FM' = forecast[next[t] + 1].model
          /\ phase' = phase /\ Modifications' = Modifications
      BY <1>2, <1>3, <1>6
    <2>2. \A u \in Transaction : next'[u] = IF u = t THEN next[t] + 1 ELSE next[u]
      BY <2>1 DEF ClientInv, TypeOK
    <2>3. ForecastOK'
      BY DEF ClientInv, ForecastOK
    <2>4. phase[t] # "none" /\ phase[t] \in Active
      BY <1>1 DEF Running, Active
    <2>5. OneActive' /\ NewIsEmpty'
      BY <2>1, <2>2, <2>4 DEF ClientInv, OneActive, NewIsEmpty
    <2>6. Foreseen(t)'
      <3>1. Foreseen(t)
        BY <2>4 DEF ClientInv
      <3>2. forecast[next[t] + 1].code = "OK" /\ next'[t] = next[t] + 1
        BY <1>3, <1>6, <2>2
      <3> QED
        BY <1>3, <2>1, <3>1, <3>2 DEF Foreseen
    <2>7. \A u \in Transaction : phase'[u] \in Active => u = t
      BY <2>1, <2>4 DEF ClientInv, OneActive
    <2> QED
      BY <1>0, <1>4, <2>3, <2>5, <2>6, <2>7 DEF ClientInv
  <1> QED
    BY <1>5, <1>6

\* The consistency check passes.
LEMMA FinishIsValid ==
  ASSUME ClientInv, NEW t \in Transaction, Finish(t)
  PROVE  End(t, "OK") /\ UNCHANGED <<FM, undefined>>
  <1>1. IsFeatureModelValid(FM) /\ CheckIsSafe(FM, Live(FM))
    BY WellFormedIsValid DEF ClientInv, TypeOK
  <1>2. FM \in Model /\ Alive \in SUBSET Node /\ Live(FM) \subseteq Alive
    BY AliveAreNodes DEF ClientInv, TypeOK, Alive
  <1>3. CheckIsSafe(FM, Alive)
    BY <1>1, <1>2, CheckIsSafeAmong
  <1> QED
    BY <1>1, <1>3 DEF Finish

\* A commit that is over leaves the model that was forecast.
LEMMA FinishKeepsInv ==
  ASSUME ClientInv, NEW t \in Transaction, Finish(t), UNCHANGED forecast
  PROVE  ClientInv'
  <1>1. TypeOK' /\ IndexOK'
    BY StepType DEF ClientInv, Step
  <1>2. End(t, "OK") /\ UNCHANGED <<FM, undefined>>
    BY FinishIsValid
  <1>3. phase[t] \in Running
    BY DEF Finish
  <1>4. ~undefined' /\ WellFormed(FM')
    BY <1>2 DEF ClientInv
  <1> QED
    BY <1>1, <1>2, <1>3, <1>4, EndKeepsInv

\* Every step keeps the invariant.
LEMMA ClientInductive ==
  ASSUME ClientInv, [ClientNext]_clientVars
  PROVE  ClientInv'
  <1>1. CASE UNCHANGED clientVars
    BY <1>1 DEF clientVars, vars, ClientInv, TypeOK, IndexOK, ForecastOK, OneActive,
                NewIsEmpty, Foreseen
  <1>2. ASSUME NEW t \in Transaction, ClientOpen(t) PROVE ClientInv'
    BY <1>2, OpenKeepsInv
  <1>3. ASSUME NEW t \in Transaction, NEW mod \in Menu, ClientQueue(t, mod) PROVE ClientInv'
    BY <1>3, QueueKeepsInv
  <1>4. ASSUME NEW t \in Transaction, ClientAbort(t) PROVE ClientInv'
    BY <1>4, AbortKeepsInv
  <1>5. ASSUME NEW t \in Transaction, Commit(t), UNCHANGED forecast PROVE ClientInv'
    BY <1>5, CommitKeepsInv
  <1>6. ASSUME NEW t \in Transaction, CommitAgain(t), UNCHANGED forecast PROVE ClientInv'
    BY <1>6, CommitAgainKeepsInv
  <1>7. ASSUME NEW t \in Transaction, DestroyTransaction(t), UNCHANGED forecast PROVE ClientInv'
    BY <1>7, DestroyKeepsInv
  <1>8. ASSUME NEW t \in Transaction, Step(t), UNCHANGED forecast PROVE ClientInv'
    BY <1>8, ExecuteKeepsInv, FinishKeepsInv DEF Step
  <1> QED
    BY <1>1, <1>2, <1>3, <1>4, <1>5, <1>6, <1>7, <1>8 DEF ClientNext

-------------------------------------------------------------------------------
(* What follows *)

\* The invariant holds in every state.
LEMMA ClientInvariant == ClientSpec => []ClientInv
  <1>1. ClientInit => ClientInv
    BY ClientInitially
  <1>2. ClientInv /\ [ClientNext]_clientVars => ClientInv'
    BY ClientInductive
  <1> QED
    BY <1>1, <1>2, PTL DEF ClientSpec

\* FeatureModelModification::exec: within the rules no modification reads a
\* null or freed pointer and no walk goes in circles.
THEOREM NoUndefinedBehaviourHolds == ClientSpec => []NoUndefinedBehaviour
  <1>1. ClientInv => NoUndefinedBehaviour
    BY DEF ClientInv, NoUndefinedBehaviour
  <1> QED
    BY <1>1, ClientInvariant, PTL

\* FeatureTreeNode::setParent, addEdge, removeEdge: every modification updates
\* both ends of an edge.
THEOREM EdgesAlwaysMatchParentsHolds == ClientSpec => []EdgesAlwaysMatchParents
  <1>1. ClientInv => EdgesAlwaysMatchParents
    BY DEF ClientInv, WellFormed, EdgesAlwaysMatchParents
  <1> QED
    BY <1>1, ClientInvariant, PTL

\* No modification cuts a node off the root or closes a cycle.
THEOREM AlwaysRootedHolds == ClientSpec => []AlwaysRooted
  <1>1. ClientInv => AlwaysRooted
    BY DEF ClientInv, WellFormed, AlwaysRooted
  <1> QED
    BY <1>1, ClientInvariant, PTL

\* Groups stay below features, one each.
THEOREM GroupsAlwaysWellPlacedHolds == ClientSpec => []GroupsAlwaysWellPlaced
  <1>1. ClientInv => GroupsAlwaysWellPlaced
    BY DEF ClientInv, WellFormed, GroupsAlwaysWellPlaced
  <1> QED
    BY <1>1, ClientInvariant, PTL

\* FeatureModel::getFeature and getRoot stay unambiguous.
THEOREM NamesAlwaysIdentifyHolds == ClientSpec => []NamesAlwaysIdentify
  <1>1. ClientInv => NamesAlwaysIdentify
    BY DEF ClientInv, WellFormed, NamesAlwaysIdentify
  <1> QED
    BY <1>1, ClientInvariant, PTL

\* Only addConstraint touches the constraints and what they are bound to.
LEMMA OthersKeepConstraints ==
  ASSUME NEW m \in Model, NEW mod \in Modification, mod.op # "AddConstraint",
         NEW o \in Outcomes(m, mod)
  PROVE  o.model.constraints = m.constraints /\ o.model.bound = m.bound
  <1> DEFINE Kept(n) == n.constraints = m.constraints /\ n.bound = m.bound
  <1> USE DEF Outcomes, OutcomesAmong, Succeeds, Fails, Undefined, Outcome
  <1>0. Live(m) \in SUBSET Node
    BY ModelFields
  <1>1. CASE mod.op = "AddFeature"
    <2>1. ASSUME NEW p \in Live(m), NEW f \in Feature PROVE Kept(Insert(m, f, p))
      BY <1>0, InsertType
    <2>2. ASSUME NEW f PROVE Kept([m EXCEPT !.features = @ \cup {f}])
      BY DEF Model
    <2> HIDE DEF Kept
    <2>3. Kept(o.model) \/ o.model = m
      BY <1>1, <2>1, <2>2 DEF AddFeature, Modification
    <2> QED
      BY <2>3 DEF Kept
  <1>2. CASE mod.op = "RemoveFeature"
    <2> DEFINE f == Resolve(m, mod.ref)
    <2>1. CASE o.model = m
      BY <2>1
    <2>2. CASE o.model # m
      <3>0. o \in RemoveFeature(m, mod.ref, mod.recursive, Live(m))
        BY <1>2
      <3>9. f # Nil
        BY <2>2, <3>0 DEF RemoveFeature
      <3>1. f \in Feature
        BY <1>2, <3>9, ModelFields, ResolveType DEF Modification
      <3>2. o \in RemoveSubtree(m, f, Live(m)) \cup RemoveLeaf(m, f, Live(m))
        BY <2>2, <3>0 DEF RemoveFeature
      <3> HIDE DEF f
      <3>3. CASE o \in RemoveSubtree(m, f, Live(m))
        <4> HIDE DEF Outcomes, OutcomesAmong, Succeeds, Fails, Undefined, Outcome
        <4> QED
          BY <1>0, <2>2, <3>1, <3>3, RemoveSubtreeYields
      <3>4. CASE o \in RemoveLeaf(m, f, Live(m))
        <4> HIDE DEF Outcomes, OutcomesAmong, Succeeds, Fails, Undefined, Outcome
        <4>1. PICK D : D = {f}
          OBVIOUS
        <4> QED
          BY <1>0, <2>2, <3>1, <3>4, <4>1, RemoveLeafYields
      <3> QED
        BY <3>2, <3>3, <3>4
    <2> QED
      BY <2>1, <2>2
  <1>3. CASE mod.op = "AddRelationship"
    <2>1. ASSUME NEW p \in Live(m), NEW r \in Relationship PROVE Kept(Grouped(m, r, p))
      BY <1>0, GroupedType
    <2> HIDE DEF Kept
    <2>2. Kept(o.model) \/ o.model = m
      BY <1>3, <2>1 DEF AddRelationship, Modification
    <2> QED
      BY <2>2 DEF Kept
  <1>4. CASE mod.op = "RemoveRelationship"
    <2>1. ASSUME NEW p \in Live(m), NEW r \in Relationship PROVE Kept(Ungrouped(m, p, r))
      <3>1. p \in Node
        BY <1>0
      <3> QED
        <4>1. /\ Kept(Ungrouped(m, p, r))
              /\ Ungrouped(m, p, r).parent =
                   [n \in Node |-> IF n = r THEN Nil
                                   ELSE IF n \in FeatureChildren(m, r) THEN p ELSE m.parent[n]]
          <5> HIDE DEF Outcomes, OutcomesAmong, Succeeds, Fails, Undefined, Outcome
          <5> QED
            BY <3>1, UngroupedType
        <4> QED
          BY <4>1
    <2>2. RelationshipChildren(m, Resolve(m, mod.ref)) \subseteq Relationship
      BY DEF RelationshipChildren
    <2> HIDE DEF Kept
    <2>3. o \in RemoveRelationship(m, mod.ref, Live(m))
      BY <1>4
    <2>4. Kept(o.model) \/ o.model = m
      BY <2>1, <2>2, <2>3 DEF RemoveRelationship
    <2> QED
      BY <2>4 DEF Kept
  <1>5. CASE mod.op = "AddLocation"
    BY <1>5 DEF AddLocation, Model
  <1>6. CASE mod.op = "RemoveLocation"
    BY <1>6 DEF RemoveLocation, Model
  <1>7. CASE mod.op = "SetInfo"
    BY <1>7 DEF SetInfo, Model
  <1>8. CASE mod.op = "SetRoot"
    <2>1. ASSUME NEW f PROVE Kept([m EXCEPT !.features = @ \cup {f}, !.root = f])
      BY DEF Model
    <2>2. ASSUME NEW f \in Feature, m.root \in Feature PROVE Kept(RootReplaced(m, f))
      BY <2>2, RootReplacedType
    <2>3. mod.feature \in Feature /\ m.root \in Feature \cup {Nil}
      BY <1>8, ModelFields, ConstantsAssumption DEF Modification
    <2> HIDE DEF Kept
    <2>4. Kept(o.model) \/ o.model = m
      <3>1. o \in SetRoot(m, mod.feature, Live(m))
        BY <1>8
      <3>2. m.root # Nil => Kept(RootReplaced(m, mod.feature))
        BY <2>2, <2>3
      <3>4. \/ o \in Undefined(m) \cup Succeeds(m) \cup Fails(m, "ALREADY_PRESENT")
            \/ o \in Succeeds([m EXCEPT !.features = @ \cup {mod.feature}, !.root = mod.feature])
            \/ m.root # Nil /\ o \in Succeeds(RootReplaced(m, mod.feature))
        <4> HIDE DEF Outcomes, OutcomesAmong, Undefined, Succeeds, Fails
        <4>1. o \in SetRoot(m, mod.feature, Live(m))
          BY <3>1
        <4> QED
          BY <4>1 DEF SetRoot
      <3> DEFINE first == [m EXCEPT !.features = @ \cup {mod.feature}, !.root = mod.feature]
      <3>5. Kept(first)
        BY <2>1
      <3>6. o.model \in {m, first} \/ (m.root # Nil /\ o.model = RootReplaced(m, mod.feature))
        <4> HIDE DEF first, Outcomes, OutcomesAmong
        <4> QED
          BY <3>4 DEF first
      <3> HIDE DEF Kept, first, Outcomes, OutcomesAmong
      <3> QED
        BY <3>2, <3>5, <3>6
    <2> QED
      BY <2>4 DEF Kept
  <1>9. CASE mod.op = "AddChild"
    <2>1. ASSUME NEW p \in Live(m), NEW c \in Live(m) PROVE Kept(Attached(m, p, c))
      BY <1>0, AttachedType
    <2> HIDE DEF Kept
    <2>2. Kept(o.model) \/ o.model = m
      BY <1>9, <2>1 DEF AddChild
    <2> QED
      BY <2>2 DEF Kept
  <1> QED
    BY <1>1, <1>2, <1>3, <1>4, <1>5, <1>6, <1>7, <1>8, <1>9 DEF Modification

\* addConstraint binds a constraint to all that it mentions, or fails.
LEMMA AddConstraintBindsAll ==
  ASSUME NEW m \in Model, NEW k \in Constraint, NEW o \in AddConstraint(m, k)
  PROVE  /\ o.model.constraints = m.constraints \cup {k} /\ m.bound \subseteq o.model.bound
         /\ BoundToAll(o.model, k) \/ o.code = "MISSING_FEATURE"
  <1> DEFINE found == {f \in m.features : NameOf[f] \in Mentions[k]}
             n == [m EXCEPT !.constraints = @ \cup {k}, !.bound = @ \cup ({k} \X found)]
  <1>1. /\ n.features = m.features /\ n.constraints = m.constraints \cup {k}
        /\ n.bound = m.bound \cup ({k} \X found)
    BY DEF Model
  <1>2. o \in (IF \A x \in Mentions[k] : GetFeature(m, x) # Nil
               THEN Succeeds(n) ELSE Fails(n, "MISSING_FEATURE"))
    BY DEF AddConstraint
  <1>3. o.model = n /\ (o.code # "MISSING_FEATURE" => \A x \in Mentions[k] : GetFeature(m, x) # Nil)
    BY <1>2 DEF Succeeds, Fails, Outcome
  <1> HIDE DEF n
  <1>4. ASSUME \A x \in Mentions[k] : GetFeature(m, x) # Nil
        PROVE  BoundToAll(n, k)
    <2>1. SUFFICES ASSUME NEW x \in Mentions[k]
                   PROVE  \E f \in n.features : NameOf[f] = x /\ <<k, f>> \in n.bound
      BY DEF BoundToAll
    <2>2. GetFeature(m, x) \in m.features /\ NameOf[GetFeature(m, x)] = x
      BY <1>4, GetFeatureFinds
    <2> QED
      BY <1>1, <2>2
  <1> QED
    BY <1>1, <1>3, <1>4

\* FeatureModelTransaction::addConstraint: a constraint is bound to live features, to
\* all it mentions from the step on that adds it, unless the commit fails there.
THEOREM ConstraintsStayBoundHolds == ClientSpec => ConstraintsStayBound
  <1> DEFINE Kept ==
        /\ ConstraintsBound(FM')
        /\ \A c \in FM'.constraints :
             \/ BoundToAll(FM', c)
             \/ c \in FM.constraints /\ ~BoundToAll(FM, c)
             \/ \E t \in Transaction : StopsAtConstraint(t, c)
  <1>1. ASSUME ClientInv, ClientInv', FM' = FM
        PROVE  Kept
    BY <1>1 DEF ClientInv, WellFormed
  <1>2. ASSUME ClientInv, ClientInv', NEW t \in Transaction, Execute(t)
        PROVE  Kept
    <2> DEFINE mod == Modifications[t][next[t]]
    <2>1. PICK o \in OutcomesAmong(FM, mod, Alive) :
             /\ FM' = o.model
             /\ IF o.code \in {"OK", "UB"} THEN TRUE ELSE End(t, o.code)
      BY <1>2 DEF Execute
    <2>2. /\ phase[t] \in Running /\ next[t] <= Len(Modifications[t])
          /\ o \in Outcomes(FM, mod) /\ mod \in Modification
      BY <1>2, <2>1, ExecuteIsForeseen DEF Execute
    <2>3. ConstraintsBound(FM') /\ FM \in Model
      BY <1>2 DEF ClientInv, WellFormed, TypeOK
    <2>4. ASSUME NEW c, FM.bound \subseteq FM'.bound, BoundToAll(FM, c)
          PROVE  BoundToAll(FM', c)
      BY <2>3, <2>4 DEF BoundToAll, ConstraintsBound
    <2>5. CASE mod.op # "AddConstraint"
      <3>1. FM'.constraints = FM.constraints /\ FM'.bound = FM.bound
        BY <2>1, <2>2, <2>3, <2>5, OthersKeepConstraints
      <3> QED
        BY <2>3, <2>4, <3>1
    <2>6. CASE mod.op = "AddConstraint"
      <3> DEFINE k == mod.constraint
      <3>1. k \in Constraint /\ mod = [op |-> "AddConstraint", constraint |-> k]
        BY <2>2, <2>6 DEF Modification
      <3>2. o \in AddConstraint(FM, k)
        BY <2>2, <2>6 DEF Outcomes, OutcomesAmong
      <3> HIDE DEF mod, k
      <3>3. /\ FM'.constraints = FM.constraints \cup {k} /\ FM.bound \subseteq FM'.bound
            /\ BoundToAll(FM', k) \/ o.code = "MISSING_FEATURE"
        BY <2>1, <2>3, <3>1, <3>2, AddConstraintBindsAll
      <3>4. ASSUME o.code = "MISSING_FEATURE"
            PROVE  StopsAtConstraint(t, k)
        <4>1. End(t, o.code)
          BY <2>1, <3>4
        <4>2. phase'[t] \in {"closed", "none"}
          BY <1>2, <4>1 DEF End, ClientInv, TypeOK
        <4> QED
          BY <2>2, <3>1, <4>2 DEF StopsAtConstraint, Running, mod
      <3> QED
        BY <2>3, <2>4, <3>3, <3>4
    <2> QED
      BY <2>5, <2>6
  <1>3. ASSUME ClientInv, ClientInv', [ClientNext]_clientVars
        PROVE  Kept
    <2>1. FM' = FM \/ \E t \in Transaction : Execute(t)
      BY <1>3 DEF ClientNext, clientVars, vars, ClientOpen, ClientQueue, ClientAbort,
                  OpenTransaction, Queue, Abort, Commit, CommitAgain, DestroyTransaction, Step, Finish
    <2> QED
      BY <1>1, <1>2, <1>3, <2>1
  <1>4. ClientInv /\ ClientInv' /\ [ClientNext]_clientVars => [Kept]_clientVars
    BY <1>3
  <1> QED
    BY <1>4, ClientInvariant, PTL DEF ClientSpec, ConstraintsStayBound

\* FeatureModelTransaction::commit: the model a commit leaves and the code it
\* returns are the ones that follow from the queue alone.
THEOREM CommitsAsForecastHolds == ClientSpec => CommitsAsForecast
  <1> DEFINE Foretold(t) ==
        phase[t] \in Running /\ phase'[t] \notin Running =>
          /\ FM' = forecast[Len(forecast)].model
          /\ phase'[t] = "closed" => result'[t] = forecast[Len(forecast)].code
  <1>1. ASSUME ClientInv, ClientNext, NEW t \in Transaction
        PROVE  Foretold(t)
    <2>1. SUFFICES ASSUME phase[t] \in Running, phase'[t] \notin Running
                   PROVE  /\ FM' = forecast[Len(forecast)].model
                          /\ phase'[t] = "closed" => result'[t] = forecast[Len(forecast)].code
      OBVIOUS
    <2>2. phase[t] \in Active /\ Foreseen(t)
      BY <1>1, <2>1 DEF ClientInv, Active
    <2>3. Step(t)
      <3>1. \A u \in Transaction : ~Idle
        BY <2>1 DEF Idle
      <3>2. PICK u \in Transaction : Step(u)
        BY <1>1, <3>1
        DEF ClientNext, ClientOpen, ClientQueue, ClientAbort, OpenTransaction, Queue, Abort,
            Commit, CommitAgain, DestroyTransaction
      <3>3. phase[u] \in Running
        BY <3>2 DEF Step, Execute, Finish
      <3> QED
        BY <1>1, <2>1, <3>2, <3>3 DEF ClientInv, OneActive, Active
    <2>4. ASSUME NEW code, End(t, code)
          PROVE  phase'[t] = "closed" => result'[t] = code
      BY <1>1, <2>4 DEF End, ClientInv, TypeOK
    <2>5. CASE Execute(t)
      <3>1. PICK o \in OutcomesAmong(FM, Modifications[t][next[t]], Alive) :
               /\ FM' = o.model
               /\ IF o.code \in {"OK", "UB"} THEN phase' = phase ELSE End(t, o.code)
        BY <2>5 DEF Execute
      <3>2. next[t] + 1 \in 1..Len(forecast) /\ o = forecast[next[t] + 1] /\ o.code # "UB"
        BY <1>1, <2>1, <2>5, <3>1, ExecuteIsForeseen DEF Execute
      <3>3. o.code # "OK" /\ End(t, o.code)
        BY <2>1, <3>1, <3>2
      <3>4. forecast[Len(forecast)] = o
        BY <1>1, <3>2, <3>3 DEF ClientInv, ForecastOK
      <3> QED
        BY <2>4, <3>1, <3>3, <3>4
    <2>6. CASE Finish(t)
      <3>1. End(t, "OK") /\ FM' = FM
        BY <1>1, <2>6, FinishIsValid
      <3>2. next[t] = Len(forecast)
        BY <1>1, <2>2, <2>6 DEF Finish, Foreseen, ClientInv, TypeOK
      <3> QED
        BY <2>2, <2>4, <3>1, <3>2 DEF Foreseen
    <2> QED
      BY <2>3, <2>5, <2>6 DEF Step
  <1>2. ASSUME ClientInv, [ClientNext]_clientVars
        PROVE  [\A t \in Transaction : Foretold(t)]_clientVars
    BY <1>1, <1>2
  <1> QED
    BY <1>2, ClientInvariant, PTL DEF ClientSpec, CommitsAsForecast

-------------------------------------------------------------------------------
(* The tree of a model *)

UpIn(m) == [f \in Feature |-> IF f \in m.features THEN ParentFeature(m, f) ELSE Nil]

ChildrenIn(m, F) == {f \in m.features : UpIn(m)[f] \in F}

UnderIn(m, f) ==
  {x \in m.features :
     \A S \in SUBSET m.features : (f \in S /\ ChildrenIn(m, S) \subseteq S) => x \in S}

\* Feature::getParentFeature of a feature is the feature above it or above its group.
LEMMA UpIs ==
  ASSUME NEW m \in Model, WellFormed(m), NEW f \in Feature
  PROVE  /\ f \in m.features \ {m.root} =>
              /\ UpIn(m)[f] \in m.features
              /\ UpIn(m)[f] = IF m.parent[f] \in Feature THEN m.parent[f]
                              ELSE m.parent[m.parent[f]]
         /\ f \notin m.features \ {m.root} => UpIn(m)[f] = Nil
  <1>1. CASE f \notin m.features
    BY <1>1 DEF UpIn
  <1>2. CASE f = m.root /\ f \in m.features
    <2>1. m.parent[f] = Nil /\ Nil \notin Relationship /\ Nil \in Feature \cup {Nil}
      BY <1>2, ConstantsAssumption DEF WellFormed, Rooted, Node
    <2>2. RelationshipsAbove(m, f) = {}
      BY <2>1, NothingAbove
    <2>3. ParentFeature(m, f) = Nil
      BY <2>1, <2>2 DEF ParentFeature
    <2> QED
      BY <1>2, <2>3 DEF UpIn
  <1>3. CASE f \in m.features \ {m.root}
    <2>1. UpIn(m)[f] = ParentFeature(m, f)
      BY <1>3 DEF UpIn
    <2>2. \A r \in m.relationships : r \notin Feature
      BY ModelFields, ConstantsAssumption
    <2>3. m.features \subseteq Feature
      BY ModelFields
    <2> QED
      BY <1>3, <2>1, <2>2, <2>3, ParentFeatureIs DEF WellFormed
  <1> QED
    BY <1>1, <1>2, <1>3

\* getChildren<Feature> and getParentFeature are inverse to each other.
LEMMA ChildrenAreBelow ==
  ASSUME NEW m \in Model, WellFormed(m), NEW p \in Feature
  PROVE  FeatureChildren(m, p) = {f \in m.features : UpIn(m)[f] = p}
  <1>1. p \in Node /\ p # Nil /\ p \notin Relationship
    BY ConstantsAssumption DEF Node
  <1>2. /\ FeatureChildren(m, p) =
             {x \in Feature : m.parent[x] = p \/
                              (m.parent[x] \in Relationship /\ m.parent[m.parent[x]] = p)}
        /\ FeatureChildren(m, p) \subseteq m.features
    BY <1>1, FeatureChildrenAre DEF WellFormed
  <1>3. ASSUME NEW f \in m.features
        PROVE  UpIn(m)[f] = p <=>
                 m.parent[f] = p \/ (m.parent[f] \in Relationship /\ m.parent[m.parent[f]] = p)
    <2>1. f \in Feature /\ f \in Live(m) /\ m.root \in m.features
      BY ModelFields DEF Live, WellFormed, Rooted
    <2>2. CASE f = m.root
      <3>1. UpIn(m)[f] = Nil /\ m.parent[f] = Nil /\ Nil \notin Relationship
        BY <2>1, <2>2, UpIs, ConstantsAssumption DEF WellFormed, Rooted, Node
      <3> QED
        BY <1>1, <3>1
    <2>3. CASE f # m.root
      <3>1. m.parent[f] \in Live(m) /\ Live(m) \subseteq Node
        BY <2>1, <2>3, ParentIsLive, ModelFields DEF WellFormed
      <3>2. UpIn(m)[f] = IF m.parent[f] \in Feature THEN m.parent[f] ELSE m.parent[m.parent[f]]
        BY <2>1, <2>3, UpIs
      <3> QED
        BY <1>1, <3>1, <3>2, ConstantsAssumption DEF Node
    <2> QED
      BY <2>2, <2>3
  <1> QED
    BY <1>2, <1>3, ModelFields

\* The subtree of a feature is what is under it.
LEMMA UnderIsSubtree ==
  ASSUME NEW m \in Model, WellFormed(m), NEW f \in m.features
  PROVE  UnderIn(m, f) = Subtree(m, f)
  <1>1. f \in Feature /\ m.features \subseteq Feature
    BY ModelFields
  <1>2. \A y \in Feature : FeatureChildren(m, y) = {x \in m.features : UpIn(m)[x] = y}
    BY ChildrenAreBelow
  <1>3. ASSUME NEW x \in UnderIn(m, f), NEW S \in SUBSET Feature, f \in S,
               \A y \in S : FeatureChildren(m, y) \subseteq S
        PROVE  x \in S
    <2>1. ChildrenIn(m, S \cap m.features) \subseteq S \cap m.features
      BY <1>1, <1>2, <1>3 DEF ChildrenIn
    <2>2. S \cap m.features \in SUBSET m.features /\ f \in S \cap m.features
      BY <1>3
    <2> QED
      BY <2>1, <2>2 DEF UnderIn
  <1>4. ASSUME NEW x \in Subtree(m, f), NEW S \in SUBSET m.features, f \in S,
               ChildrenIn(m, S) \subseteq S
        PROVE  x \in S
    <2>1. S \in SUBSET Feature /\ \A y \in S : FeatureChildren(m, y) \subseteq S
      BY <1>1, <1>2, <1>4 DEF ChildrenIn
    <2> QED
      BY <1>4, <2>1 DEF Subtree
  <1>5. Subtree(m, f) \subseteq m.features
    BY SubtreeIsAcyclic DEF WellFormed
  <1>6. UnderIn(m, f) \subseteq Subtree(m, f)
    BY <1>1, <1>3 DEF UnderIn, Subtree
  <1>7. Subtree(m, f) \subseteq UnderIn(m, f)
    BY <1>4, <1>5 DEF UnderIn
  <1> QED
    BY <1>6, <1>7

\* The tree is a function into its own features.
LEMMA UpType ==
  ASSUME NEW m \in Model, WellFormed(m)
  PROVE  UpIn(m) \in [Feature -> m.features \cup {Nil}]
  <1>1. \A f \in Feature : UpIn(m)[f] \in m.features \cup {Nil}
    BY UpIs
  <1> QED
    BY <1>1 DEF UpIn

\* Every feature is under the root: a set that is closed downwards and holds the
\* root leaves nothing out, or what it leaves out and its groups would be cut off.
LEMMA RootIsAbove ==
  ASSUME NEW m \in Model, WellFormed(m)
  PROVE  UnderIn(m, m.root) = m.features
  <1>1. SUFFICES ASSUME NEW S \in SUBSET m.features, m.root \in S, ChildrenIn(m, S) \subseteq S,
                        m.features \ S # {}
                 PROVE  FALSE
    BY DEF UnderIn, WellFormed, Rooted
  <1> DEFINE out == m.features \ S
             cut == out \cup {r \in m.relationships : m.parent[r] \in out}
  <1>2. cut \in SUBSET (Live(m) \ {m.root}) /\ cut # {}
    BY <1>1, ModelFields, ConstantsAssumption DEF Live, WellFormed, Rooted, Node
  <1>3. PICK n \in cut : m.parent[n] \in Live(m) \ cut
    BY <1>2 DEF WellFormed, Rooted
  <1>4. n \in out
    BY <1>3, ModelFields, ConstantsAssumption DEF WellFormed, GroupsWellPlaced
  <1>5. n \in Feature /\ n \in m.features \ {m.root} /\ n \notin S
    BY <1>1, <1>4, ModelFields
  <1>6. /\ UpIn(m)[n] \in m.features
        /\ UpIn(m)[n] = IF m.parent[n] \in Feature THEN m.parent[n] ELSE m.parent[m.parent[n]]
    BY <1>5, UpIs
  <1>7. UpIn(m)[n] \notin S
    BY <1>1, <1>5 DEF ChildrenIn
  <1>8. UpIn(m)[n] \in out
    BY <1>6, <1>7
  <1>9. CASE m.parent[n] \in Feature
    BY <1>3, <1>6, <1>8, <1>9
  <1>10. CASE m.parent[n] \notin Feature
    <2>1. m.parent[n] \in m.relationships
      BY <1>3, <1>10, ModelFields DEF Live
    <2> QED
      BY <1>3, <1>6, <1>8, <1>10, <2>1
  <1> QED
    BY <1>9, <1>10

-------------------------------------------------------------------------------
(* What an edit of the tree is on models *)

IsInsert(m, n, f, p) ==
  /\ f \notin m.features
  /\ p \in m.features
  /\ n.features = m.features \cup {f}
  /\ UpIn(n) = [UpIn(m) EXCEPT ![f] = p]
  /\ n.root = m.root

IsPrune(m, n, f) ==
  /\ f \in m.features \ {m.root}
  /\ n.features = m.features \ UnderIn(m, f)
  /\ UpIn(n) = [x \in Feature |-> IF x \in UnderIn(m, f) THEN Nil ELSE UpIn(m)[x]]
  /\ n.root = m.root

IsMove(m, n, F, p) ==
  /\ F \subseteq m.features \ {m.root}
  /\ \A x, y \in F : UpIn(m)[x] = UpIn(m)[y]
  /\ p \in m.features
  /\ \A f \in F : p \notin UnderIn(m, f)
  /\ UpIn(n) = [x \in Feature |-> IF x \in F THEN p ELSE UpIn(m)[x]]
  /\ n.features = m.features /\ n.root = m.root

IsReplaceTop(m, n, f) ==
  /\ f \notin m.features
  /\ n.features = (m.features \ {m.root}) \cup {f}
  /\ UpIn(n) = [x \in Feature |-> IF UpIn(m)[x] = m.root THEN f ELSE UpIn(m)[x]]
  /\ n.root = f

IsUnchanged(m, n) ==
  n.features = m.features /\ UpIn(n) = UpIn(m) /\ n.root = m.root

IsEdit(m, n) ==
  \/ \E f \in Feature, p \in m.features : IsInsert(m, n, f, p)
  \/ \E f \in m.features : IsPrune(m, n, f)
  \/ \E F \in SUBSET m.features, p \in m.features : IsMove(m, n, F, p)
  \/ \E f \in Feature : IsReplaceTop(m, n, f)
  \/ IsUnchanged(m, n)

\* A model that stays is an edit of the tree or none.
LEMMA NothingIsAnEdit ==
  ASSUME NEW m
  PROVE  IsEdit(m, m)
  BY DEF IsEdit, IsUnchanged

\* What leaves the parents alone leaves the tree alone.
LEMMA SameParents ==
  ASSUME NEW m \in Model, WellFormed(m), NEW n \in Model, WellFormed(n),
         n.features = m.features, n.root = m.root,
         \A f \in m.features \ {m.root} : UpIn(n)[f] = UpIn(m)[f]
  PROVE  IsUnchanged(m, n)
  <1>1. \A f \in Feature : UpIn(n)[f] = UpIn(m)[f]
    BY UpIs
  <1>2. UpIn(m) \in [Feature -> m.features \cup {Nil}] /\ UpIn(n) \in [Feature -> m.features \cup {Nil}]
    BY UpType
  <1> QED
    BY <1>1, <1>2 DEF IsUnchanged

\* addFeature inserts a leaf.
LEMMA InsertIsInsert ==
  ASSUME NEW m \in Model, WellFormed(m), NEW f \in Feature, f \notin m.features,
         NEW p \in m.features, NEW n \in Model, WellFormed(n), n = Insert(m, f, p)
  PROVE  IsInsert(m, n, f, p)
  <1>1. p \in Feature /\ p \in Node /\ f \in Node /\ m.root \in m.features /\ m.root # f
    BY ModelFields DEF Node, WellFormed, Rooted
  <1>2. /\ n.features = m.features \cup {f} /\ n.root = m.root
        /\ n.parent = [m.parent EXCEPT ![f] = p]
    BY <1>1, InsertType
  <1>3. \A x \in Node : n.parent[x] = IF x = f THEN p ELSE m.parent[x]
    BY <1>2, ModelFields
  <1>4. UpIn(n)[f] = p
    <2>1. f \in n.features \ {n.root} /\ n.parent[f] = p
      BY <1>1, <1>2, <1>3
    <2> QED
      BY <1>1, <2>1, UpIs
  <1>5. ASSUME NEW x \in Feature, x # f PROVE UpIn(n)[x] = UpIn(m)[x]
    <2>1. CASE x \in m.features \ {m.root}
      <3>1. m.parent[x] \in Live(m) /\ x \in Node
        BY <2>1, ParentIsLive DEF WellFormed, Live, Node
      <3>2. n.parent[x] = m.parent[x] /\ m.parent[x] \in Node
        BY <1>3, <1>5, <3>1, ModelFields
      <3>3. m.parent[x] \notin Feature => n.parent[m.parent[x]] = m.parent[m.parent[x]]
        BY <1>3, <3>2
      <3>4. x \in n.features \ {n.root}
        BY <1>2, <2>1
      <3> QED
        BY <2>1, <3>2, <3>3, <3>4, UpIs
    <2>2. CASE x \notin m.features \ {m.root}
      BY <1>2, <1>5, <2>2, UpIs
    <2> QED
      BY <2>1, <2>2
  <1>6. UpIn(m) \in [Feature -> m.features \cup {Nil}] /\ UpIn(n) \in [Feature -> n.features \cup {Nil}]
    BY UpType
  <1>7. UpIn(n) = [UpIn(m) EXCEPT ![f] = p]
    BY <1>4, <1>5, <1>6
  <1> QED
    BY <1>2, <1>7 DEF IsInsert

-------------------------------------------------------------------------------
(* Each modification is an edit *)

\* Removing a feature, with or without what is below it, prunes the tree.
LEMMA RemovalIsPrune ==
  ASSUME NEW m \in Model, WellFormed(m), NEW f \in m.features \ {m.root},
         NEW N \in SUBSET Node, N \cap m.features = UnderIn(m, f),
         \A x \in Node : m.parent[x] \in N => x \in N,
         NEW n \in Model, WellFormed(n),
         n.features = m.features \ N, n.root = m.root,
         n.parent = [x \in Node |-> IF x \in N THEN Nil ELSE m.parent[x]]
  PROVE  IsPrune(m, n, f)
  <1>1. UnderIn(m, f) \subseteq m.features /\ m.root \notin N
    BY ModelFields DEF UnderIn, WellFormed, Rooted
  <1>2. ASSUME NEW x \in Feature, x \in UnderIn(m, f) PROVE UpIn(n)[x] = Nil
    BY <1>1, <1>2, UpIs
  <1>3. ASSUME NEW x \in Feature, x \notin UnderIn(m, f) PROVE UpIn(n)[x] = UpIn(m)[x]
    <2>1. CASE x \in m.features \ {m.root}
      <3>1. x \in Node /\ x \in Live(m) /\ x \notin N /\ x \in n.features \ {n.root}
        BY <1>3, <2>1, ModelFields DEF Live
      <3>2. n.parent[x] = m.parent[x] /\ m.parent[x] \in Node /\ m.parent[x] \in Live(m)
        BY <2>1, <3>1, ParentIsLive, ModelFields DEF WellFormed
      <3>3. CASE m.parent[x] \in Feature
        BY <2>1, <3>1, <3>2, <3>3, UpIs
      <3>4. CASE m.parent[x] \notin Feature
        <4>1. n.parent[x] \in Live(n)
          BY <3>1, ParentIsLive DEF WellFormed, Live
        <4>2. m.parent[x] \notin N
          BY <3>1, <3>2, <4>1, ModelFields, NoParent, ConstantsAssumption DEF WellFormed
        <4> QED
          BY <2>1, <3>1, <3>2, <3>4, <4>2, UpIs
      <3> QED
        BY <3>3, <3>4
    <2>2. CASE x \notin m.features \ {m.root}
      BY <2>2, UpIs
    <2> QED
      BY <2>1, <2>2
  <1>4. UpIn(m) \in [Feature -> m.features \cup {Nil}] /\ UpIn(n) \in [Feature -> n.features \cup {Nil}]
    BY UpType
  <1>5. UpIn(n) = [x \in Feature |-> IF x \in UnderIn(m, f) THEN Nil ELSE UpIn(m)[x]]
    BY <1>2, <1>3, <1>4
  <1> QED
    BY <1>1, <1>5 DEF IsPrune

\* removeFeature removes subtrees of the tree.
LEMMA RemoveFeatureIsEdit ==
  ASSUME NEW m \in Model, WellFormed(m), NEW ref \in Feature \cup Name, NEW recursive \in BOOLEAN,
         MayRemove(m, ref, recursive),
         NEW o \in RemoveFeature(m, ref, recursive, Live(m)), WellFormed(o.model)
  PROVE  IsEdit(m, o.model)
  <1> DEFINE f == Resolve(m, ref)
             own == {r \in Relationship : m.parent[r] = f}
  <1>1. CASE f = Nil
    BY <1>1, NothingIsAnEdit DEF RemoveFeature, Fails, Outcome
  <1>2. CASE f # Nil
    <2>1. f \in m.features /\ f # m.root /\ IsTree(m)
      BY <1>2, WellFormedIsTree DEF MayRemove, PointsAt, Finds
    <2>2. UnderIn(m, f) = Subtree(m, f) /\ f \in Feature
      BY <2>1, UnderIsSubtree, ModelFields
    <2> HIDE DEF f
    <2>3. CASE recursive
      <3> DEFINE D == Subtree(m, f)
                 N == D \cup {r \in Relationship : m.parent[r] \in D}
                 n == Pruned(m, D)
      <3>1. o = Outcome(n, "OK")
        BY <1>2, <2>1, <2>3, RemoveSubtreeIs DEF RemoveFeature, Succeeds, f, Live
      <3>2. /\ N \in SUBSET Node /\ D \subseteq m.features
            /\ \A x \in Node : m.parent[x] \in N => x \in N
            /\ n \in Model /\ n.features = m.features \ N /\ n.root = m.root
            /\ n.parent = [x \in Node |-> IF x \in N THEN Nil ELSE m.parent[x]]
        BY <2>1, PrunedIs
      <3>3. WellFormed(n)
        BY <3>1 DEF Outcome
      <3>4. N \cap m.features = UnderIn(m, f)
        BY <2>2, <3>2, ModelFields, ConstantsAssumption
      <3> HIDE DEF n, N, D
      <3>5. IsPrune(m, n, f)
        BY <2>1, <3>2, <3>3, <3>4, RemovalIsPrune
      <3> QED
        BY <2>1, <3>1, <3>5 DEF IsEdit, Outcome
    <2>4. CASE ~recursive
      <3>1. /\ {f} \cup own \in SUBSET Node
            /\ o \in (IF HasNoFeatures(m, f) THEN Succeeds(Unlinked(m, f, {f} \cup own))
                      ELSE Fails(m, "NON_LEAF_NODE"))
        BY <1>2, <2>1, <2>4, RemoveLeafIs DEF RemoveFeature, f, Live
      <3>2. CASE ~HasNoFeatures(m, f)
        BY <3>1, <3>2, NothingIsAnEdit DEF Fails, Outcome
      <3>3. CASE HasNoFeatures(m, f)
        <4> DEFINE N == {f} \cup own
                   n == Unlinked(m, f, N)
        <4>1. o = Outcome(n, "OK") /\ FeatureChildren(m, f) = {}
          BY <3>1, <3>3 DEF Succeeds, HasNoFeatures
        <4>2. /\ \A x \in Node : m.parent[x] \in N => x \in N
              /\ n \in Model /\ n.features = m.features \ N /\ n.root = m.root
              /\ n.parent = [x \in Node |-> IF x \in N THEN Nil ELSE m.parent[x]]
          BY <2>1, <3>1, <4>1, UnlinkedIs
        <4>3. WellFormed(n)
          BY <4>1 DEF Outcome
        <4>4. N \cap m.features = UnderIn(m, f)
          <5>1. Subtree(m, f) = {f}
            <6>1. {f} \in SUBSET Feature /\ f \in {f} /\ \A y \in {f} : FeatureChildren(m, y) \subseteq {f}
              BY <2>2, <4>1
            <6>2. ASSUME NEW x \in Subtree(m, f) PROVE x \in {f}
              BY <6>1 DEF Subtree
            <6>3. f \in Subtree(m, f)
              BY <2>2, SubtreeIsClosed
            <6> QED
              BY <6>2, <6>3
          <5> QED
            BY <2>1, <2>2, <5>1, ModelFields, ConstantsAssumption
        <4> HIDE DEF n, N
        <4>5. N \in SUBSET Node
          BY <3>1 DEF N
        <4>6. IsPrune(m, n, f)
          BY <2>1, <4>2, <4>3, <4>4, <4>5, RemovalIsPrune
        <4> QED
          BY <2>1, <4>1, <4>6 DEF IsEdit, Outcome
      <3> QED
        BY <3>2, <3>3
    <2> QED
      BY <2>3, <2>4
  <1> QED
    BY <1>1, <1>2

\* A new group takes in the children of its feature, and their parent feature stays.
LEMMA AddRelationshipIsEdit ==
  ASSUME NEW m \in Model, WellFormed(m), NEW r \in Relationship, r \notin Live(m),
         NEW ref \in Feature \cup Name, MayGroup(m, ref),
         NEW o \in AddRelationship(m, r, ref, Live(m)), WellFormed(o.model)
  PROVE  IsEdit(m, o.model)
  <1> DEFINE p == Resolve(m, ref)
             members == FeatureChildren(m, p)
             n == Grouped(m, r, p)
  <1>1. p \in m.features /\ OwnGroups(m, p) = {}
    BY DEF MayGroup, Finds
  <1> HIDE DEF p
  <1>2. p \in Node /\ p \in Feature /\ r \in Node /\ r \notin Feature /\ m.parent[r] = Nil
    BY <1>1, ModelFields, NoParent, ConstantsAssumption DEF Node, WellFormed
  <1>3. o = Outcome(n, "OK")
    <2>1. WalkIsSafe(m, p, Relationship, Live(m))
      BY <1>2, RelationshipWalkIsSafe DEF WellFormed
    <2> QED
      BY <1>1, <2>1 DEF AddRelationship, Succeeds, p, Live
  <1>4. /\ n \in Model /\ n.features = m.features /\ n.root = m.root
        /\ n.parent = [x \in Node |-> IF x = r THEN p ELSE IF x \in members THEN r ELSE m.parent[x]]
    BY <1>2, GroupedType
  <1>5. WellFormed(n)
    BY <1>3 DEF Outcome
  <1>6. members = {x \in m.features : UpIn(m)[x] = p}
    BY <1>2, ChildrenAreBelow
  <1> HIDE DEF n, members
  <1>7. ASSUME NEW x \in m.features \ {m.root} PROVE UpIn(n)[x] = UpIn(m)[x]
    <2>1. x \in Feature /\ x \in Node /\ x # r /\ x \in n.features \ {n.root}
      BY <1>2, <1>4, ModelFields DEF Node
    <2>2. CASE x \in members
      <3>1. n.parent[x] = r /\ n.parent[r] = p
        BY <1>2, <1>4, <2>1, <2>2
      <3> QED
        BY <1>2, <1>4, <1>5, <1>6, <2>1, <2>2, <3>1, UpIs
    <2>3. CASE x \notin members
      <3>1. n.parent[x] = m.parent[x] /\ m.parent[x] \in Node /\ m.parent[x] \in Live(m)
        BY <1>4, <2>1, <2>3, ParentIsLive, ModelFields DEF WellFormed, Live
      <3>2. m.parent[x] \notin Feature => n.parent[m.parent[x]] = m.parent[m.parent[x]]
        <4>1. \A y \in members : y \in Feature
          BY <1>6, ModelFields
        <4> QED
          BY <1>4, <3>1, <4>1
      <3> QED
        BY <1>4, <1>5, <2>1, <3>1, <3>2, UpIs
    <2> QED
      BY <2>2, <2>3
  <1> QED
    BY <1>3, <1>4, <1>5, <1>7, SameParents DEF IsEdit, Outcome

\* The members of a group that goes become children of its feature.
LEMMA RemoveRelationshipIsEdit ==
  ASSUME NEW m \in Model, WellFormed(m), NEW ref \in Feature \cup Name, MayUngroup(m, ref),
         NEW o \in RemoveRelationship(m, ref, Live(m)), WellFormed(o.model)
  PROVE  IsEdit(m, o.model)
  <1> DEFINE p == Resolve(m, ref)
  <1>1. CASE p = Nil
    BY <1>1, NothingIsAnEdit DEF RemoveRelationship, Fails, Outcome
  <1>2. CASE p # Nil
    <2>1. PICK r \in Relationship : /\ p \in m.features /\ m.parent[r] = p
                                    /\ o \in Succeeds(Ungrouped(m, p, r))
      BY <1>2, RemoveRelationshipIs
    <2> HIDE DEF p
    <2> DEFINE n == Ungrouped(m, p, r)
               members == FeatureChildren(m, r)
    <2>2. p \in Feature /\ p \in Node /\ r \in Node /\ r \notin Feature
      BY <2>1, ModelFields, ConstantsAssumption DEF Node
    <2>3. /\ n \in Model /\ n.root = m.root /\ n.features = m.features
          /\ n.parent = [x \in Node |-> IF x = r THEN Nil ELSE IF x \in members THEN p ELSE m.parent[x]]
      <3>1. r \in Relationship /\ p \in Node /\ m.features \ {r} = m.features
        BY <2>2, ModelFields
      <3>2. /\ n \in Model /\ n.root = m.root /\ n.features = m.features \ {r}
            /\ n.parent = [x \in Node |-> IF x = r THEN Nil
                                          ELSE IF x \in members THEN p ELSE m.parent[x]]
        BY <3>1, UngroupedType
      <3> QED
        BY <3>1, <3>2
    <2>4. o = Outcome(n, "OK") /\ WellFormed(n)
      BY <2>1 DEF Succeeds, Outcome
    <2>5. members = {x \in Node : m.parent[x] = r} /\ members \subseteq Feature
      BY GroupMembers, ModelFields DEF WellFormed
    <2> HIDE DEF n, members
    <2>6. ASSUME NEW x \in m.features \ {m.root} PROVE UpIn(n)[x] = UpIn(m)[x]
      <3>1. x \in Feature /\ x \in Node /\ x # r /\ x \in n.features \ {n.root}
        BY <2>2, <2>3, ModelFields DEF Node
      <3>2. CASE x \in members
        <4>1. n.parent[x] = p /\ m.parent[x] = r
          BY <2>3, <2>5, <3>1, <3>2
        <4> QED
          BY <2>1, <2>2, <2>3, <2>4, <3>1, <4>1, UpIs
      <3>3. CASE x \notin members
        <4>1. n.parent[x] = m.parent[x] /\ m.parent[x] # r /\ m.parent[x] \in Node
          BY <2>3, <2>5, <3>1, <3>3, ParentIsLive, ModelFields DEF WellFormed, Live
        <4>2. m.parent[x] \notin Feature => n.parent[m.parent[x]] = m.parent[m.parent[x]]
          BY <2>3, <2>5, <4>1
        <4> QED
          BY <2>3, <2>4, <3>1, <4>1, <4>2, UpIs
      <3> QED
        BY <3>2, <3>3
    <2> QED
      BY <2>3, <2>4, <2>6, SameParents DEF IsEdit, Outcome
  <1> QED
    BY <1>1, <1>2

\* addFeature puts a leaf below an existing feature, or fails.
LEMMA AddFeatureIsEdit ==
  ASSUME NEW m \in Model, WellFormed(m), NEW f \in Feature, f \notin Live(m),
         NEW parent \in Feature \cup {Nil}, MayAddFeature(m, f, parent),
         NEW o \in AddFeature(m, f, parent, Live(m)), WellFormed(o.model)
  PROVE  IsEdit(m, o.model)
  <1> DEFINE p == IF parent # Nil THEN parent ELSE m.root
  <1>1. p \in m.features /\ p \in Live(m) /\ p # Nil /\ f \notin m.features
    BY ModelFields, ConstantsAssumption DEF MayAddFeature, WellFormed, Rooted, Live, Node
  <1>2. p \in Node
    BY <1>1, ModelFields DEF Node
  <1> HIDE DEF p
  <1>3. CASE o = Outcome(m, "ALREADY_PRESENT")
    BY <1>3, NothingIsAnEdit DEF Outcome
  <1>4. CASE o = Outcome(Insert(m, f, p), "OK")
    <2> DEFINE n == Insert(m, f, p)
    <2>1. n \in Model
      BY <1>2, InsertType
    <2>2. WellFormed(n)
      BY <1>4 DEF Outcome
    <2> HIDE DEF n
    <2>3. n = Insert(m, f, p)
      BY DEF n
    <2>4. IsInsert(m, n, f, p)
      BY <1>1, <2>1, <2>2, <2>3, InsertIsInsert
    <2> QED
      BY <1>1, <1>4, <2>3, <2>4 DEF IsEdit, Outcome
  <1>5. o = Outcome(m, "ALREADY_PRESENT") \/ o = Outcome(Insert(m, f, p), "OK")
    BY <1>1 DEF AddFeature, Fails, Succeeds, p
  <1> QED
    BY <1>3, <1>4, <1>5

\* The new root takes the place of the old one.
LEMMA SetRootIsEdit ==
  ASSUME NEW m \in Model, WellFormed(m), NEW f \in RootFeature, f \notin Live(m),
         NEW o \in SetRoot(m, f, Live(m)), WellFormed(o.model)
  PROVE  IsEdit(m, o.model)
  <1>1. /\ f \in Feature /\ f \in Node /\ f # Nil /\ f \notin m.features
        /\ m.root \in Feature /\ m.root \in Node /\ m.root # f /\ m.root \in m.features
        /\ m.root # Nil /\ m.parent[m.root] = Nil /\ m.root \notin Relationship
    BY ModelFields, ConstantsAssumption DEF WellFormed, Rooted, Node, Live
  <1> DEFINE n == RootReplaced(m, f)
             children == Targets(m, {m.root})
  <1>2. \/ o.model = m
        \/ o.model = n
    <2>1. children \subseteq Live(m)
      BY <1>1, TargetsAreChildren DEF WellFormed
    <2>2. m.root \in Live(m) \cup {Nil}
      BY <1>1 DEF Live
    <2> QED
      BY <1>1, <2>1, <2>2 DEF SetRoot, Fails, Succeeds, Outcome
  <1>3. CASE o.model = m
    BY <1>3, NothingIsAnEdit
  <1>4. CASE o.model = n
    <2>1. children = {c \in Node : m.parent[c] = m.root}
      BY <1>1, TargetsAreChildren DEF WellFormed
    <2>2. /\ n \in Model /\ n.features = (m.features \cup {f}) \ {m.root} /\ n.root = f
          /\ n.parent = [x \in Node |-> IF x = m.root THEN Nil
                                        ELSE IF x \in children THEN f ELSE m.parent[x]]
      BY <1>1, RootReplacedType
    <2>3. WellFormed(n)
      BY <1>4
    <2> HIDE DEF n, children
    <2>4. n.features = (m.features \ {m.root}) \cup {f}
      BY <1>1, <2>2
    <2>5. ASSUME NEW x \in Feature PROVE UpIn(n)[x] = IF UpIn(m)[x] = m.root THEN f ELSE UpIn(m)[x]
      <3>1. CASE x \in m.features \ {m.root}
        <4>1. x \in Node /\ x \in Live(m) /\ x \in n.features \ {n.root} /\ x # m.root
          BY <1>1, <2>2, <2>4, <3>1 DEF Node, Live
        <4>2. m.parent[x] \in Live(m) /\ m.parent[x] \in Node
          BY <3>1, <4>1, ParentIsLive, ModelFields DEF WellFormed
        <4>3. n.parent[x] = IF m.parent[x] = m.root THEN f ELSE m.parent[x]
          BY <2>1, <2>2, <4>1
        <4>4. CASE m.parent[x] \in Feature
          <5>1. n.parent[x] \in Feature
            BY <1>1, <4>3, <4>4
          <5> QED
            BY <2>2, <2>3, <3>1, <4>1, <4>3, <4>4, <5>1, UpIs
        <4>5. CASE m.parent[x] \notin Feature
          <5>1. m.parent[x] # m.root /\ n.parent[x] = m.parent[x]
            BY <1>1, <4>3, <4>5
          <5>2. n.parent[m.parent[x]] = IF m.parent[m.parent[x]] = m.root
                                        THEN f ELSE m.parent[m.parent[x]]
            BY <2>1, <2>2, <4>2, <5>1
          <5> QED
            BY <2>2, <2>3, <3>1, <4>1, <4>5, <5>1, <5>2, UpIs
        <4> QED
          BY <4>4, <4>5
      <3>2. CASE x \notin m.features \ {m.root}
        <4>1. UpIn(m)[x] = Nil
          BY <3>2, UpIs
        <4>2. x \notin n.features \ {n.root}
          BY <2>2, <3>2
        <4>3. UpIn(n)[x] = Nil
          BY <2>2, <2>3, <4>2, UpIs
        <4> QED
          BY <1>1, <4>1, <4>3
      <3> QED
        BY <3>1, <3>2
    <2>6. UpIn(n) = [x \in Feature |-> IF UpIn(m)[x] = m.root THEN f ELSE UpIn(m)[x]]
      <3>1. UpIn(n) \in [Feature -> n.features \cup {Nil}]
        BY <2>2, <2>3, UpType
      <3> QED
        BY <2>5, <3>1
    <2>7. IsReplaceTop(m, n, f)
      BY <1>1, <2>2, <2>4, <2>6 DEF IsReplaceTop
    <2> QED
      BY <1>1, <1>4, <2>7 DEF IsEdit
  <1> QED
    BY <1>2, <1>3, <1>4

\* What is under a feature is below it.
LEMMA UnderIsBelow ==
  ASSUME NEW m \in Model, WellFormed(m), NEW f \in m.features, NEW c \in Node,
         f \in Below(m, c)
  PROVE  UnderIn(m, f) \subseteq Below(m, c)
  <1> DEFINE S == Below(m, c) \cap m.features
  <1>1. \A x \in Node : m.parent[x] \in Below(m, c) => x \in Below(m, c)
    BY BelowIsClosed DEF WellFormed
  <1>2. ASSUME NEW x \in ChildrenIn(m, S) PROVE x \in S
    <2>1. x \in m.features /\ x \in Feature /\ x \in Node /\ UpIn(m)[x] \in S
      BY <1>2, ModelFields DEF ChildrenIn, Node
    <2>2. Nil \notin S
      BY ModelFields, ConstantsAssumption DEF Node
    <2>3. x # m.root /\ x \in Live(m)
      BY <2>1, <2>2, UpIs DEF Live
    <2>4. m.parent[x] \in Node
      BY <2>3, ParentIsLive, ModelFields DEF WellFormed
    <2>5. UpIn(m)[x] = IF m.parent[x] \in Feature THEN m.parent[x] ELSE m.parent[m.parent[x]]
      BY <2>1, <2>3, UpIs
    <2>6. UpIn(m)[x] \in Below(m, c)
      BY <2>1
    <2> HIDE DEF S
    <2>7. x \in Below(m, c)
      BY <1>1, <2>1, <2>4, <2>5, <2>6
    <2> QED
      BY <2>1, <2>7 DEF S
  <1>3. S \in SUBSET m.features /\ f \in S
    OBVIOUS
  <1> HIDE DEF S
  <1>4. UnderIn(m, f) \subseteq S
    BY <1>2, <1>3 DEF UnderIn
  <1> QED
    BY <1>4 DEF S

\* A feature that moves takes its subtree along.
LEMMA FeatureMoves ==
  ASSUME NEW m \in Model, WellFormed(m), NEW p \in Live(m), NEW c \in m.features, c # m.root,
         p \notin Below(m, c), NEW n \in Model, WellFormed(n),
         n.features = m.features, n.root = m.root, n.parent = [m.parent EXCEPT ![c] = p]
  PROVE  IsEdit(m, n)
  <1> DEFINE q == IF p \in Feature THEN p ELSE m.parent[p]
  <1>1. /\ p \in Node /\ c \in Node /\ c \in Feature /\ c \notin Relationship /\ Nil \notin Node
        /\ n.features = m.features /\ n.root = m.root
    <2>1. /\ p \in Node /\ c \in Node /\ c \in Feature /\ c \notin Relationship /\ Nil \notin Node
      BY ModelFields, ConstantsAssumption DEF Node
    <2> QED
      BY <2>1
  <1>2. \A x \in Node : n.parent[x] = IF x = c THEN p ELSE m.parent[x]
    BY <1>1, ModelFields
  <1>3. q \in m.features /\ (p \notin Feature => p \in Relationship /\ m.parent[p] = q)
    <2>1. CASE p \in m.features
      BY <2>1, ModelFields
    <2>2. CASE p \in m.relationships
      BY <2>2, ModelFields, ConstantsAssumption DEF WellFormed, GroupsWellPlaced
    <2> QED
      BY <2>1, <2>2 DEF Live
  <1>4. q \notin UnderIn(m, c)
    <2>1. c \in Below(m, c) /\ \A x \in Node : m.parent[x] \in Below(m, c) => x \in Below(m, c)
      BY <1>1, BelowIsClosed DEF WellFormed
    <2>2. UnderIn(m, c) \subseteq Below(m, c)
      BY <1>1, <2>1, UnderIsBelow
    <2> QED
      BY <1>1, <1>3, <2>1, <2>2
  <1> HIDE DEF q
  <1>5. ASSUME NEW x \in Feature
        PROVE  UpIn(n)[x] = IF x = c THEN q ELSE UpIn(m)[x]
    <2>1. CASE x = c
      <3>1. n.parent[x] = p /\ (p \notin Feature => n.parent[p] = q)
        BY <1>1, <1>2, <1>3, <2>1
      <3>2. p \in Feature => p = q
        BY DEF q
      <3> QED
        BY <1>1, <2>1, <3>1, <3>2, UpIs
    <2>2. CASE x # c /\ x \in m.features \ {m.root}
      <3>1. x \in Node /\ m.parent[x] \in Node
        BY <2>2, ParentIsLive, ModelFields DEF WellFormed, Node, Live
      <3>2. n.parent[x] = m.parent[x]
        BY <1>2, <2>2, <3>1
      <3>3. m.parent[x] \notin Feature => n.parent[m.parent[x]] = m.parent[m.parent[x]]
        BY <1>1, <1>2, <3>1
      <3> QED
        BY <1>1, <2>2, <3>2, <3>3, UpIs
    <2>3. CASE x # c /\ x \notin m.features \ {m.root}
      BY <1>1, <2>3, UpIs
    <2> QED
      BY <2>1, <2>2, <2>3
  <1>6. UpIn(n) = [x \in Feature |-> IF x \in {c} THEN q ELSE UpIn(m)[x]]
    <2>1. UpIn(n) \in [Feature -> n.features \cup {Nil}]
      BY UpType
    <2> QED
      BY <1>5, <2>1
  <1>7. IsMove(m, n, {c}, q)
    BY <1>1, <1>3, <1>4, <1>6 DEF IsMove
  <1> QED
    BY <1>3, <1>7 DEF IsEdit

\* A group that moves takes its members along.
LEMMA GroupMoves ==
  ASSUME NEW m \in Model, WellFormed(m), NEW p \in m.features, NEW c \in m.relationships,
         p \notin Below(m, c), NEW n \in Model, WellFormed(n),
         n.features = m.features, n.root = m.root, n.parent = [m.parent EXCEPT ![c] = p]
  PROVE  IsEdit(m, n)
  <1> DEFINE F == {x \in m.features : m.parent[x] = c}
  <1>1. /\ p \in Node /\ p \in Feature /\ c \in Node /\ c \notin Feature
        /\ Nil \notin Node /\ n.features = m.features /\ n.root = m.root
        /\ m.parent[m.root] = Nil /\ m.features \subseteq Node
    <2>1. /\ p \in Node /\ p \in Feature /\ c \in Node /\ c \notin Feature
          /\ Nil \notin Node /\ m.features \subseteq Node
      BY ModelFields, ConstantsAssumption DEF Node
    <2>2. m.parent[m.root] = Nil
      BY DEF WellFormed, Rooted
    <2> QED
      BY <2>1, <2>2
  <1>2. \A x \in Node : n.parent[x] = IF x = c THEN p ELSE m.parent[x]
    BY <1>1, ModelFields
  <1>3. F \subseteq m.features \ {m.root}
    BY <1>1
  <1>4. ASSUME NEW f \in F PROVE p \notin UnderIn(m, f) /\ UpIn(m)[f] = m.parent[c]
    <2>1. f \in Node /\ f \in Feature /\ f \in m.features \ {m.root} /\ m.parent[f] = c
      BY <1>1, <1>3, ModelFields
    <2>2. c \in Below(m, c) /\ f \in Below(m, c)
      BY <1>1, <2>1, BelowIsClosed DEF WellFormed
    <2>3. UnderIn(m, f) \subseteq Below(m, c)
      BY <1>1, <2>1, <2>2, UnderIsBelow
    <2> QED
      BY <1>1, <2>1, <2>3, UpIs
  <1>5. ASSUME NEW x \in Feature
        PROVE  UpIn(n)[x] = IF x \in F THEN p ELSE UpIn(m)[x]
    <2>1. CASE x \in F
      <3>1. n.parent[x] = c /\ n.parent[c] = p /\ x \in n.features \ {n.root}
        BY <1>1, <1>2, <1>3, <2>1
      <3> HIDE DEF F
      <3>2. x \in n.features \ {n.root} /\ x \in Feature /\ n \in Model /\ WellFormed(n)
        BY <1>5, <3>1
      <3>3. UpIn(n)[x] = IF n.parent[x] \in Feature THEN n.parent[x] ELSE n.parent[n.parent[x]]
        BY <3>2, UpIs
      <3> QED
        BY <1>1, <2>1, <3>1, <3>3
    <2>2. CASE x \notin F /\ x \in m.features \ {m.root}
      <3>1. x \in Node /\ m.parent[x] \in Node /\ m.parent[x] # c /\ x # c
        BY <1>1, <2>2, ParentIsLive, ModelFields DEF WellFormed, Live
      <3>2. n.parent[x] = m.parent[x] /\ n.parent[m.parent[x]] = m.parent[m.parent[x]]
        BY <1>2, <3>1
      <3> HIDE DEF F
      <3>3. x \in n.features \ {n.root} /\ x \in Feature /\ n \in Model /\ WellFormed(n)
        BY <1>1, <1>5, <2>2
      <3>4. UpIn(n)[x] = IF n.parent[x] \in Feature THEN n.parent[x] ELSE n.parent[n.parent[x]]
        BY <3>3, UpIs
      <3>5. UpIn(m)[x] = IF m.parent[x] \in Feature THEN m.parent[x] ELSE m.parent[m.parent[x]]
        BY <2>2, UpIs
      <3> QED
        BY <2>2, <3>2, <3>4, <3>5
    <2>3. CASE x \notin F /\ x \notin m.features \ {m.root}
      <3> HIDE DEF F
      <3> QED
        BY <1>1, <2>3, UpIs
    <2> QED
      BY <2>1, <2>2, <2>3
  <1> HIDE DEF F
  <1>6. UpIn(n) = [x \in Feature |-> IF x \in F THEN p ELSE UpIn(m)[x]]
    <2>1. UpIn(n) \in [Feature -> n.features \cup {Nil}]
      BY UpType
    <2> QED
      BY <1>5, <2>1
  <1>7. IsMove(m, n, F, p)
    BY <1>1, <1>3, <1>4, <1>6 DEF IsMove
  <1>8. F \in SUBSET m.features
    BY <1>3
  <1> QED
    BY <1>7, <1>8 DEF IsEdit

\* addChild moves a feature or the members of a group.
LEMMA AddChildIsEdit ==
  ASSUME NEW m \in Model, WellFormed(m), NEW parentRef, NEW childRef,
         MayMove(m, parentRef, childRef),
         NEW o \in AddChild(m, parentRef, childRef, Live(m)), WellFormed(o.model)
  PROVE  IsEdit(m, o.model)
  <1> DEFINE p == Resolve(m, parentRef)
             c == Resolve(m, childRef)
             n == Attached(m, p, c)
  <1>1. \/ o.model = m
        \/ /\ o.model = n /\ c # Nil /\ p # Nil /\ c # p
    BY DEF AddChild, Fails, Succeeds, Undefined, Outcome
  <1>2. CASE o.model = m
    BY <1>2, NothingIsAnEdit
  <1>3. CASE o.model = n /\ c # Nil /\ p # Nil /\ c # p
    <2>1. /\ p \in Live(m) /\ c \in Live(m) /\ c # m.root /\ p \notin Below(m, c)
          /\ c \in Relationship => p \in Feature
      BY <1>3 DEF MayMove
    <2> HIDE DEF p, c
    <2>2. p \in Node /\ c \in Node
      BY <2>1, ModelFields
    <2>3. n \in Model /\ WellFormed(n)
      BY <1>3, <2>2, AttachedType
    <2>4. n.features = m.features /\ n.root = m.root /\ n.parent = [m.parent EXCEPT ![c] = p]
      BY <2>2, AttachedType
    <2> HIDE DEF n
    <2>5. CASE c \in m.features
      BY <1>3, <2>1, <2>3, <2>4, <2>5, FeatureMoves
    <2>6. CASE c \notin m.features
      <3>1. c \in m.relationships /\ p \in m.features
        BY <2>1, <2>6, ModelFields, ConstantsAssumption DEF Live
      <3> QED
        BY <1>3, <2>1, <2>3, <2>4, <3>1, GroupMoves
    <2> QED
      BY <2>5, <2>6
  <1> QED
    BY <1>1, <1>2, <1>3

\* Locations, texts and constraints are no part of the tree.
LEMMA SameNodesSameTree ==
  ASSUME NEW m \in Model, WellFormed(m), NEW n \in Model, WellFormed(n),
         n.features = m.features, n.root = m.root, n.parent = m.parent
  PROVE  IsEdit(m, n)
  <1>1. ASSUME NEW f \in m.features \ {m.root} PROVE UpIn(n)[f] = UpIn(m)[f]
    BY ModelFields, UpIs
  <1> QED
    BY <1>1, SameParents DEF IsEdit

\* FeatureModelModification::exec: within the rules a modification is one edit or none.
THEOREM ProperIsEdit ==
  ASSUME NEW m \in Model, WellFormed(m), NEW mod \in Modification, Proper(m, mod),
         NEW o \in Outcomes(m, mod)
  PROVE  IsEdit(m, o.model)
  <1>1. o.model \in Model /\ WellFormed(o.model)
    BY OutcomesType, ProperIsHarmless DEF Harmless
  <1>2. CASE mod.op = "AddFeature"
    <2>1. mod.feature \in Feature /\ mod.parent \in Feature \cup {Nil} /\ mod.feature \notin Live(m)
      BY <1>2 DEF Modification, Proper, Owned
    <2> QED
      BY <1>1, <1>2, <2>1, AddFeatureIsEdit DEF Proper, Outcomes, OutcomesAmong
  <1>3. CASE mod.op = "RemoveFeature"
    <2>1. mod.ref \in Feature \cup Name /\ mod.recursive \in BOOLEAN
      BY <1>3 DEF Modification
    <2> QED
      BY <1>1, <1>3, <2>1, RemoveFeatureIsEdit DEF Proper, Outcomes, OutcomesAmong
  <1>4. CASE mod.op = "AddRelationship"
    <2>1. /\ mod.relationship \in Relationship /\ mod.ref \in Feature \cup Name
          /\ mod.relationship \notin Live(m)
      BY <1>4 DEF Modification, Proper, Owned
    <2> QED
      BY <1>1, <1>4, <2>1, AddRelationshipIsEdit DEF Proper, Outcomes, OutcomesAmong
  <1>5. CASE mod.op = "RemoveRelationship"
    <2>1. mod.ref \in Feature \cup Name
      BY <1>5 DEF Modification
    <2> QED
      BY <1>1, <1>5, <2>1, RemoveRelationshipIsEdit DEF Proper, Outcomes, OutcomesAmong
  <1>6. CASE mod.op \in {"AddLocation", "RemoveLocation"}
    <2>1. o.model.features = m.features /\ o.model.root = m.root /\ o.model.parent = m.parent
      BY <1>6 DEF Outcomes, OutcomesAmong, AddLocation, RemoveLocation, Undefined, Succeeds, Outcome, Model
    <2> QED
      BY <1>1, <2>1, SameNodesSameTree
  <1>7. CASE mod.op = "AddConstraint"
    <2>1. o \in AddConstraint(m, mod.constraint)
      BY <1>7 DEF Outcomes, OutcomesAmong
    <2> DEFINE k == mod.constraint
               m2 == [m EXCEPT !.constraints = @ \cup {k},
                               !.bound = @ \cup ({k} \X {f \in m.features : NameOf[f] \in Mentions[k]})]
    <2>2. o.model = m2
      BY <2>1 DEF AddConstraint, Fails, Succeeds, Outcome
    <2>3. m2.features = m.features /\ m2.root = m.root /\ m2.parent = m.parent
      BY DEF Model
    <2> QED
      BY <1>1, <2>2, <2>3, SameNodesSameTree
  <1>8. CASE mod.op = "SetInfo"
    <2>1. o.model.features = m.features /\ o.model.root = m.root /\ o.model.parent = m.parent
      BY <1>8 DEF Outcomes, OutcomesAmong, SetInfo, Succeeds, Outcome, Model
    <2> QED
      BY <1>1, <2>1, SameNodesSameTree
  <1>9. CASE mod.op = "SetRoot"
    <2>1. mod.feature \in RootFeature /\ mod.feature \notin Live(m)
      BY <1>9 DEF Modification, Proper, Owned
    <2> QED
      BY <1>1, <1>9, <2>1, SetRootIsEdit DEF Proper, Outcomes, OutcomesAmong
  <1>10. CASE mod.op = "AddChild"
    BY <1>1, <1>10, AddChildIsEdit DEF Proper, Outcomes, OutcomesAmong
  <1> QED
    BY <1>2, <1>3, <1>4, <1>5, <1>6, <1>7, <1>8, <1>9, <1>10 DEF Modification

-------------------------------------------------------------------------------
(* The refinement *)

\* A well-formed model is a feature tree.
LEMMA WellFormedIsFeatureTree ==
  ASSUME FM \in Model, WellFormed(FM)
  PROVE  Tree!IsTree
  <1>1. UpIn(FM) \in [Feature -> FM.features \cup {Nil}]
    BY UpType
  <1>2. FM.features \subseteq Feature /\ FM.root \in FM.features
    BY ModelFields DEF WellFormed, Rooted
  <1>3. \A f \in Feature : UpIn(FM)[f] = Nil <=> f \notin FM.features \ {FM.root}
    BY <1>2, UpIs, ConstantsAssumption DEF Node
  <1>4. UnderIn(FM, FM.root) = FM.features
    BY RootIsAbove
  <1> QED
    BY <1>1, <1>2, <1>3, <1>4
    DEF Tree!IsTree, Tree!Under, Tree!Children, UpIn, UnderIn, ChildrenIn

\* An edit of the model is an edit of the tree.
LEMMA EditIsTreeStep ==
  ASSUME IsEdit(FM, FM')
  PROVE  [Tree!TreeNext]_(Tree!treeVars)
  <1>1. ASSUME NEW f \in Feature, NEW p \in FM.features, IsInsert(FM, FM', f, p)
        PROVE  Tree!Insert(f, p)
    BY <1>1 DEF IsInsert, UpIn, Tree!Insert
  <1>2. ASSUME NEW f \in FM.features, IsPrune(FM, FM', f)
        PROVE  Tree!Prune(f)
    BY <1>2 DEF IsPrune, UpIn, UnderIn, ChildrenIn, Tree!Prune, Tree!Under, Tree!Children
  <1>3. ASSUME NEW F \in SUBSET FM.features, NEW p \in FM.features, IsMove(FM, FM', F, p)
        PROVE  Tree!Move(F, p)
    BY <1>3 DEF IsMove, UpIn, UnderIn, ChildrenIn, Tree!Move, Tree!Under, Tree!Children
  <1>4. ASSUME NEW f \in Feature, IsReplaceTop(FM, FM', f)
        PROVE  Tree!ReplaceTop(f)
    BY <1>4 DEF IsReplaceTop, UpIn, Tree!ReplaceTop
  <1>5. CASE IsUnchanged(FM, FM')
    BY <1>5 DEF IsUnchanged, UpIn, Tree!treeVars
  <1> QED
    BY <1>1, <1>2, <1>3, <1>4, <1>5 DEF IsEdit, Tree!TreeNext

\* Only the execution of a queued modification changes the model.
LEMMA StepIsEdit ==
  ASSUME ClientInv, [ClientNext]_clientVars
  PROVE  FM' = FM \/ IsEdit(FM, FM')
  <1>1. CASE UNCHANGED clientVars
    BY <1>1 DEF clientVars, vars
  <1>2. ASSUME NEW t \in Transaction, Execute(t) PROVE IsEdit(FM, FM')
    <2> DEFINE mod == Modifications[t][next[t]]
    <2>1. phase[t] \in Active /\ next[t] <= Len(Modifications[t]) /\ phase[t] \in Running
      BY <1>2 DEF Execute, Active
    <2>2. /\ Foreseen(t) /\ next[t] \in Nat /\ next[t] # 0 /\ Modifications[t] \in Seq(Menu)
          /\ FM \in Model /\ WellFormed(FM)
      BY <2>1 DEF ClientInv, TypeOK, IndexOK
    <2>3. next[t] \in 1..Len(Modifications[t]) /\ mod \in Modification
      BY <2>1, <2>2, TransactionAssumption
    <2>4. Proper(FM, mod)
      BY <2>2, <2>3 DEF Foreseen
    <2>5. PICK o \in OutcomesAmong(FM, mod, Alive) : FM' = o.model
      BY <1>2 DEF Execute
    <2>6. o \in Outcomes(FM, mod)
      BY <2>1, <2>5, ExecuteIsForeseen
    <2> HIDE DEF mod
    <2> QED
      BY <2>2, <2>3, <2>4, <2>5, <2>6, ProperIsEdit
  <1>3. ASSUME NEW t \in Transaction, Finish(t) PROVE FM' = FM
    BY <1>3, FinishIsValid
  <1>4. CASE ClientNext
    BY <1>2, <1>3, <1>4
    DEF ClientNext, ClientOpen, ClientQueue, ClientAbort, OpenTransaction, Queue, Abort, Commit,
        CommitAgain, DestroyTransaction, Step
  <1> QED
    BY <1>1, <1>4

\* ModifyTransaction: every step of every commit of a client within the rules is
\* one edit of the feature tree, or changes nothing of it.
THEOREM ImplementsFeatureTreeHolds == ClientSpec => ImplementsFeatureTree
  <1>1. ClientInit => Tree!TreeInit
    <2>1. ASSUME ClientInit PROVE Tree!IsTree
      BY <2>1, ClientInitially, WellFormedIsFeatureTree DEF ClientInv, TypeOK
    <2> QED
      BY <2>1 DEF Tree!TreeInit
  <1>2. ClientInv /\ [ClientNext]_clientVars => [Tree!TreeNext]_(Tree!treeVars)
    <2>1. ASSUME FM' = FM PROVE UNCHANGED Tree!treeVars
      BY <2>1 DEF Tree!treeVars
    <2> QED
      BY <2>1, StepIsEdit, EditIsTreeStep
  <1> QED
    BY <1>1, <1>2, ClientInvariant, PTL DEF ClientSpec, ImplementsFeatureTree, Tree!TreeSpec

===============================================================================
