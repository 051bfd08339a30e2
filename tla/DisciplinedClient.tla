--------------------------- MODULE DisciplinedClient ---------------------------
(***************************************************************************)
(* ModifyTransaction used by a client that keeps to ClientRules.  It has   *)
(* one transaction open at a time, so it can work out what its queue will  *)
(* do: `forecast' records the model before each queued modification, and   *)
(* what the whole queue leads to.                                          *)
(***************************************************************************)
EXTENDS ModifyTransaction, ClientRules

VARIABLE forecast     \* a sequence of outcomes, one longer than the queue

clientVars == <<vars, forecast>>

-------------------------------------------------------------------------------

ClientInit == Init /\ forecast = << >>

ClientOpen(t) ==
  /\ \A u \in Transaction : phase[u] # "open"
  /\ OpenTransaction(t)
  /\ forecast' = <<Outcome(FM, "OK")>>

\* What follows a modification that fails is never executed.
ClientQueue(t, mod) ==
  LET last == forecast[Len(forecast)] IN
  /\ phase[t] = "open"
  /\ Queue(t, mod)
  /\ last.code = "OK" => Proper(last.model, mod)
  /\ IF last.code = "OK"
     THEN \E o \in Outcomes(last.model, mod) : forecast' = Append(forecast, o)
     ELSE forecast' = Append(forecast, last)

ClientAbort(t) == Abort(t) /\ forecast' = << >>

ClientNext ==
  \E t \in Transaction :
    \/ ClientOpen(t)
    \/ \E mod \in Menu : ClientQueue(t, mod)
    \/ ClientAbort(t)
    \/ (Commit(t) \/ CommitAgain(t) \/ DestroyTransaction(t) \/ Step(t)) /\ UNCHANGED forecast

ClientSpec == ClientInit /\ [][ClientNext]_clientVars

-------------------------------------------------------------------------------
(* What the rules buy the client *)

\* No modification dereferences a null or freed pointer, removes what is not
\* there, or walks in circles: the rules are enough for the code to be defined.
NoUndefinedBehaviour == ~undefined

\* Edges and parent pointers agree on live nodes at every moment of a commit,
\* also after one that failed half way: each modification updates both ends.
EdgesAlwaysMatchParents == EdgesMatchParents(FM)

\* No modification cuts a node off the root or closes a cycle.
AlwaysRooted == Rooted(FM)

\* Groups stay below features, one each, through moves, removals and regrouping.
GroupsAlwaysWellPlaced == GroupsWellPlaced(FM)

\* A name leads to one feature and the root pointer to the only RootFeature.
NamesAlwaysIdentify == NamesIdentify(FM)

\* A feature of the model is known to the constraint under each name it mentions.
BoundToAll(m, c) ==
  \A n \in Mentions[c] : \E f \in m.features : NameOf[f] = n /\ <<c, f>> \in m.bound

\* The commit of t stops at the modification that adds c.
StopsAtConstraint(t, c) ==
  /\ phase[t] \in Running /\ phase'[t] \notin Running
  /\ next[t] <= Len(Modifications[t])
  /\ Modifications[t][next[t]] = [op |-> "AddConstraint", constraint |-> c]

\* A constraint is bound to all that it mentions from the step on that adds it, and to
\* live features only, whatever removals, failed commits and root changes follow.  The
\* exception is a constraint at which its commit failed: it stays, bound in part.
ConstraintsStayBound ==
  [][/\ ConstraintsBound(FM')
     /\ \A c \in FM'.constraints :
          \/ BoundToAll(FM', c)
          \/ c \in FM.constraints /\ ~BoundToAll(FM, c)
          \/ \E t \in Transaction : StopsAtConstraint(t, c)]_clientVars

\* A commit, by call or by the destructor, leaves exactly the model the client
\* foresaw and returns the code it foresaw; the consistency check rejects nothing.
CommitsAsForecast ==
  [][\A t \in Transaction :
       phase[t] \in Running /\ phase'[t] \notin Running =>
         /\ FM' = forecast[Len(forecast)].model
         /\ phase'[t] = "closed" => result'[t] = forecast[Len(forecast)].code]_clientVars

\* Seen without relationships and pointers, every step of every commit is one
\* edit of the feature tree or none.
Tree == INSTANCE FeatureTree WITH
  members <- FM.features,
  up <- [f \in Feature |-> IF f \in FM.features THEN ParentFeature(FM, f) ELSE Nil],
  top <- FM.root

ImplementsFeatureTree == Tree!TreeSpec

===============================================================================
