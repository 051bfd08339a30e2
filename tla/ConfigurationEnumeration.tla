----------------------- MODULE ConfigurationEnumeration -----------------------
(***************************************************************************)
(* What a caller of ConfigurationFactory may rely on: configurations are   *)
(* handed out one by one, each is valid and none comes twice, and the end  *)
(* comes when there is no other one or when there are as many as asked for.*)
(***************************************************************************)
EXTENDS Naturals, FiniteSets

VARIABLES
  valid,     \* the valid configurations
  limit,     \* how many are asked for at most
  finite,    \* whether the values of every feature come to an end
  given,     \* the configurations handed out
  count,     \* how many that were
  over

vars == <<valid, limit, finite, given, count, over>>

Init == given = {} /\ count = 0 /\ over = FALSE

Give ==
  /\ ~over /\ count < limit
  /\ \E c \in valid \ given : given' = given \cup {c}
  /\ count' = count + 1
  /\ over' \in BOOLEAN /\ (over' => count' = limit)
  /\ UNCHANGED <<valid, limit, finite>>

Finish ==
  /\ ~over
  /\ given = valid \/ count = limit
  /\ over' = TRUE
  /\ UNCHANGED <<valid, limit, finite, given, count>>

Next == Give \/ Finish

Spec == Init /\ [][Next]_vars /\ WF_vars(finite /\ Next)

===============================================================================
