--------------------------- MODULE ConstraintBuilder ---------------------------
(***************************************************************************)
(* ConstraintBuilder: one call per token.  Root is the tree built so far,  *)
(* with a hole where the next operand goes; Head is the slot the next call *)
(* works on, and Frames are the slots an operator of lower binding may     *)
(* still take as its left operand, each with the precedence that put it    *)
(* there.  A slot is the path that leads to it from the root.              *)
(*                                                                         *)
(* build moves the operands out of a builder, so a builder is done with    *)
(* once it has built a constraint.                                         *)
(***************************************************************************)
EXTENDS ConstraintParser

CONSTANTS
  Calls,        \* the calls a client makes
  MaxCalls      \* bound: calls on one builder before build

VARIABLES
  Root,
  Head_,        \* a slot, or NoSlot after an error
  Frames,       \* a stack, the top first
  calls,        \* history: the calls so far, up to the first one refused
  built         \* what build returned last, or NotBuilt

builderVars == <<Root, Head_, Frames, calls, built>>

NoSlot == <<0>>
NotBuilt == Hole

LogicalPrecedence ==
  [OR |-> 6, XOR |-> 6, AND |-> 5, IMPLIES |-> 7, EXCLUDES |-> 7, EQUIVALENCE |-> 8]

ComparisonPrecedence ==
  [EQUAL |-> 4, NOT_EQUAL |-> 4, LESS |-> 3, GREATER |-> 3, LESS_EQUAL |-> 3, GREATER_EQUAL |-> 3]

ArithmeticPrecedence == [ADDITION |-> 2, SUBTRACTION |-> 2, MULTIPLICATION |-> 1, DIVISION |-> 1]

PrecedenceOf == LogicalPrecedence @@ ComparisonPrecedence @@ ArithmeticPrecedence

-------------------------------------------------------------------------------
(* Slots *)

RECURSIVE At(_, _), Put(_, _, _)
At(c, slot) == IF slot = << >> THEN c ELSE At(c.operands[Head(slot)], Tail(slot))
Put(c, slot, n) ==
  IF slot = << >> THEN n ELSE [c EXCEPT !.operands[Head(slot)] = Put(@, Tail(slot), n)]

Vacant == Head_ # NoSlot /\ At(Root, Head_) = Hole
Filled == Head_ # NoSlot /\ At(Root, Head_) # Hole

Push(precedence, slot, frames) == << <<precedence, slot>> >> \o frames

\* The frames that are left when those up to a precedence are popped.
Popped(frames, precedence) ==
  LET kept == {i \in 1 .. Len(frames) : frames[i][1] > precedence}
  IN  IF kept = {} THEN << >> ELSE SubSeq(frames, Min(kept), Len(frames))

\* Pops every frame above the innermost open parenthesis.
Closed(frames) == Popped(frames, MaxPrecedence - 1)

\* An error is final: no slot is ever found again.
Refuse == Head_' = NoSlot /\ UNCHANGED <<Root, Frames>>

-------------------------------------------------------------------------------
(* Operands and operators *)

\* Mutant: a slot that is taken is not noticed.
Overwriting(leaf) ==
  IF Head_ # NoSlot
  THEN /\ Root' = Put(Root, Head_, leaf)
       /\ Frames' = Push(MinPrecedence, Head_, Frames)
       /\ UNCHANGED Head_
  ELSE Refuse

\* constant and feature
Operand(leaf) ==
  IF Vacant
  THEN /\ Root' = Put(Root, Head_, leaf)
       /\ Frames' = Push(MinPrecedence, Head_, Frames)
       /\ UNCHANGED Head_
  ELSE Refuse

Unary(kind) ==
  IF Vacant
  THEN /\ Root' = Put(Root, Head_, UnaryConstraint(kind, Hole))
       /\ Frames' = Push(MinPrecedence, Head_, Frames)
       /\ Head_' = Append(Head_, 1)
  ELSE Refuse

\* Mutant: an operator takes no left operand of its own precedence.
RightAssociative(kind) ==
  IF Filled
  THEN LET frames == Popped(Frames, PrecedenceOf[kind] - 1)
           popped == Len(Frames) - Len(frames)
           slot == IF popped = 0 THEN Head_ ELSE Frames[popped][2]
       IN  /\ Root' = Put(Root, slot, BinaryConstraint(kind, At(Root, slot), Hole))
           /\ Frames' = Push(PrecedenceOf[kind], slot, frames)
           /\ Head_' = Append(slot, 2)
  ELSE Refuse

\* The operator takes what the last popped frame holds as its left operand.
Binary(kind) ==
  IF Filled
  THEN LET frames == Popped(Frames, PrecedenceOf[kind])
           popped == Len(Frames) - Len(frames)
           slot == IF popped = 0 THEN Head_ ELSE Frames[popped][2]
       IN  /\ Root' = Put(Root, slot, BinaryConstraint(kind, At(Root, slot), Hole))
           /\ Frames' = Push(PrecedenceOf[kind], slot, frames)
           /\ Head_' = Append(slot, 2)
  ELSE Refuse

-------------------------------------------------------------------------------
(* Parentheses *)

\* operator(): parentheses around everything so far.
Parenthesize ==
  /\ Frames' = Closed(Frames)
  /\ Head_' = IF Filled /\ Frames' = << >> THEN << >> ELSE NoSlot
  /\ UNCHANGED Root

OpenPar ==
  IF Vacant
  THEN Frames' = Push(MaxPrecedence, Head_, Frames) /\ UNCHANGED <<Root, Head_>>
  ELSE Refuse

ClosePar ==
  LET frames == Closed(Frames) IN
  IF Filled /\ frames # << >>
  THEN Frames' = Tail(frames) /\ Head_' = frames[1][2] /\ UNCHANGED Root
  ELSE Frames' = frames /\ Head_' = NoSlot /\ UNCHANGED Root

-------------------------------------------------------------------------------
(* build *)

\* A build that reports an incomplete constraint has popped the frames as well.
Build ==
  /\ built \in {NotBuilt, Null}
  /\ Frames' = Closed(Frames)
  /\ built' = IF Filled /\ Frames' = << >> THEN Root ELSE Null
  /\ UNCHANGED <<Root, Head_>>

-------------------------------------------------------------------------------
(* A client.  Once a call was refused the others are: nothing changes. *)

Make(call) ==
  CASE call.call = "feature" -> Operand(PrimaryFeatureConstraint(call.name))
    [] call.call = "constant" -> Operand(PrimaryIntegerConstraint(call.value))
    [] call.call = "unary" -> Unary(call.kind)
    [] call.call = "binary" -> Binary(call.kind)
    [] call.call = "()" -> Parenthesize
    [] call.call = "openPar" -> OpenPar
    [] call.call = "closePar" -> ClosePar

BuilderInit ==
  /\ Root = Hole
  /\ Head_ = << >>
  /\ Frames = << >>
  /\ calls = << >>
  /\ built = NotBuilt

Call(call) ==
  /\ built \in {NotBuilt, Null}
  /\ Head_ # NoSlot
  /\ Len(calls) < MaxCalls
  /\ Make(call)
  /\ calls' = Append(calls, call)
  /\ UNCHANGED built

CallBuild ==
  /\ Len(calls) <= MaxCalls
  /\ Build
  /\ calls' = Append(calls, [call |-> "build"])

BuilderNext == (\E call \in Calls : Call(call)) \/ CallBuild

BuilderSpec == BuilderInit /\ [][BuilderNext]_builderVars

-------------------------------------------------------------------------------
(* What builder, parser and printer owe each other *)

\* The operators and operands of a tree from left to right, as calls.
RECURSIVE Walk(_)
Walk(c) ==
  IF c = Hole THEN << >>
  ELSE IF c.kind = "FEATURE" THEN << [call |-> "feature", name |-> c.name] >>
  ELSE IF c.kind = "INTEGER" THEN << [call |-> "constant", value |-> c.value] >>
  ELSE IF c.kind \in UnaryKind THEN << [call |-> "unary", kind |-> c.kind] >> \o Walk(c.operands[1])
  ELSE Walk(c.operands[1]) \o << [call |-> "binary", kind |-> c.kind] >> \o Walk(c.operands[2])

\* A call as it is written in a text.
Spelling(call) ==
  CASE call.call = "feature" -> call.name
    [] call.call = "constant" -> Decimal(call.value) \o <<" ">>
    [] call.call = "unary" -> UnaryText[call.kind]
    [] call.call = "binary" -> InfixText[call.kind]
    [] call.call = "openPar" -> <<"(">>
    [] call.call = "closePar" -> <<")">>
    [] OTHER -> << >>

Written(gap) ==
  FoldLeft(LAMBDA text, call : IF call.call = "()" THEN <<"(">> \o text \o <<")">>
                               ELSE text \o gap \o Spelling(call), << >>, calls)

\* The parser has tokens for every operator but these three.
HasTokens ==
  \A i \in DOMAIN calls : calls[i].call = "binary" => calls[i].kind \notin {"XOR", "DIVISION", "EXCLUDES"}

\* build was called once, at the end.
BuiltOnce == built # NotBuilt /\ \A i \in 1 .. Len(calls) - 1 : calls[i].call # "build"

\* Parentheses around everything are only written where none is open.
Balanced == Head_ # NoSlot \/ calls[Len(calls) - 1].call # "()"

\* excludes, read back, is an implication.
RECURSIVE WithoutExcludes(_)
WithoutExcludes(c) ==
  LET operands == [i \in DOMAIN c.operands |-> WithoutExcludes(c.operands[i])]
  IN  IF c.kind = "EXCLUDES"
      THEN BinaryConstraint("IMPLIES", operands[1], UnaryConstraint("NOT", operands[2]))
      ELSE [c EXCEPT !.operands = operands]

\* Nothing that was asked for is lost, doubled or moved while frames are popped
\* and slots are wrapped, not even when an early build has popped the frames:
\* the tree reads from left to right as the calls came.
CallsStayInOrder ==
  Head_ # NoSlot =>
    Walk(Root) = SelectSeq(calls, LAMBDA c : c.call \in {"feature", "constant", "unary", "binary"})

\* The two ways to a constraint agree: what the builder makes of a sequence of
\* calls is what the parser makes of the same sequence written down, and what one
\* refuses the other does.  They share neither the table of precedences nor the
\* method: a stack of open slots here, recursion there.
BuilderAgreesWithParser ==
  BuiltOnce /\ HasTokens /\ Balanced => BuildConstraint(Written(<<" ">>)) = built

\* No blank is needed: in a constraint that was built, no two tokens that stand
\* side by side are taken for another one.
BlanksAreOptional ==
  BuiltOnce /\ HasTokens /\ built # Null => BuildConstraint(Written(<< >>)) = built

\* A constraint that is printed can be read back, up to the form of excludes.
PrintedConstraintsReadBack ==
  built \notin {NotBuilt, Null} /\ (\A i \in DOMAIN calls : calls[i] # [call |-> "binary", kind |-> "XOR"]) =>
    BuildConstraint(Text(built)) = WithoutExcludes(built)

===============================================================================
