--------------------------- MODULE ConstraintParser ---------------------------
(***************************************************************************)
(* ConstraintLexer and ConstraintParser: a text is cut into tokens from    *)
(* the left, and the tokens become a constraint by precedence climbing.    *)
(* An empty text is no input: tokenize reads the last token of an empty    *)
(* list.                                                                   *)
(***************************************************************************)
EXTENDS ConstraintTree

-------------------------------------------------------------------------------
(* ConstraintLexer *)

Symbol ==
  (<<"(">> :> "L_PAR") @@ (<<")">> :> "R_PAR") @@ (<<"+">> :> "PLUS") @@ (<<"~">> :> "NEG")
  @@ (<<"*">> :> "STAR") @@ (<<"&">> :> "AND") @@ (<<"|">> :> "OR")

Operator ==
  (<<"-", ">">> :> "IMPLIES") @@ (<<"-">> :> "MINUS")
  @@ (<<"!", "=">> :> "NOT_EQUAL") @@ (<<"!">> :> "NOT")
  @@ (<<"=", ">">> :> "IMPLIES") @@ (<<"=">> :> "EQUAL")
  @@ (<<">", "=">> :> "GREATER_EQUAL") @@ (<<">">> :> "GREATER")
  @@ (<<"<", "-", ">">> :> "EQUIVALENT") @@ (<<"<", "=", ">">> :> "EQUIVALENT")
  @@ (<<"<", "=">> :> "LESS_EQUAL") @@ (<<"<">> :> "LESS")

MunchIdentifier(s) ==
  LET word == TakeWhile(s, Letters \cup Digits \cup {"_"})
  IN  [kind |-> IF word = <<"o", "r">> THEN "OR" ELSE "IDENTIFIER", text |-> word]

\* A sign belongs to the number wherever it stands.
MunchNumber(s) == [kind |-> "NUMBER", text |-> TakeWhile(s, Digits \cup {"e", "E", "+", "-"})]

\* Mutant: an operator that is a prefix of another one is taken for it.
MunchShortest(s) ==
  LET found == {p \in DOMAIN Symbol \cup DOMAIN Operator : IsPrefix(p, s)}
      word == CHOOSE p \in found : \A q \in found : Len(p) <= Len(q)
  IN  IF found = {} THEN [kind |-> "ERROR", text |-> <<s[1]>>]
      ELSE [kind |-> (Symbol @@ Operator)[word], text |-> word]

\* The longest operator at the front of s.
MunchOperator(s) ==
  LET found == {p \in DOMAIN Symbol \cup DOMAIN Operator : IsPrefix(p, s)}
      word == CHOOSE p \in found : \A q \in found : Len(p) >= Len(q)
  IN  IF found = {} THEN [kind |-> "ERROR", text |-> <<s[1]>>]
      ELSE [kind |-> (Symbol @@ Operator)[word], text |-> word]

Munch(s) ==
  IF s[1] \in Letters THEN MunchIdentifier(s)
  ELSE IF s[1] \in Digits THEN MunchNumber(s)
  ELSE IF s[1] \in Blanks THEN [kind |-> "WHITESPACE", text |-> TakeWhile(s, Blanks)]
  ELSE MunchOperator(s)

EndOfFile == [kind |-> "END_OF_FILE", text |-> << >>]

RECURSIVE Tokenize(_)
Tokenize(s) ==
  IF s = << >> THEN <<EndOfFile>>
  ELSE LET token == Munch(s)
       IN  IF token.kind = "ERROR" THEN <<token>>
           ELSE <<token>> \o Tokenize(SubSeq(s, Len(token.text) + 1, Len(s)))

-------------------------------------------------------------------------------
(* ConstraintParser *)

Precedence ==
  [STAR |-> 1, PLUS |-> 2, MINUS |-> 2, GREATER |-> 3, GREATER_EQUAL |-> 3, LESS |-> 3,
   LESS_EQUAL |-> 3, EQUAL |-> 4, NOT_EQUAL |-> 4, AND |-> 5, OR |-> 6, IMPLIES |-> 7,
   EQUIVALENT |-> 8]

MinPrecedence == 0
MaxPrecedence == 9

KindOfToken ==
  [STAR |-> "MULTIPLICATION", PLUS |-> "ADDITION", MINUS |-> "SUBTRACTION", EQUIVALENT |-> "EQUIVALENCE"]
  @@ [t \in DOMAIN Precedence |-> t]

\* m * 10^x, and m / 10^x rounded half to even.
Scaled(m, x, negative) ==
  LET d == 10 ^ x IN
  IF ~negative THEN m * d
  ELSE (m \div d) + (IF 2 * (m % d) > d \/ (2 * (m % d) = d /\ (m \div d) % 2 = 1) THEN 1 ELSE 0)

\* Decimal or scientific notation; what is neither, or too large, is the largest value.
ParseInteger(text) ==
  LET mantissa == TakeWhile(text, Digits)
      rest == SubSeq(text, Len(mantissa) + 1, Len(text))
      signed == Len(rest) > 1 /\ rest[2] \in {"+", "-"}
      exponent == SubSeq(rest, IF signed THEN 3 ELSE 2, Len(rest))
      value ==
        IF rest = << >> THEN NumberOf(mantissa)
        ELSE IF rest[1] \in {"e", "E"} /\ exponent # << >> /\ ToSet(exponent) \subseteq Digits
        THEN Scaled(NumberOf(mantissa), NumberOf(exponent), signed /\ rest[2] = "-")
        ELSE MaxInteger
  IN  Min({value, MaxInteger})

\* A parsed constraint with the tokens after it.  A null constraint is not looked
\* at again, so what follows it does not matter.
Null == [kind |-> "null", operands |-> << >>]
Rejected == [tree |-> Null, rest |-> << >>]
Accepted(tree, rest) == [tree |-> tree, rest |-> rest]

RECURSIVE ParseConstraint(_, _, _), ParseUnaryConstraint(_, _), Climb(_, _, _)

ParseUnaryConstraint(tokens, nesting) ==
  LET kind == Head(tokens).kind
      rest == Tail(tokens)
  IN  IF kind = "IDENTIFIER" THEN Accepted(PrimaryFeatureConstraint(Head(tokens).text), rest)
      ELSE IF kind = "NUMBER" THEN Accepted(PrimaryIntegerConstraint(ParseInteger(Head(tokens).text)), rest)
      ELSE IF kind \in UnaryKind
      THEN LET operand == ParseConstraint(rest, nesting + 2, MinPrecedence)
           IN  IF operand = Rejected THEN Rejected
               ELSE Accepted(UnaryConstraint(kind, operand.tree), operand.rest)
      ELSE IF kind = "L_PAR"
      THEN LET inner == ParseConstraint(rest, nesting + 1, MaxPrecedence)
           IN  IF inner = Rejected \/ Head(inner.rest).kind # "R_PAR" THEN Rejected
               ELSE Accepted(inner.tree, Tail(inner.rest))
      ELSE Rejected

\* The loop of parseConstraint, with what parseBinaryConstraint adds to the left.
Climb(left, nesting, precedence) ==
  LET kind == Head(left.rest).kind IN
  IF kind = "END_OF_FILE" \/ (kind = "R_PAR" /\ nesting > 0) THEN left
  ELSE IF kind \notin DOMAIN Precedence THEN Rejected
  ELSE IF Precedence[kind] >= precedence THEN left
  ELSE LET right == ParseConstraint(Tail(left.rest), nesting + 2, Precedence[kind])
       IN  IF right = Rejected THEN Rejected
           ELSE Climb(Accepted(BinaryConstraint(KindOfToken[kind], left.tree, right.tree), right.rest),
                      nesting, precedence)

ParseConstraint(tokens, nesting, precedence) ==
  LET left == ParseUnaryConstraint(tokens, nesting)
  IN  IF left = Rejected THEN Rejected ELSE Climb(left, nesting, precedence)

\* Blanks are skipped wherever a token is looked at.
BuildConstraint(s) ==
  ParseConstraint(SelectSeq(Tokenize(s), LAMBDA t : t.kind # "WHITESPACE"), 0, MaxPrecedence).tree

===============================================================================
