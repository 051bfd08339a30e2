--------------------------- MODULE StepFunctionParser ---------------------------
(***************************************************************************)
(* StepFunctionLexer and StepFunctionParser: two operands with an operator *)
(* between them, one a name and one a number.                              *)
(***************************************************************************)
EXTENDS StepFunction

-------------------------------------------------------------------------------
(* StepFunctionLexer *)

OperatorToken == ("+" :> "ADDITION") @@ ("*" :> "MULTIPLICATION") @@ ("^" :> "EXPONENTIATION")

MunchStep(s) ==
  IF s[1] \in Letters THEN [kind |-> "IDENTIFIER", text |-> TakeWhile(s, Letters \cup Digits \cup {"_"})]
  ELSE IF s[1] \in Digits \cup {"."} THEN [kind |-> "NUMBER", text |-> TakeWhile(s, Digits \cup {"."})]
  ELSE IF s[1] \in Blanks THEN [kind |-> "WHITESPACE", text |-> TakeWhile(s, Blanks)]
  ELSE IF s[1] \in DOMAIN OperatorToken THEN [kind |-> OperatorToken[s[1]], text |-> <<s[1]>>]
  ELSE [kind |-> "ERROR", text |-> <<s[1]>>]

RECURSIVE TokenizeStep(_)
TokenizeStep(s) ==
  IF s = << >> THEN <<[kind |-> "END_OF_FILE", text |-> << >>]>>
  ELSE LET token == MunchStep(s)
       IN  IF token.kind = "ERROR" THEN <<token>>
           ELSE <<token>> \o TokenizeStep(SubSeq(s, Len(token.text) + 1, Len(s)))

-------------------------------------------------------------------------------
(* StepFunctionParser *)

\* A decimal number, to three digits behind the point.  For a text that is none, the
\* variable it is read into has no value: unread stands for any.
ReadDouble(text, unread) ==
  LET whole == TakeWhile(text, Digits)
      digits == SubSeq(text, Len(whole) + 2, Len(text))
  IN  IF "." \in ToSet(digits) \/ text = <<".">> THEN unread
      ELSE Precision * NumberOf(whole) + NumberOf(SubSeq(digits \o <<"0", "0", "0">>, 1, 3))

IsOperand(token) == token.kind \in {"IDENTIFIER", "NUMBER"}

ParseOperand(token, unread) ==
  IF token.kind = "IDENTIFIER" THEN Variable(token.text) ELSE Constant(ReadDouble(token.text, unread))

\* Mutant: two numbers are taken.
BuildAnyStepFunction(s, unread) ==
  LET tokens == SelectSeq(TokenizeStep(s), LAMBDA t : t.kind # "WHITESPACE")
  IN  IF /\ Len(tokens) = 4
         /\ IsOperand(tokens[1]) /\ tokens[2].kind \in StepOperation /\ IsOperand(tokens[3])
         /\ tokens[4].kind = "END_OF_FILE"
         /\ "NUMBER" \in {tokens[1].kind, tokens[3].kind}
      THEN StepFunction(ParseOperand(tokens[1], unread), tokens[2].kind, ParseOperand(tokens[3], unread))
      ELSE NoStepFunction

\* Blanks are skipped wherever a token is looked at.
BuildStepFunction(s, unread) ==
  LET tokens == SelectSeq(TokenizeStep(s), LAMBDA t : t.kind # "WHITESPACE")
  IN  IF /\ Len(tokens) = 4
         /\ IsOperand(tokens[1]) /\ tokens[2].kind \in StepOperation /\ IsOperand(tokens[3])
         /\ tokens[4].kind = "END_OF_FILE"
         /\ tokens[1].kind # tokens[3].kind
      THEN StepFunction(ParseOperand(tokens[1], unread), tokens[2].kind, ParseOperand(tokens[3], unread))
      ELSE NoStepFunction

===============================================================================
