------------------------------ MODULE Characters ------------------------------
(***************************************************************************)
(* Texts are sequences of characters where a property is about them: the   *)
(* numbers and the classes of characters the lexers share.                 *)
(***************************************************************************)
EXTENDS Integers, SequencesExt

CONSTANT MaxInteger   \* the largest value of an int64_t

ASSUME MaxIntegerAssumption == MaxInteger \in Nat

Digit == <<"0", "1", "2", "3", "4", "5", "6", "7", "8", "9">>

Digits == ToSet(Digit)

Letters ==
  {"a", "b", "c", "d", "e", "f", "g", "h", "i", "j", "k", "l", "m", "n", "o", "p", "q", "r", "s",
   "t", "u", "v", "w", "x", "y", "z", "A", "B", "C", "D", "E", "F", "G", "H", "I", "J", "K", "L",
   "M", "N", "O", "P", "Q", "R", "S", "T", "U", "V", "W", "X", "Y", "Z"}

Blanks == {" ", "\t", "\r", "\n"}

\* The characters at the front of s that are in C.
TakeWhile(s, C) ==
  SubSeq(s, 1, Min({i \in 1 .. Len(s) + 1 : i = Len(s) + 1 \/ s[i] \notin C}) - 1)

RECURSIVE Decimal(_)
Decimal(v) ==
  IF v < 0 THEN <<"-">> \o Decimal(-v)
  ELSE (IF v < 10 THEN << >> ELSE Decimal(v \div 10)) \o <<Digit[(v % 10) + 1]>>

NumberOf(digits) == FoldLeft(LAMBDA v, d : 10 * v + CHOOSE n \in 0 .. 9 : Digit[n + 1] = d, 0, digits)

===============================================================================
