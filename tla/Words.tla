---------------------------------- MODULE Words ---------------------------------
(***************************************************************************)
(* The conversions of BigInt to the integers of the machine. math/big      *)
(* keeps a sign and the bits of a magnitude, and hands out words of 64     *)
(* bits. (In a module of its own because TLC has no numbers of that size.) *)
(***************************************************************************)
EXTENDS Numbers

Half == 9223372036854775808   \* 2^63
Whole == 18446744073709551616 \* 2^64

\* uint64: the low bits of the magnitude. int64: those bits read as one.
Low64(n) == (IF n < 0 THEN -n ELSE n) % Whole
Signed(w) == IF w < Half THEN w ELSE w - Whole

\* -w of an int64 wraps around: the least one is its own.
Negated(w) == IF w = -Half THEN w ELSE -w

OneWord(n) == -Whole < n /\ n < Whole

IsInt64(n) ==
    /\ OneWord(n)
    /\ LET w == Signed(Low64(n)) IN w >= 0 \/ (n < 0 /\ w = Negated(w))

IsUint64(n) == OneWord(n) /\ n >= 0

\* The number and whether it is one of the type.
Int64(b) ==
    IF b.nil THEN [int |-> 0, ok |-> TRUE]
    ELSE IF ~ IsInt64(b.int) THEN [int |-> 0, ok |-> FALSE]
    ELSE LET w == Signed(Low64(b.int))
         IN  [int |-> IF b.int < 0 THEN Negated(w) ELSE w, ok |-> TRUE]

Uint64(b) ==
    IF b.nil THEN [int |-> 0, ok |-> TRUE]
    ELSE IF ~ IsUint64(b.int) THEN [int |-> 0, ok |-> FALSE]
    ELSE [int |-> Low64(b.int), ok |-> TRUE]
================================================================================
