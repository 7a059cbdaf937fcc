-------------------------------- MODULE Numbers --------------------------------
(***************************************************************************)
(* The arithmetic of the big integers of the API's data, which may be nil, *)
(* and the check of a batch of signing requests. No registered route takes *)
(* either. Numbers are values here and math/big is the integers of TLA+:   *)
(* the operations below write only to a big.Int they have made. Not here:  *)
(* the constructors, the decimal and JSON text, and that UnmarshalJSON     *)
(* writes into the big.Int its receiver has.                               *)
(***************************************************************************)
EXTENDS Integers, Sequences

(***************************************************************************)
(* BigInt.                                                                 *)
(***************************************************************************)
\* A pointer: nil (or to a nil big.Int, the methods tell no difference), when
\* its integer means nothing, or to an integer.
BigInts == [nil : BOOLEAN, int : Int]

Big(n) == [nil |-> FALSE, int |-> n]

Sign(n) == IF n < 0 THEN -1 ELSE IF n = 0 THEN 0 ELSE 1

IsZero(b) == b.nil \/ Sign(b.int) = 0
Copy(b) == IF b.nil THEN Big(0) ELSE Big(b.int)

Add(b, other) ==
    IF b.nil THEN IF other.nil THEN Big(0) ELSE Copy(other)
    ELSE IF other.nil THEN Copy(b) ELSE Big(b.int + other.int)

Sub(b, other) ==
    IF b.nil THEN IF other.nil THEN Big(0) ELSE Big(-other.int)
    ELSE IF other.nil THEN Copy(b) ELSE Big(b.int - other.int)

Mul(b, other) == IF b.nil \/ other.nil THEN Big(0) ELSE Big(b.int * other.int)

Cmp(b, other) ==
    IF b.nil THEN IF other.nil THEN 0 ELSE -Sign(other.int)
    ELSE IF other.nil THEN Sign(b.int) ELSE Sign(b.int - other.int)

Equals(b, other) == Cmp(b, other) = 0

(***************************************************************************)
(* ValidateBatchRequest.                                                   *)
(***************************************************************************)
MaxBatch == 10000

SigningTypes == {"axal", "user"}

\* What a request lacks first.
Lacks(request) ==
    IF request.hash = "empty" THEN "hash"
    ELSE IF request.hash # "0x" THEN "prefix"
    ELSE IF ~ request.privyID THEN "privy_id"
    ELSE IF request.type \notin SigningTypes THEN "signing_type"
    ELSE "nothing"

\* The places of the first request that lacks something: one or none.
FirstBad(requests) ==
    {i \in 1 .. Len(requests) :
        /\ Lacks(requests[i]) # "nothing"
        /\ \A j \in 1 .. i - 1 : Lacks(requests[j]) = "nothing"}

\* The error, if there is one: the batch's own, or that of the first bad
\* request, which is named by its place from 0.
ValidateBatchRequest(requests) ==
    IF Len(requests) = 0 THEN {[what |-> "empty", at |-> 0]}
    ELSE IF Len(requests) > MaxBatch THEN {[what |-> "too large", at |-> 0]}
    ELSE {[what |-> Lacks(requests[i]), at |-> i - 1] : i \in FirstBad(requests)}
================================================================================
