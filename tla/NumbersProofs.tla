----------------------------- MODULE NumbersProofs -----------------------------
(***************************************************************************)
(* Proofs about Numbers and Words, for all integers and all batches.       *)
(***************************************************************************)
EXTENDS Words, NaturalsInduction, WellFoundedInduction, TLAPS

\* What a number stands for: nil is zero.
Value(b) == IF b.nil THEN 0 ELSE b.int

LEMMA Values ==
    ASSUME NEW b \in BigInts
    PROVE  b.nil \in BOOLEAN /\ b.int \in Int /\ Value(b) \in Int
  BY DEF BigInts, Value

\* Nil is zero to every operation, on either side, and no result is nil
\* (big_int.go:129-182).
THEOREM Arithmetic ==
    ASSUME NEW b \in BigInts, NEW c \in BigInts
    PROVE  /\ Add(b, c) = Big(Value(b) + Value(c))
           /\ Sub(b, c) = Big(Value(b) - Value(c))
           /\ Mul(b, c) = Big(Value(b) * Value(c))
           /\ Cmp(b, c) = Sign(Value(b) - Value(c))
<1>1. \A n \in Int : n + 0 = n /\ 0 + n = n /\ n - 0 = n /\ 0 - n = -n /\ n * 0 = 0 /\ 0 * n = 0
  OBVIOUS
<1>2. \A n \in Int : Sign(-n) = -Sign(n) /\ Sign(0) = 0
  BY DEF Sign
<1> QED
  BY <1>1, <1>2, Values DEF Add, Sub, Mul, Cmp, Copy, Value

\* Cmp is the order of the integers, so that Equals is an equality and nil
\* equals zero (big_int.go:171-187).
THEOREM Order ==
    ASSUME NEW b \in BigInts, NEW c \in BigInts
    PROVE  /\ Equals(b, c) <=> Value(b) = Value(c)
           /\ Cmp(b, c) = -1 <=> Value(b) < Value(c)
           /\ Cmp(b, c) = -Cmp(c, b)
           /\ IsZero(b) <=> Equals(b, Big(0))
<1>1. Big(0) \in BigInts /\ Value(Big(0)) = 0
  BY DEF BigInts, Big, Value
<1>2. /\ Cmp(b, c) = Sign(Value(b) - Value(c)) /\ Cmp(c, b) = Sign(Value(c) - Value(b))
      /\ Cmp(b, Big(0)) = Sign(Value(b) - 0)
  BY <1>1, Arithmetic
<1>3. Value(b) \in Int /\ Value(c) \in Int
  BY Values
<1>4. IsZero(b) <=> Sign(Value(b)) = 0
  BY Values DEF IsZero, Sign, Value
<1> QED
  BY <1>2, <1>3, <1>4 DEF Equals, Sign

\* The bounds of int64, and the greatest uint64.
Least == -9223372036854775808
Greatest == 9223372036854775807
GreatestUint == 18446744073709551615

\* The int64 of an integer's low bits, with its sign.
Narrow(n) == IF n < 0 THEN Negated(Signed(Low64(n))) ELSE Signed(Low64(n))

\* The words of math/big: which integers fit, and that those keep their value.
LEMMA WordFits ==
    ASSUME NEW n \in Int
    PROVE  /\ IsInt64(n) <=> Least <= n /\ n <= Greatest
           /\ IsInt64(n) => Narrow(n) = n
           /\ IsUint64(n) <=> 0 <= n /\ n <= GreatestUint
           /\ IsUint64(n) => Low64(n) = n
<1>1. CASE 0 <= n /\ n < Half
  <2>1. Low64(n) = n /\ Signed(n) = n
    BY <1>1 DEF Low64, Signed, Half, Whole
  <2>2. IsInt64(n) /\ IsUint64(n)
    BY <1>1, <2>1 DEF IsInt64, IsUint64, OneWord, Half, Whole
  <2>3. Least <= n /\ n <= Greatest /\ n <= GreatestUint
    BY <1>1 DEF Least, Greatest, GreatestUint, Half
  <2>4. Narrow(n) = n
    BY <1>1, <2>1 DEF Narrow
  <2> QED
    BY <1>1, <2>1, <2>2, <2>3, <2>4
<1>2. CASE Half <= n /\ n < Whole
  <2>1. Low64(n) = n /\ Signed(n) = n - Whole
    BY <1>2 DEF Low64, Signed, Half, Whole
  <2>2. ~ IsInt64(n) /\ IsUint64(n)
    BY <1>2, <2>1 DEF IsInt64, IsUint64, OneWord, Half, Whole
  <2>3. n > Greatest /\ 0 <= n /\ n <= GreatestUint
    BY <1>2 DEF Greatest, GreatestUint, Half, Whole
  <2>4. ~ (n <= Greatest)
    BY <2>3 DEF Greatest
  <2> QED
    BY <2>1, <2>2, <2>3, <2>4
<1>3. CASE -Half <= n /\ n < 0
  <2>1. Low64(n) = -n
    BY <1>3 DEF Low64, Half, Whole
  <2>2. CASE n = -Half
    <3>1. Signed(-n) = -n - Whole
      BY <1>3, <2>2 DEF Signed, Half
    <3>2. -n - Whole = n
      BY <2>2 DEF Half, Whole
    <3>3. Negated(n) = n
      BY <2>2 DEF Negated
    <3>4. Signed(-n) = n
      BY <3>1, <3>2
    <3> QED
      BY <1>3, <2>1, <3>3, <3>4
         DEF Narrow, IsInt64, IsUint64, OneWord, Least, Greatest, GreatestUint, Half, Whole
  <2>3. CASE n # -Half
    <3>1. Signed(-n) = -n /\ Negated(-n) = n
      BY <1>3, <2>3 DEF Signed, Negated, Half
    <3> QED
      BY <1>3, <2>1, <3>1
         DEF Narrow, IsInt64, IsUint64, OneWord, Least, Greatest, GreatestUint, Half, Whole
  <2> QED
    BY <2>2, <2>3
<1>4. CASE -Whole < n /\ n < -Half
  <2>1. Low64(n) = -n /\ Signed(-n) = -n - Whole
    BY <1>4 DEF Low64, Signed, Half, Whole
  <2>2. Negated(-n - Whole) = n + Whole /\ -n - Whole < 0 /\ n + Whole > 0
    BY <1>4 DEF Negated, Half, Whole
  <2>3. ~ IsInt64(n) /\ ~ IsUint64(n)
    BY <1>4, <2>1, <2>2 DEF IsInt64, IsUint64, Half, Whole
  <2>4. ~ (Least <= n) /\ ~ (0 <= n)
    BY <1>4 DEF Least, Half
  <2> QED
    BY <2>3, <2>4
<1>5. CASE ~ OneWord(n)
  <2>1. ~ IsInt64(n) /\ ~ IsUint64(n)
    BY <1>5 DEF IsInt64, IsUint64
  <2>2. n <= -Whole \/ n >= Whole
    BY <1>5 DEF OneWord, Whole
  <2>3. ~ (Least <= n /\ n <= Greatest) /\ ~ (0 <= n /\ n <= GreatestUint)
    BY <2>2 DEF Least, Greatest, GreatestUint, Whole
  <2> QED
    BY <2>1, <2>3
<1> QED
  BY <1>1, <1>2, <1>3, <1>4, <1>5 DEF OneWord, Half, Whole

\* Int64 says exactly of the numbers from -2^63 to 2^63 - 1 that they fit, Uint64 of
\* those from 0 to 2^64 - 1, and what fits comes back as it is, through the words
\* of either type; nil fits as zero, and what does not fit is zero too
\* (big_int.go:189-209).
THEOREM Fits ==
    ASSUME NEW b \in BigInts
    PROVE  /\ Int64(b) =
                IF Least <= Value(b) /\ Value(b) <= Greatest
                THEN [int |-> Value(b), ok |-> TRUE] ELSE [int |-> 0, ok |-> FALSE]
           /\ Uint64(b) =
                IF 0 <= Value(b) /\ Value(b) <= GreatestUint
                THEN [int |-> Value(b), ok |-> TRUE] ELSE [int |-> 0, ok |-> FALSE]
<1>1. CASE b.nil
  BY <1>1 DEF Int64, Uint64, Value, Least, Greatest, GreatestUint
<1>2. CASE ~ b.nil
  <2>1. b.int \in Int /\ Value(b) = b.int
    BY <1>2, Values DEF Value
  <2>2. Int64(b) = IF IsInt64(b.int) THEN [int |-> Narrow(b.int), ok |-> TRUE]
                                     ELSE [int |-> 0, ok |-> FALSE]
    BY <1>2, Zenon DEF Int64, Narrow
  <2>3. Uint64(b) = IF IsUint64(b.int) THEN [int |-> Low64(b.int), ok |-> TRUE]
                                       ELSE [int |-> 0, ok |-> FALSE]
    BY <1>2, Zenon DEF Uint64
  <2>4. /\ IsInt64(b.int) <=> Least <= Value(b) /\ Value(b) <= Greatest
        /\ IsInt64(b.int) => Narrow(b.int) = Value(b)
        /\ IsUint64(b.int) <=> 0 <= Value(b) /\ Value(b) <= GreatestUint
        /\ IsUint64(b.int) => Low64(b.int) = Value(b)
    BY <2>1, WordFits
  <2> QED
    BY <2>2, <2>3, <2>4, Zenon
<1> QED
  BY <1>1, <1>2

\* A bad request has a first one.
LEMMA First ==
    ASSUME NEW S, NEW requests \in Seq(S),
           NEW bad \in 1 .. Len(requests), Lacks(requests[bad]) # "nothing"
    PROVE  FirstBad(requests) # {}
<1> DEFINE Bad == {i \in 1 .. Len(requests) : Lacks(requests[i]) # "nothing"}
<1>1. PICK least \in Bad : \A i \in Bad : ~ (<<i, least>> \in OpToRel(<, Nat))
  <2>1. Bad \subseteq Nat /\ Bad # {}
    OBVIOUS
  <2> HIDE DEF Bad
  <2> QED
    BY <2>1, NatLessThanWellFounded, WFMin
<1>2. \A i \in Bad : ~ (i < least)
  <2> SUFFICES ASSUME NEW i \in Bad, i < least PROVE FALSE
    OBVIOUS
  <2>1. i \in Nat /\ least \in Nat
    OBVIOUS
  <2>2. <<i, least>> \in Nat \X Nat /\ <<i, least>>[1] < <<i, least>>[2]
    BY <2>1
  <2>3. <<i, least>> \in OpToRel(<, Nat)
    BY <2>2, Zenon DEF OpToRel
  <2> QED
    BY <1>1, <2>3
<1>3. \A j \in 1 .. least - 1 : j \in 1 .. Len(requests) /\ j < least
  OBVIOUS
<1>4. least \in FirstBad(requests)
  BY <1>2, <1>3 DEF FirstBad
<1> QED
  BY <1>4

\* A batch passes exactly when it has 1 to 10000 requests, each of which lacks
\* nothing; otherwise there is one error (batch_signing.go:38-63).
THEOREM Batches ==
    ASSUME NEW S, NEW requests \in Seq(S)
    PROVE  /\ ValidateBatchRequest(requests) = {} <=>
                /\ Len(requests) \in 1 .. MaxBatch
                /\ \A i \in 1 .. Len(requests) : Lacks(requests[i]) = "nothing"
           /\ \A e, f \in ValidateBatchRequest(requests) : e = f
<1>1. Len(requests) \in Nat /\ MaxBatch \in Nat \ {0}
  BY DEF MaxBatch
<1>2. FirstBad(requests) = {} <=>
        \A i \in 1 .. Len(requests) : Lacks(requests[i]) = "nothing"
  BY First DEF FirstBad
<1>3. \A i, j \in FirstBad(requests) : i = j
  <2> SUFFICES ASSUME NEW i \in FirstBad(requests), NEW j \in FirstBad(requests), i < j
               PROVE  FALSE
    BY DEF FirstBad
  <2> QED
    BY DEF FirstBad
<1>4. CASE Len(requests) \in 1 .. MaxBatch
  <2>1. ValidateBatchRequest(requests) =
            {[what |-> Lacks(requests[i]), at |-> i - 1] : i \in FirstBad(requests)}
    <3>1. Len(requests) # 0 /\ ~ (Len(requests) > MaxBatch)
      BY <1>1, <1>4
    <3> QED
      BY <3>1, Zenon DEF ValidateBatchRequest
  <2> HIDE DEF ValidateBatchRequest
  <2>2. ValidateBatchRequest(requests) = {} <=> FirstBad(requests) = {}
    BY <2>1
  <2>3. \A e, f \in ValidateBatchRequest(requests) : e = f
    BY <1>3, <2>1
  <2> QED
    BY <1>2, <1>4, <2>2, <2>3
<1>5. CASE Len(requests) \notin 1 .. MaxBatch
  <2>1. \/ ValidateBatchRequest(requests) = {[what |-> "empty", at |-> 0]}
        \/ ValidateBatchRequest(requests) = {[what |-> "too large", at |-> 0]}
    <3>1. CASE Len(requests) = 0
      BY <3>1 DEF ValidateBatchRequest
    <3>2. CASE Len(requests) # 0 /\ Len(requests) > MaxBatch
      BY <3>2 DEF ValidateBatchRequest
    <3>3. Len(requests) = 0 \/ (Len(requests) # 0 /\ Len(requests) > MaxBatch)
      BY <1>1, <1>5
    <3> QED
      BY <3>1, <3>2, <3>3
  <2> QED
    BY <1>5, <2>1
<1> QED
  BY <1>4, <1>5
================================================================================
