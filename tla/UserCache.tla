------------------------------- MODULE UserCache -------------------------------
(***************************************************************************)
(* The userCache of PrivyClient: a ttlcache of user records, as            *)
(* InitNewPrivyClient sets it up (a time to live, a capacity, no loader)   *)
(* and as GetUser uses it (Get, Set with the default TTL). The library is  *)
(* external; what the code relies on is modelled:                          *)
(*   - Get returns a record that has not expired, moves it to the front of *)
(*     the recency order and starts its time to live again;                *)
(*   - Set replaces the record of a key, or evicts the least recently used *)
(*     record when the cache is full;                                      *)
(*   - nothing removes expired records (Start is never called): they wait  *)
(*     to be replaced or evicted.                                          *)
(* Each operation holds the cache's mutex, so it is one step.              *)
(*                                                                         *)
(* A cache maps every key to an entry. rank is the place in the recency    *)
(* order, 1 for the most recent entry, 0 for a key that is not cached.     *)
(***************************************************************************)
EXTENDS Integers

CONSTANTS
    TTL,       \* 30 minutes in the code, here in ticks of the clock
    Capacity   \* 1000 in the code

ASSUME CacheAssumption == TTL \in Nat /\ Capacity \in Nat \ {0}

NoEntry(nothing) == [value |-> nothing, expires |-> 0, rank |-> 0]

Entry(Values) == [value: Values, expires: Int, rank: Nat]

Cached(c, k) == c[k].rank # 0

\* An item is expired once its expiry time is before now, not at it.
Fresh(c, k, now) == Cached(c, k) /\ now <= c[k].expires

\* Key k becomes the most recent one; what was more recent than k goes down.
ToFront(c, k) ==
    [x \in DOMAIN c |->
        IF x = k THEN [c[x] EXCEPT !.rank = 1]
        ELSE IF Cached(c, x) /\ (Cached(c, k) => c[x].rank < c[k].rank)
             THEN [c[x] EXCEPT !.rank = @ + 1]
             ELSE c[x]]

\* Get on a fresh entry.
Touch(c, k, now) ==
    LET front == ToFront(c, k) IN [front EXCEPT ![k].expires = now + TTL]

\* The entry at the back of a full cache is dropped.
EvictOldest(c, nothing) ==
    [x \in DOMAIN c |->
        IF c[x].rank >= Capacity THEN NoEntry(nothing) ELSE c[x]]

\* Set: an entry that is there, expired or not, is overwritten in place.
Put(c, k, v, now, nothing) ==
    LET room == IF Cached(c, k) THEN c ELSE EvictOldest(c, nothing)
    IN  [ToFront(room, k) EXCEPT ![k] = [value |-> v, expires |-> now + TTL, rank |-> 1]]
================================================================================
