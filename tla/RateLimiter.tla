------------------------------ MODULE RateLimiter ------------------------------
(***************************************************************************)
(* The API's in-process token buckets (ratelimit.go), one for each scope   *)
(* and caller, behind one mutex: a call refills the caller's bucket for    *)
(* the time since the last, takes a token, and every now and then drops    *)
(* the buckets that have been idle.                                        *)
(*                                                                         *)
(* Time goes in ticks.  A bucket's content is counted in parts, of which a *)
(* token has as many as its rule's window has ticks, so that a tick        *)
(* refills Burst parts.  Ages are capped where nothing depends on more.    *)
(***************************************************************************)
EXTENDS Integers

CONSTANTS
  Buckets,    \* keys: a scope and a caller
  Burst, Per, \* the rule of each key
  GCEvery,    \* ticks between collections
  IdleAfter   \* ticks after which an idle bucket is dropped

ASSUME RateAssumption ==
  /\ \A k \in Buckets : Burst[k] \in Nat \ {0} /\ Per[k] \in Nat \ {0}
  /\ GCEvery \in Nat /\ IdleAfter \in Nat

VARIABLES
  buckets,    \* of a key: the parts it holds and the ticks since it was looked at
  sinceGC,
  granted     \* history: of a key, the requests granted in its last n ticks, this one included

rateVars == <<buckets, sinceGC, granted>>

None == [parts |-> -1, age |-> 0]
Oldest(k) == (IF Per[k] > IdleAfter THEN Per[k] ELSE IdleAfter) + 1
Full(k) == Burst[k] * Per[k]

RateTypeOK ==
  /\ \A k \in Buckets :
       /\ buckets[k] = None
          \/ buckets[k] \in [parts: 0..Full(k), age: 0..Oldest(k)]
       /\ granted[k] \in [0..Per[k] -> Nat]
  /\ DOMAIN buckets = Buckets /\ DOMAIN granted = Buckets
  /\ sinceGC \in 0..GCEvery

RateInit ==
  /\ buckets = [k \in Buckets |-> None]
  /\ sinceGC = 0
  /\ granted = [k \in Buckets |-> [n \in 0..Per[k] |-> 0]]

\* gcLocked.  Slip: what was looked at lately is dropped too.
CollectedAll == [j \in Buckets |-> None]
Collected ==
  [j \in Buckets |-> IF buckets[j].age > IdleAfter THEN None ELSE buckets[j]]

\* The refill since the bucket was last looked at.  Slip: without its limit.
RefilledOver(k, b) ==
  IF b = None THEN Full(k) ELSE b.parts + b.age * Burst[k]
Refilled(k, b) ==
  IF b = None THEN Full(k)
  ELSE IF b.parts + b.age * Burst[k] > Full(k) THEN Full(k)
  ELSE b.parts + b.age * Burst[k]

Allow(k) ==
  LET due == sinceGC = GCEvery
      kept == IF due THEN Collected ELSE buckets
      parts == Refilled(k, kept[k])
      grants == parts >= Per[k]
  IN  /\ sinceGC' = IF due THEN 0 ELSE sinceGC
      /\ buckets' = [kept EXCEPT ![k] = [parts |-> IF grants THEN parts - Per[k] ELSE parts,
                                         age |-> 0]]
      /\ granted' = [granted EXCEPT ![k] =
                       [n \in 0..Per[k] |-> IF grants /\ n > 0 THEN @[n] + 1 ELSE @[n]]]

Tick ==
  /\ sinceGC' = IF sinceGC < GCEvery THEN sinceGC + 1 ELSE sinceGC
  /\ buckets' = [k \in Buckets |->
                  IF buckets[k] = None \/ buckets[k].age = Oldest(k) THEN buckets[k]
                  ELSE [buckets[k] EXCEPT !.age = @ + 1]]
  /\ granted' = [k \in Buckets |-> [n \in 0..Per[k] |->
                  IF n = 0 THEN 0 ELSE granted[k][n - 1]]]

RateNext == Tick \/ \E k \in Buckets : Allow(k)

RateSpec == RateInit /\ [][RateNext]_rateVars

-----------------------------------------------------------------------------
(* Properties *)

\* In no window is a caller granted more than a full bucket and the window's refill
\* (in parts): the collection of idle buckets gives nobody tokens early.  It holds of
\* windows no longer than an idle bucket is kept; a rule of an hour keeps it for
\* those, and no longer (ratelimit.go:19, 76).
WithinRate ==
  \A k \in Buckets : \A n \in 1..Per[k] :
    n <= IdleAfter + 1 => Per[k] * granted[k][n] <= Full(k) + (n - 1) * Burst[k]

=============================================================================
