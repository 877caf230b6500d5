------------------------------ MODULE Ratelim -------------------------------
(***************************************************************************)
(* lib/dwnx_ratelim.c, the token bucket that limits how many glitches a    *)
(* peer may cause, with its 64-bit arithmetic: whole tokens, a carry for   *)
(* the fraction, and a test that avoids the overflow of rate * d + carry.  *)
(***************************************************************************)
EXTENDS Integers

CONSTANTS
  U64Max,     \* UINT64_MAX
  Seconds,    \* DWNX_SECONDS: ticks of the clock in a second
  Bursts,     \* the values of the settings that are tried
  Rates,
  MaxDrain,   \* bound: tokens asked for in one call
  MaxTime     \* bound: the last value of the clock

ASSUME RatelimAssumption ==
  /\ U64Max \in Nat /\ Seconds \in Nat \ {0} /\ MaxDrain \in Nat /\ MaxTime \in Nat
  /\ Bursts \subseteq 0..U64Max /\ Rates \subseteq 0..U64Max

VARIABLES burst, rate, tokens, carry, ts

rateVars == <<burst, rate, tokens, carry, ts>>

\* DWNX_RATELIM_MAX_BURST
MaxBurst == U64Max \div Seconds

Clamp(b) == IF b < MaxBurst THEN b ELSE MaxBurst

RateInit ==
  /\ burst \in {Clamp(b) : b \in Bursts}
  /\ rate \in Rates
  /\ tokens = burst /\ carry = 0 /\ ts \in 0..MaxTime

\* Mutant: the fraction of a token is dropped.
UpdatedNoCarry(t) ==
  LET d == t - ts
      gps == (rate * d) \div Seconds
  IN
  IF d = 0 THEN [tokens |-> tokens, carry |-> carry]
  ELSE IF rate <= U64Max \div d /\ gps < burst /\ tokens < burst - gps
    THEN [tokens |-> tokens + gps, carry |-> 0]
    ELSE [tokens |-> burst, carry |-> 0]

\* ratelim_update: the bucket <<tokens, carry>> at time t.
Updated(t) ==
  LET d == t - ts
      gain == rate * d + carry
      gps == gain \div Seconds
  IN
  IF d = 0 THEN [tokens |-> tokens, carry |-> carry]
  ELSE IF /\ rate <= (U64Max - carry) \div d
          /\ gps < burst /\ tokens < burst - gps
    THEN [tokens |-> tokens + gps, carry |-> gain % Seconds]
    ELSE [tokens |-> burst, carry |-> 0]

Drain(n, t) ==
  LET u == Updated(t) IN
  /\ t >= ts /\ ts' = t
  /\ tokens' = IF u.tokens < n THEN u.tokens ELSE u.tokens - n
  /\ carry' = u.carry
  /\ UNCHANGED <<burst, rate>>

RateNext == \E n \in 0..MaxDrain, t \in 0..MaxTime : Drain(n, t)

RateSpec == RateInit /\ [][RateNext]_rateVars

-----------------------------------------------------------------------------

\* No value leaves 64 bits: the products and sums of ratelim_update, and the
\* level in fractions of a token.
RatelimTypeOK ==
  /\ burst \in 0..MaxBurst /\ rate \in 0..U64Max /\ tokens \in 0..burst
  /\ carry \in 0..(Seconds - 1) /\ ts \in 0..MaxTime
  /\ tokens * Seconds + carry <= U64Max

\* The limiter is the ideal bucket: however the calls divide the time, no
\* fraction of a token is lost or gained, the overflow test never fires while
\* the bucket is not full, and nothing overflows (ratelim_update).
Bucket == INSTANCE TokenBucket
  WITH level <- tokens * Seconds + carry, now <- ts,
       Amounts <- 0..MaxDrain, Times <- 0..MaxTime

ExactBucket == Bucket!Spec /\ []RatelimTypeOK
=============================================================================
