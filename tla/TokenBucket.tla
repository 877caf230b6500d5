---------------------------- MODULE TokenBucket -----------------------------
(***************************************************************************)
(* The ideal rate limiter: a bucket that holds burst tokens, filled at a   *)
(* constant rate.  Its level is counted in 1/Seconds of a token, so that   *)
(* nothing is ever rounded.                                                *)
(***************************************************************************)
EXTENDS Integers

CONSTANTS
  Seconds,    \* units of time in which rate tokens are gained
  Amounts,    \* how many tokens may be asked for
  Times       \* the values of the clock

VARIABLES burst, rate, level, now

vars == <<burst, rate, level, now>>

Full == burst * Seconds

Init == burst \in Nat /\ rate \in Nat /\ level = Full /\ now \in Times

\* n tokens are asked for at time t; they are taken if they are there.
Ask(n, t) ==
  LET gained == level + rate * (t - now)
      filled == IF gained < Full THEN gained ELSE Full
  IN
  /\ t >= now /\ now' = t
  /\ level' = IF filled >= n * Seconds THEN filled - n * Seconds ELSE filled
  /\ UNCHANGED <<burst, rate>>

Spec == Init /\ [][\E n \in Amounts, t \in Times : Ask(n, t)]_vars
=============================================================================
