---------------------------- MODULE RateLimiter ----------------------------
(***************************************************************************)
(* RateLimiter.h: a limiter hands out permits at one per interval_ and     *)
(* keeps those nobody asked for, up to maxPermits_.  A caller does not     *)
(* wait for the permits it takes but for the debt of the caller before it. *)
(* Time is in ticks of the clock, which does not go back.                  *)
(***************************************************************************)
EXTENDS Integers

CONSTANTS
  Second,  \* ticks in a second: a million microseconds in the code
  Rate,    \* permits per second of all limiters together
  Shares   \* the limiters that share it

(* The constructor's assertion, without which there would be no interval   *)
(* to divide by.                                                           *)
ASSUME RateAssumption ==
  /\ {Second, Rate, Shares} \subseteq Nat \ {0}
  /\ Rate < Second * Shares

MutantWholeRate == Second \div Rate

(* interval_: ticks between two permits.  What is cut off makes a limiter  *)
(* faster than its rate.                                                   *)
Interval == (Second * Shares) \div Rate

(* maxPermits_, as the long that std::min<long> makes of it: a rate below  *)
(* one permit per second keeps none.                                       *)
MaxPermits == Rate \div Shares

(* The state of a limiter. *)
Limiters == [storedPermits : 0 .. MaxPermits, nextFree : Nat]

NewLimiter == [storedPermits |-> 0, nextFree |-> 0]

Lesser(a, b) == IF a < b THEN a ELSE b

MutantUncapped(earned) == earned

Capped(earned) == Lesser(MaxPermits, earned)

(* What was free since nextFree_ is stored, a part of an interval is lost. *)
Refill(limiter, now) ==
  IF now > limiter.nextFree
    THEN [storedPermits |-> Capped(limiter.storedPermits
                                     + (now - limiter.nextFree) \div Interval),
          nextFree |-> now]
    ELSE limiter

(* aquire(1) leaves the limiter in this state ... *)
Spend(limiter, now) ==
  LET full   == Refill(limiter, now)
      stored == Lesser(1, full.storedPermits)
      fresh  == 1 - stored
  IN  [storedPermits |-> full.storedPermits - stored,
       nextFree |-> full.nextFree + fresh * Interval]

(* ... and its caller asleep until this time. *)
FreeAt(limiter, now) == Refill(limiter, now).nextFree
=============================================================================
