---------------------------- MODULE ProtocolTime ----------------------------
(***************************************************************************)
(* Protocol instants and what one node's clock can say about a deadline    *)
(* (src/src/domain/time/mod.rs).  An instant is a number of seconds that   *)
(* saturates at MaxSecond, u64::MAX in the code; two honest clocks differ  *)
(* by at most Skew, MAX_CLOCK_SKEW_SECONDS.                                *)
(***************************************************************************)
EXTENDS Integers

CONSTANTS MaxSecond, Skew

ASSUME TimeConstants == MaxSecond \in Nat /\ Skew \in Nat

Timestamp == 0 .. MaxSecond

saturating_add(a, b) == IF a + b > MaxSecond THEN MaxSecond ELSE a + b

plus_secs(at, seconds) == saturating_add(at, seconds)

\* now has passed the deadline by more than any honest clock could differ
certainly_after(now, deadline) == now > saturating_add(deadline, Skew)

\* the deadline is still ahead by more than any honest clock could differ
certainly_before(now, deadline) == saturating_add(now, Skew) < deadline

uncertain_about(now, deadline) ==
    ~certainly_after(now, deadline) /\ ~certainly_before(now, deadline)

\* Two readings that honest clocks may show at the same instant.
WithinSkew(a, b) == a - b <= Skew /\ b - a <= Skew

=============================================================================
