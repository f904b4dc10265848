----------------------------- MODULE RateWindow -----------------------------
(***************************************************************************)
(* The arrival times from which both health evaluators take a rate         *)
(* (gps_health_evaluator.cpp and lidar_health_evaluator.cpp do the same).  *)
(***************************************************************************)
EXTENDS Integers, Sequences

CONSTANTS
  Window,        \* the rate window, from a count of expected periods
  SlowPeriod     \* 1 / (expected_rate_hz * min_rate_ratio)

ASSUME WindowAssumption == Window \in Nat \ {0} /\ SlowPeriod \in Nat \ {0}

Larger(a, b) == IF a > b THEN a ELSE b
First(S)     == CHOOSE i \in S : \A j \in S : i <= j

(* Mutant: an `if' for the `while' that pops the old arrivals. *)
PrunedOne(s, stamp) ==
  IF Len(s) > 1 /\ stamp - s[1] > Window THEN Tail(s) ELSE s

(* Arrivals older than the window are popped from the front, but never the *)
(* last one, and none behind one that is young enough.                     *)
Pruned(s, stamp) ==
  LET kept == {i \in 1 .. Len(s) : i = Len(s) \/ stamp - s[i] <= Window}
  IN  SubSeq(s, First(kept), Len(s))

(* rateHz(now) < expected_rate_hz * min_rate_ratio, over the integers.     *)
(* Measured up to now; no span is a rate of zero.                          *)
RateTooLow(s, now) ==
  LET span == Larger(now, s[Len(s)]) - s[1] IN
  \/ span <= 0
  \/ (Len(s) - 1) * SlowPeriod < span
=============================================================================
