---------------------------- MODULE MCRevolutions ----------------------------
(* Two lasers, one of them skewed, a turn that is not a whole number of      *)
(* blocks or packets, and returns missing, too near and too far.             *)
EXTENDS Revolutions

MCCalibration == <<0, -1>>
MCWorld == [az \in 0 .. Turn - 1 |-> <<az, (az + 3) % Turn>>]

Setup(first, start, end, dense, tsFirst, lidarClock, waitDifop) ==
  [first |-> first, start |-> start, end |-> end, near |-> 1, far |-> 5, dense |-> dense,
   tsFirst |-> tsFirst, lidarClock |-> lidarClock, waitDifop |-> waitDifop]

MCSetups == {Setup(0, 0, Turn, FALSE, TRUE, FALSE, TRUE),
             Setup(3, 5, 2, TRUE, TRUE, TRUE, FALSE),
             Setup(5, 1, 4, FALSE, FALSE, FALSE, FALSE)}
=============================================================================
