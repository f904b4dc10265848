--------------------------- MODULE MCNmeaPipeline ---------------------------
(* Qualities of the three kinds of fix, SPS, DGPS and RTK fixed, and one     *)
(* outside the table; the two error estimates a GST can carry are            *)
(* interchangeable.                                                          *)
EXTENDS NmeaPipeline, TLC

MCQualities == {1, 2, 4, 7}
MCSymmetry  == Permutations(Readings)
=============================================================================
