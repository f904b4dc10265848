------------------------------ MODULE GatedFeed ------------------------------
(***************************************************************************)
(* What a driver node promises its subscribers: sentences leave through a  *)
(* gate, the lifecycle publishers.  A burst of sentences is accepted only  *)
(* while the gate is open, every sentence of it goes out through the open  *)
(* gate, and the gate shuts only when nothing accepted is waiting.         *)
(***************************************************************************)
EXTENDS Naturals

CONSTANT Burst          \* the most sentences accepted at once

VARIABLES gate,         \* "shut" or "open"
          pending       \* sentences accepted and not yet published

feedVars == <<gate, pending>>

FeedInit == gate = "shut" /\ pending = 0

Open    == gate = "shut" /\ gate' = "open" /\ UNCHANGED pending
Accept  == gate = "open" /\ pending = 0 /\ pending' \in 1 .. Burst /\ UNCHANGED gate
Publish == gate = "open" /\ pending > 0 /\ pending' = pending - 1 /\ UNCHANGED gate
Shut    == gate = "open" /\ pending = 0 /\ gate' = "shut" /\ UNCHANGED pending

FeedNext == Open \/ Accept \/ Publish \/ Shut

(* What was accepted is published: WF of Publish, and of nothing else. *)
Spec == FeedInit /\ [][FeedNext]_feedVars /\ WF_feedVars(Publish)
=============================================================================
