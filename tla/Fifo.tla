-------------------------------- MODULE Fifo --------------------------------
(***************************************************************************)
(* What a queue between two threads promises: values come out in the       *)
(* order they went in, each once, one or a batch at a time; a value is     *)
(* refused only when Bound values wait, and what waits is eventually       *)
(* taken.                                                                  *)
(***************************************************************************)
EXTENDS Naturals, Sequences

CONSTANTS Values, Bound

VARIABLES
  items,    \* the values waiting
  out,      \* the batch taken last
  refused   \* the last value put was refused

vars == <<items, out, refused>>

Init == items = <<>> /\ out = <<>> /\ refused = FALSE

Put(v) ==
  /\ Len(items) < Bound
  /\ items' = Append(items, v) /\ refused' = FALSE
  /\ UNCHANGED out

Refuse ==
  /\ Len(items) >= Bound
  /\ refused' = TRUE
  /\ UNCHANGED <<items, out>>

Take ==
  \E k \in 1 .. Len(items) :
    /\ out' = SubSeq(items, 1, k)
    /\ items' = SubSeq(items, k + 1, Len(items))
    /\ UNCHANGED refused

Next == Refuse \/ Take \/ \E v \in Values : Put(v)

Spec == Init /\ [][Next]_vars /\ WF_vars(Take)
=============================================================================
