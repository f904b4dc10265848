------------------------------ MODULE SyncQueue ------------------------------
(***************************************************************************)
(* rs_driver's SyncQueue (sync_queue.hpp): a ring between one producer and *)
(* one consumer, without a lock.  Each access to head_ and tail_ is a step *)
(* of its own, and so is each access to a slot.  pop() and popWait() are   *)
(* popBatch() of one.  clear() is called by the producer of the packet     *)
(* queue when a push fails (packetPut); the queues of clouds are never     *)
(* cleared.                                                                *)
(*                                                                         *)
(* The values pushed are the numbers 1, 2, ...; 0 is the default value a   *)
(* slot holds before its first use, a null pointer.                        *)
(***************************************************************************)
EXTENDS Naturals, Sequences

CONSTANTS
  Capacity,     \* slots of the ring, of which one stays free
  MaxBatch,     \* values a consumer takes at once
  Clearing,     \* is the queue cleared when it is full? the values tried
  MaxPush       \* bound on the values pushed

ASSUME RingAssumption ==
  /\ Capacity \in Nat /\ Capacity >= 2
  /\ MaxBatch \in Nat /\ MaxBatch >= 1
  /\ Clearing \subseteq BOOLEAN /\ MaxPush \in Nat

VARIABLES
  clears,                 \* the producer clears the queue when it is full
  buffer, head, tail,
  prod, pushed,           \* the producer; values pushed so far
  refused,                \* the last push returned -1
  cons, cHead, want,      \* the consumer, its current_head and real_count
  batch, out,             \* what it has copied; what it took last
  cleared                 \* clear() has been called

ringVars == <<buffer, head, tail>>
prodVars == <<clears, prod, pushed, refused, cleared>>
consVars == <<clears, cons, cHead, want, batch, out>>
vars     == <<ringVars, prodVars, consVars>>

Slots  == 0 .. Capacity - 1
Values == 1 .. MaxPush
Null   == 0

(* The variables' types: no index leaves the ring.                         *)
TypeOK ==
  /\ buffer \in [Slots -> Values \cup {Null}]
  /\ head \in Slots /\ tail \in Slots
  /\ prod \in {"idle", "write", "store", "clear", "clearHead", "clearTail"}
  /\ pushed \in 0 .. MaxPush /\ (prod # "idle" => pushed \in Values)
  /\ clears \in BOOLEAN /\ refused \in BOOLEAN /\ cleared \in BOOLEAN
  /\ cons \in {"idle", "tail", "copy"}
  /\ cHead \in Slots /\ want \in 0 .. Capacity - 1
  /\ batch \in Seq(Values \cup {Null}) /\ out \in Seq(Values \cup {Null})

(* (i) % Capacity, for i at most one round ahead. *)
Wrap(i) == IF i < Capacity THEN i ELSE i - Capacity

(* The number of values from h to t. *)
Fill(h, t) == IF t >= h THEN t - h ELSE Capacity - h + t

Init ==
  /\ clears \in Clearing
  /\ buffer = [s \in Slots |-> Null] /\ head = 0 /\ tail = 0
  /\ prod = "idle" /\ pushed = 0 /\ refused = FALSE /\ cleared = FALSE
  /\ cons = "idle" /\ cHead = 0 /\ want = 0
  /\ batch = <<>> /\ out = <<>>

-----------------------------------------------------------------------------
(* Mutant: the ring is full only when every slot is in use. *)
PushTestLate ==
  /\ prod = "idle" /\ pushed < MaxPush
  /\ pushed' = pushed + 1
  /\ prod' = "write" /\ UNCHANGED refused
  /\ UNCHANGED <<cleared, ringVars, consVars>>

(* push: the room is tested against head_ once. *)
PushTest ==
  /\ prod = "idle" /\ pushed < MaxPush
  /\ pushed' = pushed + 1
  /\ IF Wrap(tail + 1) = head
       THEN refused' = TRUE  /\ prod' = IF clears THEN "clear" ELSE "idle"
       ELSE prod' = "write" /\ UNCHANGED refused
  /\ UNCHANGED <<cleared, ringVars, consVars>>

PushWrite ==
  /\ prod = "write"
  /\ buffer' = [buffer EXCEPT ![tail] = pushed]
  /\ prod' = "store"
  /\ UNCHANGED <<head, tail, pushed, refused, cleared, consVars>>

(* Mutant: tail_ runs off the end of the ring. *)
PushStoreFlat ==
  /\ prod = "store"
  /\ tail' = tail + 1 /\ refused' = FALSE
  /\ prod' = "idle"
  /\ UNCHANGED <<buffer, head, pushed, cleared, consVars>>

PushStore ==
  /\ prod = "store"
  /\ tail' = Wrap(tail + 1) /\ refused' = FALSE
  /\ prod' = "idle"
  /\ UNCHANGED <<buffer, head, pushed, cleared, consVars>>

(* clear() stores both indices relaxed: the consumer may see either first. *)
ClearHead ==
  /\ prod \in {"clear", "clearHead"}
  /\ head' = 0 /\ cleared' = TRUE
  /\ prod' = IF prod = "clear" THEN "clearTail" ELSE "idle"
  /\ UNCHANGED <<buffer, tail, pushed, refused, consVars>>

ClearTail ==
  /\ prod \in {"clear", "clearTail"}
  /\ tail' = 0 /\ cleared' = TRUE
  /\ prod' = IF prod = "clear" THEN "clearHead" ELSE "idle"
  /\ UNCHANGED <<buffer, head, pushed, refused, consVars>>

-----------------------------------------------------------------------------
(* popBatch: head_, tail_, the slots, head_. *)
PopHead ==
  /\ cons = "idle"
  /\ cHead' = head /\ cons' = "tail"
  /\ UNCHANGED <<want, batch, out, ringVars, prodVars>>

PopTail ==
  /\ cons = "tail"
  /\ want' = IF Fill(cHead, tail) < MaxBatch THEN Fill(cHead, tail) ELSE MaxBatch
  /\ cons' = IF want' = 0 THEN "idle" ELSE "copy"
  /\ UNCHANGED <<cHead, batch, out, ringVars, prodVars>>

PopCopy ==
  /\ cons = "copy" /\ Len(batch) < want
  /\ batch' = Append(batch, buffer[Wrap(cHead + Len(batch))])
  /\ UNCHANGED <<cons, cHead, want, out, ringVars, prodVars>>

(* Mutant: a batch advances head_ by one. *)
PopStoreOne ==
  /\ cons = "copy" /\ Len(batch) = want
  /\ head' = Wrap(cHead + 1)
  /\ out' = batch /\ batch' = <<>> /\ cons' = "idle"
  /\ UNCHANGED <<buffer, tail, cHead, want, prodVars>>

PopStore ==
  /\ cons = "copy" /\ Len(batch) = want
  /\ head' = Wrap(cHead + want)
  /\ out' = batch /\ batch' = <<>> /\ cons' = "idle"
  /\ UNCHANGED <<buffer, tail, cHead, want, prodVars>>

Push == PushTest \/ PushWrite \/ PushStore \/ ClearHead \/ ClearTail
Pop  == PopHead \/ PopTail \/ PopCopy \/ PopStore
Next == Push \/ Pop

(* The consumer's thread keeps polling; the producer may stop. *)
Spec == Init /\ [][Next]_vars /\ WF_vars(Pop)

-----------------------------------------------------------------------------
Filled == Fill(head, tail)

(* The inductive invariant of a queue that is never cleared: while the     *)
(* producer fills a slot it is outside what the consumer may read, and     *)
(* what the consumer has copied is still what the ring holds.              *)
ProducerOwnsTail ==
  /\ prod \in {"idle", "write", "store"}
  /\ prod # "idle" => Wrap(tail + 1) # head
  /\ prod = "store" => buffer[tail] = pushed
ConsumerOwnsHead ==
  /\ cons # "idle" => cHead = head
  /\ cons # "copy" => batch = <<>>
  /\ cons = "copy" => want \in 1 .. Filled /\ Len(batch) <= want
  /\ \A i \in 1 .. Len(batch) : batch[i] = buffer[Wrap(head + i - 1)]
NoNullWaits == \A i \in 1 .. Filled : buffer[Wrap(head + i - 1)] # Null

RingInv == ~clears => ProducerOwnsTail /\ ConsumerOwnsHead /\ NoNullWaits

(* A queue that is never cleared is a first-in first-out queue of          *)
(* Capacity - 1 values, whatever the interleaving of its two threads:      *)
(* nothing is lost, read half-written, taken twice or taken out of order,  *)
(* and a push is refused only when the queue is full.  A queue that is     *)
(* cleared is none: it is mapped to one that stays empty.                  *)
Queue == INSTANCE Fifo WITH
           items   <- IF clears THEN <<>>
                      ELSE [i \in 1 .. Filled |-> buffer[Wrap(head + i - 1)]],
           out     <- IF clears THEN <<>> ELSE out,
           refused <- ~clears /\ refused,
           Bound   <- Capacity - 1
FifoSpec   == Queue!Spec
FifoSafety == Queue!Init /\ [][Queue!Next]_(Queue!vars)

(* Until the first overflow a consumer of packets gets them in the order   *)
(* of arrival, without a null among them; clear() is all that can break    *)
(* that (packetPut, lidar_driver_impl.hpp:408).                            *)
Ascending(s) == \A i \in 1 .. Len(s) : s[i] # Null /\ (i > 1 => s[i - 1] < s[i])
OrderedUntilCleared ==
  [][out' # out /\ ~cleared' => Ascending(out \o out')]_vars
=============================================================================
