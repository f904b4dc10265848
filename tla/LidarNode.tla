------------------------------ MODULE LidarNode ------------------------------
(***************************************************************************)
(* The lidar node (rover_rs16_lidar_node.cpp), the source it builds on     *)
(* every activate (rs_driver_lidar_source.cpp) and the part of rs_driver   *)
(* the source runs (lidar_driver_impl.hpp).                                *)
(*                                                                         *)
(* Three threads: the executor (`ctl', one lifecycle callback or timer at  *)
(* a time), rs_driver's handle thread (`dec'), which decodes packets into  *)
(* point clouds, and the source's worker (`wrk'), which converts and       *)
(* publishes them.  Clouds cycle between the two through two queues.  A    *)
(* cloud buffer is a number; `points' says which revolution's points it    *)
(* holds.                                                                  *)
(***************************************************************************)
EXTENDS Naturals, Sequences, SequencesExt

CONSTANTS
  QueueCap,    \* clouds a SyncQueue holds
  MaxPackets,  \* packets waiting to be decoded
  MaxFrames,   \* revolutions per activation
  MaxStale     \* diagnostic tasks left behind by earlier configurations

ASSUME LimitsAssumption ==
  /\ QueueCap \in Nat \ {0} /\ MaxPackets \in Nat \ {0}
  /\ MaxFrames \in Nat /\ MaxStale \in Nat

VARIABLES
  lstate,      \* primary lifecycle state; "destroyed", "terminated"
  call, ctl,   \* lifecycle callback in progress and its next statement
  publishers,  \* cloud_publisher_ and scan_publisher_
  task,        \* the health publisher's task in diagnostic_updater_ is there
  stale,       \* tasks in it whose publisher has been destroyed
  touched,     \* what the last diagnostics run called
  source,      \* source_: "none", "built", "inited", "started" (started)
  sockets,     \* the MSOP and DIFOP sockets
  grantable,   \* the system would let us bind both ports now
  feeding,     \* rs_driver's receive thread runs
  packets,     \* pkt_queue_: packets received and not yet decoded
  batch,       \* packets popped by the handle thread and not yet decoded
  decExit,     \* to_exit_handle_
  dec,         \* the handle thread
  cur,         \* decoder_ptr_->point_cloud_
  seq,         \* point_cloud_seq_
  stopping,    \* Impl::stopping
  wrk,         \* the worker
  inHand,      \* the worker's cloud
  frame,       \* the revolution in the worker's PointCloudFrame
  free, filled,\* free_clouds, filled_clouds
  points,      \* revolution whose points a buffer holds, 0 when cleared
  published    \* the last revolution published in this activation

nodeVars   == <<lstate, call, ctl, publishers>>
diagVars   == <<task, stale, touched>>
openVars   == <<source, sockets, grantable>>
decVars    == <<batch, dec, cur, seq>>
workVars   == <<wrk, inHand, frame, published>>
flagVars   == <<feeding, decExit, stopping>>
cloudVars  == <<free, filled, points>>
vars == <<nodeVars, diagVars, openVars, packets, decVars, workVars, flagVars, cloudVars>>

Clouds   == 1 .. QueueCap + 3   \* both queues' worth are never out at once
NoCloud  == 0

Init ==
  /\ lstate = "unconfigured" /\ call = "none" /\ ctl = "idle"
  /\ publishers = "none" /\ task = FALSE /\ stale = 0 /\ touched = "none"
  /\ source = "none" /\ sockets = "closed" /\ grantable \in BOOLEAN
  /\ feeding = FALSE /\ packets = 0 /\ batch = 0 /\ decExit = FALSE
  /\ dec = "none" /\ cur = NoCloud /\ seq = 1
  /\ stopping = FALSE /\ wrk = "none" /\ inHand = NoCloud /\ frame = 0
  /\ free = <<>> /\ filled = <<>> /\ points = [c \in Clouds |-> 0]
  /\ published = 0

-----------------------------------------------------------------------------
(* SyncQueue, whose callers ignore that push() drops on a full queue.      *)
Push(q, c) == IF Len(q) < QueueCap THEN Append(q, c) ELSE q

InUse == ToSet(free) \cup ToSet(filled) \cup {cur, inHand}

(* Mutant: acquireCloud hands out the last submitted cloud again.          *)
AcquiredAgain == IF free # <<>> THEN Head(free)
                 ELSE IF filled # <<>> THEN Last(filled)
                 ELSE CHOOSE c \in Clouds : c \notin InUse /\ \A d \in 1 .. c - 1 : d \in InUse

(* acquireCloud: a free cloud, or a new one. *)
Acquired == IF free # <<>> THEN Head(free)
            ELSE CHOOSE c \in Clouds : c \notin InUse /\ \A d \in 1 .. c - 1 : d \in InUse

FreeAfter == IF free # <<>> THEN Tail(free) ELSE free

Idle        == ctl = "idle" /\ lstate \notin {"destroyed", "terminated"}
Enter(c, s) == call' = c /\ ctl' = s
Finish(s)   == call' = "none" /\ ctl' = "idle" /\ lstate' = s

(* Destroying the source closes the sockets and drops its queues.          *)
SourceGone ==
  /\ source' = "none" /\ sockets' = "closed"
  /\ packets' = 0 /\ batch' = 0 /\ cur' = NoCloud /\ seq' = 1
  /\ published' = 0
  /\ free' = <<>> /\ filled' = <<>> /\ points' = [c \in Clouds |-> 0]

-----------------------------------------------------------------------------
(* Lifecycle callbacks. *)

(* The whole of on_configure; the last tick is LidarHealth's.              *)
Configure ==
  /\ Idle /\ lstate = "unconfigured" /\ stale < MaxStale
  /\ lstate' = "inactive" /\ publishers' = "inactive" /\ task' = TRUE
  /\ UNCHANGED <<call, ctl, stale, touched, openVars, packets, decVars, workVars, flagVars, cloudVars>>

(* A publisher cannot be created: what was built so far is kept. *)
ConfigureThrows ==
  /\ Idle /\ lstate = "unconfigured" /\ stale < MaxStale
  /\ lstate' = "finalized" /\ publishers' \in {"none", "inactive"} /\ task' = TRUE
  /\ UNCHANGED <<call, ctl, stale, touched, openVars, packets, decVars, workVars, flagVars, cloudVars>>

Request(c, from, at) ==
  /\ Idle /\ lstate \in from
  /\ Enter(c, at)
  /\ UNCHANGED <<lstate, publishers, diagVars, openVars, packets, decVars, workVars, flagVars, cloudVars>>

(* closeSource() starts with stop(), which does nothing for a source that  *)
(* has not started, as in every state but active.                          *)
Closing == IF source = "started" THEN "unfeed" ELSE "reset"

(* Mutant: the publishers are disabled before the source is closed.        *)
DeactivatePublishersFirst ==
  /\ Idle /\ lstate = "active"
  /\ Enter("deactivate", Closing) /\ publishers' = "inactive"
  /\ UNCHANGED <<lstate, diagVars, openVars, packets, decVars, workVars, flagVars, cloudVars>>

Activate   == Request("activate", {"inactive"}, "pubon")
Deactivate == Request("deactivate", {"active"}, Closing)
Cleanup    == Request("cleanup", {"inactive"}, Closing)
Shutdown   == Request("shutdown", {"unconfigured", "inactive", "active"}, Closing)
Destroy    == Request("destroy", {"unconfigured", "inactive", "active", "finalized"}, Closing)

(* "Publishers first, so the first frame from the source is never dropped" *)
ActivatePublishers ==
  /\ ctl = "pubon"
  /\ publishers' = "active" /\ source' = "built" /\ ctl' = "init"
  /\ UNCHANGED <<lstate, call, diagVars, sockets, grantable, packets, decVars, workVars,
                 flagVars, cloudVars>>

(* A driver.init() that succeeds: the sockets are bound, and the decoder   *)
(* has its first cloud.                                                    *)
DriverInit ==
  /\ grantable /\ sockets' = "open"
  /\ cur' = Acquired /\ free' = FreeAfter

(* The source's start() up to driver.init(), which fails when a port is    *)
(* taken; start() throws then.                                             *)
SourceInit ==
  /\ ctl = "init"
  /\ \/ DriverInit /\ source' = "inited" /\ ctl' = "spawn"
     \/ /\ ~grantable
        /\ ctl' = "undo" /\ UNCHANGED <<sockets, source, cur, free>>
  /\ UNCHANGED <<lstate, call, publishers, diagVars, grantable, packets, batch, dec, seq,
                 workVars, flagVars, filled, points>>

SpawnWorker ==
  /\ ctl = "spawn"
  /\ stopping' = FALSE
  /\ \/ wrk' = "test" /\ ctl' = "drive"
     \/ wrk' = wrk /\ ctl' = "undo"         \* std::thread throws
  /\ UNCHANGED <<lstate, call, publishers, diagVars, openVars, packets, decVars, inHand, frame,
                 published, feeding, decExit, cloudVars>>

(* driver.start(): one of its two threads may not start.  The exception    *)
(* leaves `started' false with the worker running, so closeSource destroys *)
(* a joinable thread and the process terminates.                           *)
StartDriver ==
  /\ ctl = "drive"
  /\ \/ /\ decExit' = FALSE /\ dec' = "test" /\ feeding' = TRUE
        /\ source' = "started" /\ Finish("active")
        /\ UNCHANGED wrk
     \/ /\ Finish("terminated") /\ wrk' = "none"
        /\ UNCHANGED <<decExit, dec, feeding, source>>
  /\ UNCHANGED <<publishers, diagVars, sockets, grantable, packets, batch, cur, seq,
                 inHand, frame, published, stopping, cloudVars>>

(* The catch block of on_activate. *)
ActivateUndo ==
  /\ ctl = "undo"
  /\ SourceGone
  /\ publishers' = "inactive" /\ Finish("inactive")
  /\ UNCHANGED <<diagVars, grantable, dec, wrk, inHand, frame, flagVars>>

(* driver.stop(): the receive thread first, then the handle thread. *)
StopFeeding ==
  /\ ctl = "unfeed"
  /\ feeding' = FALSE /\ ctl' = "exit"
  /\ UNCHANGED <<lstate, call, publishers, diagVars, openVars, packets, decVars, workVars,
                 decExit, stopping, cloudVars>>

StopDecoder ==
  /\ ctl = "exit"
  /\ decExit' = TRUE /\ ctl' = "djoin"
  /\ UNCHANGED <<lstate, call, publishers, diagVars, openVars, packets, decVars, workVars,
                 feeding, stopping, cloudVars>>

JoinDecoder ==
  /\ ctl = "djoin" /\ dec = "done"
  /\ dec' = "none" /\ points' = [points EXCEPT ![cur] = 0] /\ ctl' = "flag"
  /\ UNCHANGED <<lstate, call, publishers, diagVars, openVars, packets, batch, cur, seq,
                 workVars, flagVars, free, filled>>

(* Mutant: the worker is asked to stop but not waited for.                 *)
StopWorkerDetached ==
  /\ ctl = "flag"
  /\ stopping' = TRUE /\ ctl' = "reset"
  /\ UNCHANGED <<lstate, call, publishers, diagVars, openVars, packets, decVars, workVars,
                 feeding, decExit, cloudVars>>

StopWorker ==
  /\ ctl = "flag"
  /\ stopping' = TRUE /\ ctl' = "wjoin"
  /\ UNCHANGED <<lstate, call, publishers, diagVars, openVars, packets, decVars, workVars,
                 feeding, decExit, cloudVars>>

JoinWorker ==
  /\ ctl = "wjoin" /\ wrk = "done"
  /\ wrk' = "none" /\ frame' = 0 /\ ctl' = "reset"
  /\ UNCHANGED <<lstate, call, publishers, diagVars, openVars, packets, decVars, inHand,
                 published, flagVars, cloudVars>>

(* Mutant: a deactivated node keeps its source for the next activation.    *)
ResetSourceKept ==
  /\ ctl = "reset"
  /\ ctl' = IF call = "deactivate" THEN "puboff" ELSE "drop"
  /\ UNCHANGED <<lstate, call, publishers, diagVars, openVars, packets, decVars, workVars,
                 flagVars, cloudVars>>

ResetSource ==
  /\ ctl = "reset"
  /\ SourceGone
  /\ ctl' = IF call = "deactivate" THEN "puboff" ELSE "drop"
  /\ UNCHANGED <<lstate, call, publishers, diagVars, grantable, dec, wrk, inHand, frame, flagVars>>

(* The tail of on_deactivate. *)
PublishersOff ==
  /\ ctl = "puboff"
  /\ publishers' = "inactive" /\ Finish("inactive")
  /\ UNCHANGED <<diagVars, openVars, packets, decVars, workVars, flagVars, cloudVars>>

(* releasePipeline(): the health publisher goes, its task stays in the     *)
(* updater.                                                                *)
ReleasePipeline ==
  /\ ctl = "drop"
  /\ publishers' = "none" /\ task' = FALSE
  /\ stale' = IF task THEN stale + 1 ELSE stale
  /\ Finish(CASE call = "cleanup"  -> "unconfigured"
              [] call = "shutdown" -> "finalized"
              [] OTHER             -> "destroyed")
  /\ UNCHANGED <<touched, openVars, packets, decVars, workVars, flagVars, cloudVars>>

(* The updater's timer, which runs in every state of the node, calls every *)
(* task it was ever given.  A task whose publisher is gone is a call into  *)
(* freed memory.                                                           *)
Diagnose ==
  /\ Idle
  /\ touched' = IF stale > 0 THEN "destroyed" ELSE IF task THEN "living" ELSE "none"
  /\ UNCHANGED <<nodeVars, task, stale, openVars, packets, decVars, workVars, flagVars, cloudVars>>

-----------------------------------------------------------------------------
(* processPacket, on rs_driver's handle thread. *)

DecUnchanged == UNCHANGED <<nodeVars, diagVars, openVars, workVars, flagVars>>

(* Mutant: the handle thread does not look at to_exit_handle_ again.       *)
DecTestForever ==
  /\ dec = "test"
  /\ dec' = "pop"
  /\ DecUnchanged /\ UNCHANGED <<packets, batch, cur, seq, cloudVars>>

DecTest ==
  /\ dec = "test"
  /\ dec' = IF decExit THEN "done" ELSE "pop"
  /\ DecUnchanged /\ UNCHANGED <<packets, batch, cur, seq, cloudVars>>

(* popBatch takes what is there, or gives up after half a second.          *)
DecPop ==
  /\ dec = "pop"
  /\ batch' = packets /\ packets' = 0
  /\ dec' = IF packets = 0 THEN "test" ELSE "packet"
  /\ DecUnchanged /\ UNCHANGED <<cur, seq, cloudVars>>

(* One packet: it may carry no point, it adds points to the current cloud, *)
(* or it first completes a revolution; a cloud without points is not one.  *)
DecPacket ==
  /\ dec = "packet" /\ batch > 0
  /\ \/ batch' = batch - 1 /\ UNCHANGED <<dec, points>>
     \/ batch' = batch - 1 /\ points' = [points EXCEPT ![cur] = seq] /\ UNCHANGED dec
     \/ points[cur] # 0 /\ seq <= MaxFrames /\ dec' = "submit" /\ UNCHANGED <<batch, points>>
  /\ DecUnchanged /\ UNCHANGED <<packets, cur, seq, free, filled>>

DecBatchDone ==
  /\ dec = "packet" /\ batch = 0
  /\ dec' = "test"
  /\ DecUnchanged /\ UNCHANGED <<packets, batch, cur, seq, cloudVars>>

(* splitFrame: the cloud gets its sequence number and goes to submitCloud, *)
(* then another is acquired and cleared.                                   *)
DecSubmit ==
  /\ dec = "submit"
  /\ filled' = Push(filled, cur) /\ seq' = seq + 1
  /\ dec' = "acquire"
  /\ DecUnchanged /\ UNCHANGED <<packets, batch, cur, free, points>>

DecAcquire ==
  /\ dec = "acquire"
  /\ cur' = Acquired /\ free' = FreeAfter
  /\ points' = [points EXCEPT ![cur'] = 0]
  /\ dec' = "packet"
  /\ DecUnchanged /\ UNCHANGED <<packets, batch, seq, filled>>

-----------------------------------------------------------------------------
(* Impl::run, on the source's worker thread. *)

WrkUnchanged == UNCHANGED <<nodeVars, diagVars, openVars, packets, decVars, flagVars>>

WrkTest ==
  /\ wrk = "test"
  /\ wrk' = IF stopping THEN "done" ELSE "wait"
  /\ WrkUnchanged /\ UNCHANGED <<inHand, frame, published, cloudVars>>

(* Mutant: a worker that waited in vain returns, a `break' for `continue'. *)
WrkWaitQuits ==
  /\ wrk = "wait"
  /\ IF filled = <<>> THEN wrk' = "done" /\ UNCHANGED <<inHand, filled>>
     ELSE wrk' = "convert" /\ inHand' = Head(filled) /\ filled' = Tail(filled)
  /\ WrkUnchanged /\ UNCHANGED <<frame, published, free, points>>

(* Mutant: the cloud is given back before it has been converted.           *)
WrkWaitRecycles ==
  /\ wrk = "wait"
  /\ IF filled = <<>> THEN wrk' = "test" /\ UNCHANGED <<inHand, filled, free>>
     ELSE /\ wrk' = "convert" /\ inHand' = Head(filled) /\ filled' = Tail(filled)
          /\ free' = Push(free, Head(filled))
  /\ WrkUnchanged /\ UNCHANGED <<frame, published, points>>

(* popWait, at most kQueueWaitUs. *)
WrkWait ==
  /\ wrk = "wait"
  /\ IF filled = <<>> THEN wrk' = "test" /\ UNCHANGED <<inHand, filled>>
     ELSE wrk' = "convert" /\ inHand' = Head(filled) /\ filled' = Tail(filled)
  /\ WrkUnchanged /\ UNCHANGED <<frame, published, free, points>>

WrkConvert ==
  /\ wrk = "convert"
  /\ frame' = points[inHand] /\ wrk' = "publish"
  /\ WrkUnchanged /\ UNCHANGED <<inHand, published, cloudVars>>

(* onFrame: cloud, scan and health sample. *)
WrkPublish ==
  /\ wrk = "publish"
  /\ published' = frame /\ wrk' = "recycle"
  /\ WrkUnchanged /\ UNCHANGED <<inHand, frame, cloudVars>>

WrkRecycle ==
  /\ wrk = "recycle"
  /\ points' = [points EXCEPT ![inHand] = 0]
  /\ free' = Push(free, inHand) /\ inHand' = NoCloud
  /\ wrk' = "test"
  /\ WrkUnchanged /\ UNCHANGED <<frame, published, filled>>

-----------------------------------------------------------------------------
(* The network. *)

Receive ==
  /\ feeding /\ packets < MaxPackets
  /\ packets' = packets + 1
  /\ UNCHANGED <<nodeVars, diagVars, openVars, decVars, workVars, flagVars, cloudVars>>

Contend ==
  /\ sockets = "closed"
  /\ grantable' = ~grantable
  /\ UNCHANGED <<nodeVars, diagVars, source, sockets, packets, decVars, workVars, flagVars, cloudVars>>

CtlRequest == Configure \/ ConfigureThrows \/ Activate \/ Deactivate
                \/ Cleanup \/ Shutdown \/ Destroy
CtlStep == ActivatePublishers \/ SourceInit \/ SpawnWorker \/ StartDriver \/ ActivateUndo
             \/ StopFeeding \/ StopDecoder \/ JoinDecoder \/ StopWorker \/ JoinWorker
             \/ ResetSource \/ PublishersOff \/ ReleasePipeline
DecStep == DecTest \/ DecPop \/ DecPacket \/ DecBatchDone \/ DecSubmit \/ DecAcquire
WrkStep == WrkTest \/ WrkWait \/ WrkConvert \/ WrkPublish \/ WrkRecycle

Next == CtlRequest \/ CtlStep \/ Diagnose \/ DecStep \/ WrkStep \/ Receive \/ Contend

(* The three threads are scheduled, none of their waits is without a       *)
(* timeout but the joins, and the packets of a batch are finitely many.    *)
Spec == Init /\ [][Next]_vars /\ WF_vars(CtlStep) /\ WF_vars(DecStep) /\ WF_vars(WrkStep)

-----------------------------------------------------------------------------
(* "the sensor is opened in on_activate and closed in on_deactivate"       *)
(* (rover_rs16_lidar/README.md:24): between callbacks, a node that is not  *)
(* active has no socket, no source and no thread.                          *)
SocketsReleased ==
  ctl = "idle" /\ lstate \notin {"active", "terminated"} =>
    sockets = "closed" /\ source = "none" /\ dec = "none" /\ wrk = "none" /\ ~feeding

(* A source is destroyed only when neither of its threads is left.         *)
NoThreadAbandoned ==
  ctl \in {"reset", "undo"} => dec = "none" /\ wrk = "none" /\ ~feeding

(* "Buffers cycle between the two" (rs_driver_lidar_source.cpp:52): a      *)
(* cloud is in one place at a time, so the decoder never writes one that   *)
(* the worker reads or that waits to be read.  Between submitting a cloud  *)
(* and acquiring the next, the decoder still points to the one it gave up. *)
CloudsOwnedOnce ==
  LET held == (IF dec = "acquire" THEN {} ELSE {cur}) \ {NoCloud} IN
  /\ IsInjective(free \o filled)
  /\ (held \cup {inHand}) \cap ToSet(free \o filled) = {}
  /\ inHand \notin held

(* What is published is a revolution later than every one before it: none  *)
(* twice, none out of order, none overwritten or cleared on the way.       *)
RevolutionsInOrder == wrk = "publish" => frame > published

(* Every callback returns: the joins wait for loops that test their flags. *)
CallbacksReturn == (call # "none") ~> (call = "none")

(* A revolution in the queue is published, unless the node leaves active.  *)
RevolutionsDelivered ==
  \A r \in 1 .. MaxFrames :
    (\E c \in ToSet(filled) : points[c] = r) ~> (published >= r \/ source # "started" \/ stopping)

(* "Close the source before disabling the publishers, so its thread can    *)
(* never publish into a deactivated publisher" (rover_rs16_lidar_node.cpp  *)
(* :335), and what it has started to publish goes out: the node is a gated *)
(* feed of single frames.                                                  *)
Feed == INSTANCE GatedFeed WITH
          gate    <- IF publishers = "active" THEN "open" ELSE "shut",
          pending <- IF wrk = "publish" THEN 1 ELSE 0,
          Burst   <- 1
FeedSpec == Feed!Spec

(* "Health diagnostics run from configure to cleanup"                      *)
(* (rover_rs16_lidar_node.hpp:45): the updater never calls a health        *)
(* publisher that cleanup has destroyed.                                   *)
DiagnosesLiving == touched # "destroyed"
=============================================================================
