--------------------------- MODULE GpsDriver_proofs ---------------------------
(* What GpsDriver guarantees for every buffer size and datagram length.      *)
EXTENDS GpsDriver, TLAPS

(* TypeOK in three parts, each kept by a lemma of its own.                   *)
PointsOK ==
  /\ lstate \in LifecycleStates /\ call \in Callbacks
  /\ ctl \in CtlPoints /\ rx \in RxPoints
  /\ fd \in {"closed", "open"} /\ publisher \in PublisherStates
FlagsOK    == running \in BOOLEAN /\ grantable \in BOOLEAN /\ ingest \in BOOLEAN
CountersOK == inbox \in 0 .. MaxInbox /\ left \in 0 .. MaxLines

(* TypeOK is its three parts: points and states, flags, counters.            *)
LEMMA TypeParts == TypeOK <=> PointsOK /\ FlagsOK /\ CountersOK
  BY DEF TypeOK, PointsOK, FlagsOK, CountersOK

(* Every step of the node keeps its program counters and states in range.    *)
LEMMA PointsStep == PointsOK /\ [Next]_vars => PointsOK'
<1> SUFFICES ASSUME PointsOK, [Next]_vars PROVE PointsOK'
  OBVIOUS
<1> USE DEF PointsOK, LifecycleStates, Callbacks, CtlPoints, RxPoints, PublisherStates,
            nodeVars, rxVars, netVars, Idle, Enter, Finish,
            OpenSucceeds, OpenFails, CloseSocket
<1>1. CASE CtlRequest
  BY <1>1 DEF CtlRequest, Configure, ConfigureThrows, Activate, Deactivate,
              Cleanup, Shutdown, Destroy
<1>2. CASE CtlStep
  BY <1>2 DEF CtlStep, ActivateOpen, ActivatePublisher, ActivateSpawn, ActivateLog,
              StopFlag, StopJoin, StopClose, PublisherOff, DropPipeline
<1>3. CASE RxStep
  BY <1>3 DEF RxStep, RxTest, RxCheck, RxOpen, RxSleep, RxReceive, RxFail, RxHandle
<1>4. CASE Arrive \/ Contend \/ UNCHANGED vars
  BY <1>4 DEF Arrive, Contend, vars
<1> QED BY <1>1, <1>2, <1>3, <1>4 DEF Next

(* Every step of the node keeps its flags Boolean.                           *)
LEMMA FlagsStep == FlagsOK /\ [Next]_vars => FlagsOK'
<1> SUFFICES ASSUME FlagsOK, [Next]_vars PROVE FlagsOK'
  OBVIOUS
<1> USE DEF FlagsOK, nodeVars
<1>1. CASE CtlRequest
  BY <1>1 DEF CtlRequest, Configure, ConfigureThrows, Activate, Deactivate,
              Cleanup, Shutdown, Destroy
<1>2. CASE CtlStep
  BY <1>2 DEF CtlStep, ActivateOpen, ActivatePublisher, ActivateSpawn, ActivateLog,
              StopFlag, StopJoin, StopClose, PublisherOff, DropPipeline
<1>3. CASE RxStep
  BY <1>3 DEF RxStep, RxTest, RxCheck, RxOpen, RxSleep, RxReceive, RxFail, RxHandle
<1>4. CASE Arrive \/ Contend \/ UNCHANGED vars
  BY <1>4 DEF Arrive, Contend, vars
<1> QED BY <1>1, <1>2, <1>3, <1>4 DEF Next

(* Every step of the node keeps its counters within their bounds.            *)
LEMMA CountersStep == CountersOK /\ [Next]_vars => CountersOK'
<1> SUFFICES ASSUME CountersOK, [Next]_vars PROVE CountersOK'
  OBVIOUS
<1> USE BoundsAssumption DEF CountersOK, rxVars, netVars, OpenSucceeds, OpenFails, CloseSocket
<1>1. CASE CtlRequest
  BY <1>1 DEF CtlRequest, Configure, ConfigureThrows, Activate, Deactivate,
              Cleanup, Shutdown, Destroy
<1>2. CASE CtlStep
  BY <1>2 DEF CtlStep, ActivateOpen, ActivatePublisher, ActivateSpawn, ActivateLog,
              StopFlag, StopJoin, StopClose, PublisherOff, DropPipeline
<1>3. CASE RxStep
  BY <1>3 DEF RxStep, RxTest, RxCheck, RxOpen, RxSleep, RxReceive, RxFail, RxHandle
<1>4. CASE Arrive \/ Contend \/ UNCHANGED vars
  BY <1>4 DEF Arrive, Contend, vars
<1> QED BY <1>1, <1>2, <1>3, <1>4 DEF Next

(* The node's variables keep their types: no action leaves a program counter,*)
(* a flag or a counter outside its range, whatever the buffer and datagram   *)
(* sizes.                                                                    *)
THEOREM TypeCorrect == Spec => []TypeOK
<1>1. Init => TypeOK
  <2> USE BoundsAssumption DEF Init
  <2>1. Init => PointsOK
    BY DEF PointsOK, LifecycleStates, Callbacks, CtlPoints, RxPoints, PublisherStates
  <2>2. Init => FlagsOK
    BY DEF FlagsOK
  <2>3. Init => CountersOK
    BY DEF CountersOK
  <2> QED BY <2>1, <2>2, <2>3, TypeParts
<1>2. TypeOK /\ [Next]_vars => TypeOK'
  BY PointsStep, FlagsStep, CountersStep, TypeParts DEF TypeOK, PointsOK, FlagsOK, CountersOK
<1> QED BY <1>1, <1>2, PTL DEF Spec

(* DriverInv is inductive: the receive thread lives only between the spawn   *)
(* and the join, and what it uses outlives it.                               *)
LEMMA DriverInvStep == PointsOK /\ DriverInv /\ [Next]_vars => DriverInv'
<1> SUFFICES ASSUME PointsOK, DriverInv, [Next]_vars PROVE DriverInv'
  OBVIOUS
<1> USE DEF DriverInv, PointsOK, LifecycleStates, Callbacks, CtlPoints, RxPoints,
            PublisherStates, nodeVars, rxVars, netVars
<1>1. CallShape'
  <2> USE DEF CallShape, Idle, Enter, Finish
  <2>1. CASE CtlRequest
    BY <2>1 DEF CtlRequest, Configure, ConfigureThrows, Activate, Deactivate,
                Cleanup, Shutdown, Destroy
  <2>2. CASE CtlStep
    BY <2>2 DEF CtlStep, ActivateOpen, ActivatePublisher, ActivateSpawn, ActivateLog,
                StopFlag, StopJoin, StopClose, PublisherOff, DropPipeline
  <2>3. CASE RxStep \/ Arrive \/ Contend \/ UNCHANGED vars
    BY <2>3 DEF RxStep, RxTest, RxCheck, RxOpen, RxSleep, RxReceive, RxFail, RxHandle,
                Arrive, Contend, vars
  <2> QED BY <2>1, <2>2, <2>3 DEF Next
<1>2. PipelineShape'
  <2> USE DEF CallShape, PipelineShape, Idle, Enter, Finish
  <2>1. CASE CtlRequest
    BY <2>1 DEF CtlRequest, Configure, ConfigureThrows, Activate, Deactivate,
                Cleanup, Shutdown, Destroy
  <2>2. CASE CtlStep
    BY <2>2 DEF CtlStep, ActivateOpen, ActivatePublisher, ActivateSpawn, ActivateLog,
                StopFlag, StopJoin, StopClose, PublisherOff, DropPipeline
  <2>3. CASE RxStep \/ Arrive \/ Contend \/ UNCHANGED vars
    BY <2>3 DEF RxStep, RxTest, RxCheck, RxOpen, RxSleep, RxReceive, RxFail, RxHandle,
                Arrive, Contend, vars
  <2> QED BY <2>1, <2>2, <2>3 DEF Next
<1>3. SocketShape'
  <2> USE DEF CallShape, PipelineShape, ThreadShape, Unjoined, SocketShape, Idle, Enter,
              Finish, OpenSucceeds, OpenFails, CloseSocket
  <2>1. CASE CtlRequest
    BY <2>1 DEF CtlRequest, Configure, ConfigureThrows, Activate, Deactivate,
                Cleanup, Shutdown, Destroy
  <2>2. CASE CtlStep
    BY <2>2 DEF CtlStep, ActivateOpen, ActivatePublisher, ActivateSpawn, ActivateLog,
                StopFlag, StopJoin, StopClose, PublisherOff, DropPipeline
  <2>3. CASE RxStep
    BY <2>3 DEF RxStep, RxTest, RxCheck, RxOpen, RxSleep, RxReceive, RxFail, RxHandle
  <2>4. CASE Arrive \/ Contend \/ UNCHANGED vars
    BY <2>4 DEF Arrive, Contend, vars
  <2> QED BY <2>1, <2>2, <2>3, <2>4 DEF Next
<1>4. ThreadShape'
  <2> USE DEF CallShape, ThreadShape, Unjoined, Idle, Enter, Finish
  <2>1. CASE CtlRequest
    BY <2>1 DEF CtlRequest, Configure, ConfigureThrows, Activate, Deactivate,
                Cleanup, Shutdown, Destroy
  <2>2. CASE CtlStep
    BY <2>2 DEF CtlStep, ActivateOpen, ActivatePublisher, ActivateSpawn, ActivateLog,
                StopFlag, StopJoin, StopClose, PublisherOff, DropPipeline
  <2>3. CASE RxStep
    BY <2>3 DEF RxStep, RxTest, RxCheck, RxOpen, RxSleep, RxReceive, RxFail, RxHandle
  <2>4. CASE Arrive \/ Contend \/ UNCHANGED vars
    BY <2>4 DEF Arrive, Contend, vars
  <2> QED BY <2>1, <2>2, <2>3, <2>4 DEF Next
<1> QED BY <1>1, <1>2, <1>3, <1>4

(* The receive thread exists only between its spawn and its join, and the    *)
(* pipeline, the receiver and the publishers it uses are there as long, in   *)
(* every interleaving of the two threads of the node.                        *)
THEOREM DriverInvariant == Spec => []DriverInv
<1>1. Init => DriverInv
  BY DEF Init, DriverInv, CallShape, PipelineShape, SocketShape, ThreadShape
<1>2. TypeOK /\ DriverInv /\ [Next]_vars => DriverInv'
  BY DriverInvStep, TypeParts
<1> QED BY <1>1, <1>2, TypeCorrect, PTL DEF Spec

(* "Join before disabling the publishers": in no interleaving of the two     *)
(* threads does the receive thread ingest a sentence without a live pipeline *)
(* and activated publishers.                                                 *)
THEOREM NeverPublishesInactive == Spec => []PublishesOnlyWhenActive
<1>1. DriverInv => PublishesOnlyWhenActive
  BY DEF DriverInv, PublishesOnlyWhenActive, ThreadShape, Unjoined, PipelineShape
<1> QED BY <1>1, DriverInvariant, PTL

(* A node that has left the active state holds neither the port nor a        *)
(* thread, however its callbacks and socket errors interleaved.              *)
THEOREM ReleasesPort == Spec => []PortReleased
<1>1. TypeOK /\ DriverInv => PortReleased
  BY DEF TypeOK, DriverInv, PortReleased, SocketShape, ThreadShape, Unjoined,
         LifecycleStates, CallShape, PipelineShape
<1> QED BY <1>1, TypeCorrect, DriverInvariant, PTL

(* The receiver is opened, read and closed by one thread at a time.          *)
THEOREM ReceiverExclusive == Spec => []ReceiverNotShared
<1>1. DriverInv => ReceiverNotShared
  BY DEF DriverInv, ReceiverNotShared, ThreadShape, Unjoined, CallShape
<1> QED BY <1>1, DriverInvariant, PTL

(* No joinable thread is overwritten or destroyed.                           *)
THEOREM ThreadsJoined == Spec => []NoThreadAbandoned
<1>1. DriverInv => NoThreadAbandoned
  BY DEF DriverInv, NoThreadAbandoned, ThreadShape, Unjoined, CallShape
<1> QED BY <1>1, DriverInvariant, PTL

(* The two threads implement the gated feed, step by step: a datagram is     *)
(* accepted only through open publishers, and they are closed only when all  *)
(* of its sentences have gone out.                                           *)
THEOREM ImplementsFeed == Spec => FeedSafety
<1> DEFINE gateOf == IF publisher = "active" THEN "open" ELSE "shut"
<1>1. Init => Feed!FeedInit
  BY DEF Init, Feed!FeedInit
<1>2. TypeOK /\ DriverInv /\ [Next]_vars => [Feed!FeedNext]_(Feed!feedVars)
  <2> SUFFICES ASSUME TypeOK, DriverInv, [Next]_vars
               PROVE  Feed!FeedNext \/ UNCHANGED <<gateOf, left>>
    BY DEF Feed!feedVars
  <2> USE DEF Feed!FeedNext, nodeVars, rxVars
  <2>1. CASE CtlRequest
    BY <2>1 DEF CtlRequest, Configure, ConfigureThrows, Activate, Deactivate,
                Cleanup, Shutdown, Destroy, DriverInv, PipelineShape
  <2>2. CASE CtlStep
    <3>1. CASE ActivateOpen \/ ActivateSpawn \/ ActivateLog \/ StopFlag \/ StopJoin \/ StopClose
      BY <3>1 DEF ActivateOpen, ActivateSpawn, ActivateLog, StopFlag, StopJoin, StopClose
    <3>2. CASE ActivatePublisher
      BY <3>2 DEF ActivatePublisher, Feed!Open
    <3>3. left = 0 /\ left' = left /\ publisher' # "active" => Feed!Shut \/ UNCHANGED <<gateOf, left>>
      BY DEF Feed!Shut
    <3>4. CASE PublisherOff \/ DropPipeline
      <4>1. left = 0
        BY <3>4, BoundsAssumption DEF PublisherOff, DropPipeline, DriverInv, ThreadShape,
           Unjoined, TypeOK
      <4>2. left' = left /\ publisher' # "active"
        BY <3>4 DEF PublisherOff, DropPipeline
      <4> QED BY <3>3, <4>1, <4>2
    <3> QED BY <2>2, <3>1, <3>2, <3>4 DEF CtlStep
  <2>3. CASE RxStep
    <3>1. CASE RxTest \/ RxCheck \/ RxOpen \/ RxSleep \/ RxFail
      BY <3>1 DEF RxTest, RxCheck, RxOpen, RxSleep, RxFail
    <3>2. rx \in {"receive", "handle"} => publisher = "active"
      BY DEF DriverInv, ThreadShape, Unjoined, PipelineShape
    <3>3. CASE RxReceive
      <4>1. left = 0 /\ left' \in 0 .. MaxLines /\ publisher' = publisher
        BY <3>3, BoundsAssumption DEF RxReceive, TypeOK, DriverInv, ThreadShape
      <4>2. CASE left' = 0
        BY <4>1, <4>2
      <4>3. CASE left' # 0
        BY <3>2, <3>3, <4>1, <4>3, BoundsAssumption DEF Feed!Accept, RxReceive
      <4> QED BY <4>2, <4>3
    <3>4. CASE RxHandle
      BY <3>2, <3>4, BoundsAssumption DEF RxHandle, Feed!Publish, TypeOK
    <3> QED BY <2>3, <3>1, <3>3, <3>4 DEF RxStep
  <2>4. CASE Arrive \/ Contend \/ UNCHANGED vars
    BY <2>4 DEF Arrive, Contend, vars
  <2> QED BY <2>1, <2>2, <2>3, <2>4 DEF Next
<1> QED BY <1>1, <1>2, TypeCorrect, DriverInvariant, PTL DEF Spec, FeedSafety

=============================================================================
