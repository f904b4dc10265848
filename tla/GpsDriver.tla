------------------------------ MODULE GpsDriver ------------------------------
(***************************************************************************)
(* The lifecycle node that owns the GNSS UDP socket                        *)
(* (rover_gps_driver_node.cpp, udp_nmea_receiver.cpp).                     *)
(*                                                                         *)
(* Two threads share the node.  The executor thread runs one lifecycle     *)
(* callback at a time: `call' is the callback in progress and `ctl' the    *)
(* statement it executes next.  The receive thread runs receiveLoop: `rx'  *)
(* is its next statement, "none" when receive_thread_ is not joinable and  *)
(* "done" when the loop has returned but nobody has joined it.             *)
(*                                                                         *)
(* A thread whose program counter names a call on receiver_ is inside that *)
(* call; the step that leaves the program counter is the call's effect.    *)
(***************************************************************************)
EXTENDS Naturals

CONSTANTS MaxInbox,   \* datagrams the kernel buffers for the socket
          MaxLines    \* sentences in one datagram

ASSUME BoundsAssumption == MaxInbox \in Nat \ {0} /\ MaxLines \in Nat

VARIABLES
  lstate,     \* primary lifecycle state, "destroyed" after the destructor
  call,       \* lifecycle callback (or destructor) in progress
  ctl,        \* executor thread: next statement of that callback
  rx,         \* receive thread: next statement of receiveLoop
  running,    \* running_
  fd,         \* receiver_: "closed" or "open" (fd_ < 0, fd_ >= 0)
  grantable,  \* the system would let us bind now: port free, descriptors left
  publisher,  \* publisher_: "none", or its LifecyclePublishers' state
  ingest,     \* ingest_ # nullptr
  inbox,      \* datagrams waiting in the socket
  left        \* sentences of the current datagram not yet ingested

nodeVars == <<lstate, call, ctl, publisher, ingest>>
rxVars   == <<rx, left>>
netVars  == <<fd, inbox>>
vars     == <<nodeVars, rxVars, netVars, running, grantable>>

LifecycleStates == {"unconfigured", "inactive", "active", "finalized", "destroyed"}
Callbacks       == {"none", "activate", "deactivate", "cleanup", "shutdown", "destroy"}
CtlPoints       == {"idle", "open", "pubon", "spawn", "log",
                    "stop", "join", "close", "puboff", "drop"}
RxPoints        == {"none", "test", "check", "open", "receive", "handle",
                    "fail", "sleep", "done"}
PublisherStates == {"none", "inactive", "active"}

(* The variables' types. *)
TypeOK ==
  /\ lstate \in LifecycleStates
  /\ call \in Callbacks
  /\ ctl \in CtlPoints
  /\ rx \in RxPoints
  /\ running \in BOOLEAN
  /\ fd \in {"closed", "open"}
  /\ grantable \in BOOLEAN
  /\ publisher \in PublisherStates
  /\ ingest \in BOOLEAN
  /\ inbox \in 0 .. MaxInbox
  /\ left \in 0 .. MaxLines

(* The constructor only declares parameters. *)
Init ==
  /\ lstate = "unconfigured" /\ call = "none" /\ ctl = "idle"
  /\ rx = "none" /\ left = 0 /\ running = FALSE
  /\ fd = "closed" /\ inbox = 0 /\ grantable \in BOOLEAN
  /\ publisher = "none" /\ ingest = FALSE

-----------------------------------------------------------------------------
(* UdpNmeaReceiver.  Every caller opens a closed receiver, so open()'s     *)
(* leading close() has nothing to release.                                 *)

OpenSucceeds == grantable /\ fd' = "open" /\ inbox' = 0
OpenFails    == ~grantable /\ UNCHANGED netVars
CloseSocket  == fd' = "closed" /\ inbox' = 0

-----------------------------------------------------------------------------
(* Lifecycle callbacks, on the executor thread.                            *)

Idle == ctl = "idle" /\ lstate # "destroyed"

(* Runs the whole of on_configure. *)
Configure ==
  /\ Idle /\ lstate = "unconfigured"
  /\ lstate' = "inactive" /\ publisher' = "inactive" /\ ingest' = TRUE
  /\ UNCHANGED <<call, ctl, rxVars, netVars, running, grantable>>

(* create_publisher throws outside the try: on_error, then finalized.      *)
ConfigureThrows ==
  /\ Idle /\ lstate = "unconfigured"
  /\ lstate' = "finalized"
  /\ UNCHANGED <<call, ctl, publisher, ingest, rxVars, netVars, running, grantable>>

Enter(c, at) == call' = c /\ ctl' = at

Activate ==
  /\ Idle /\ lstate = "inactive"
  /\ Enter("activate", "open")
  /\ UNCHANGED <<lstate, publisher, ingest, rxVars, netVars, running, grantable>>

(* Mutant: the publisher is disabled before the thread is stopped.         *)
DeactivatePublisherFirst ==
  /\ Idle /\ lstate = "active"
  /\ Enter("deactivate", "stop")
  /\ publisher' = "inactive"
  /\ UNCHANGED <<lstate, ingest, rxVars, netVars, running, grantable>>

Deactivate ==
  /\ Idle /\ lstate = "active"
  /\ Enter("deactivate", "stop")
  /\ UNCHANGED <<lstate, publisher, ingest, rxVars, netVars, running, grantable>>

Cleanup ==
  /\ Idle /\ lstate = "inactive"
  /\ Enter("cleanup", "stop")
  /\ UNCHANGED <<lstate, publisher, ingest, rxVars, netVars, running, grantable>>

Shutdown ==
  /\ Idle /\ lstate \in {"unconfigured", "inactive", "active"}
  /\ Enter("shutdown", "stop")
  /\ UNCHANGED <<lstate, publisher, ingest, rxVars, netVars, running, grantable>>

(* main() drops the node once spin() returns, whatever state it is in.     *)
Destroy ==
  /\ Idle
  /\ Enter("destroy", "stop")
  /\ UNCHANGED <<lstate, publisher, ingest, rxVars, netVars, running, grantable>>

(* The callback returns and the node's state machine enters state s.       *)
Finish(s) == call' = "none" /\ ctl' = "idle" /\ lstate' = s

ActivateOpen ==
  /\ ctl = "open"
  /\ \/ OpenSucceeds /\ ctl' = "pubon" /\ UNCHANGED <<lstate, call>>
     \/ OpenFails /\ Finish("inactive")
  /\ UNCHANGED <<publisher, ingest, rxVars, running, grantable>>

ActivatePublisher ==
  /\ ctl = "pubon"
  /\ publisher' = "active" /\ ctl' = "spawn"
  /\ UNCHANGED <<lstate, call, ingest, rxVars, netVars, running, grantable>>

(* Starts the receive thread; std::thread's constructor may throw, and the *)
(* exception takes the node through on_error to finalized.                 *)
ActivateSpawn ==
  /\ ctl = "spawn"
  /\ running' = TRUE
  /\ \/ rx' = "test" /\ ctl' = "log" /\ UNCHANGED <<lstate, call>>
     \/ rx' = rx /\ Finish("finalized")
  /\ UNCHANGED <<publisher, ingest, left, netVars, grantable>>

(* Calls receiver_.boundPort() for the log line and returns SUCCESS.       *)
ActivateLog ==
  /\ ctl = "log"
  /\ Finish("active")
  /\ UNCHANGED <<publisher, ingest, rxVars, netVars, running, grantable>>

(* stopReceiving(), called by every callback that ends the service.        *)
StopFlag ==
  /\ ctl = "stop"
  /\ running' = FALSE /\ ctl' = "join"
  /\ UNCHANGED <<lstate, call, publisher, ingest, rxVars, netVars, grantable>>

(* Mutant: the receive thread is left to itself instead of being joined.   *)
StopJoinDetaches ==
  /\ ctl = "join"
  /\ ctl' = "close"
  /\ UNCHANGED <<lstate, call, publisher, ingest, rxVars, netVars, running, grantable>>

StopJoin ==
  /\ ctl = "join"
  /\ rx \in {"none", "done"}
  /\ rx' = "none" /\ ctl' = "close"
  /\ UNCHANGED <<lstate, call, publisher, ingest, left, netVars, running, grantable>>

(* Mutant: stopReceiving leaves the socket to the receive loop.            *)
StopCloseForgets ==
  /\ ctl = "close"
  /\ ctl' = IF call = "deactivate" THEN "puboff" ELSE "drop"
  /\ UNCHANGED <<lstate, call, publisher, ingest, rxVars, netVars, running, grantable>>

StopClose ==
  /\ ctl = "close"
  /\ CloseSocket
  /\ ctl' = IF call = "deactivate" THEN "puboff" ELSE "drop"
  /\ UNCHANGED <<lstate, call, publisher, ingest, rxVars, running, grantable>>

(* The tail of on_deactivate. *)
PublisherOff ==
  /\ ctl = "puboff"
  /\ publisher' = IF publisher = "none" THEN "none" ELSE "inactive"
  /\ Finish("inactive")
  /\ UNCHANGED <<ingest, rxVars, netVars, running, grantable>>

(* The tail of on_cleanup, on_shutdown and of the destructor. *)
DropPipeline ==
  /\ ctl = "drop"
  /\ ingest' = FALSE /\ publisher' = "none"
  /\ Finish(CASE call = "cleanup"  -> "unconfigured"
              [] call = "shutdown" -> "finalized"
              [] OTHER             -> "destroyed")
  /\ UNCHANGED <<rxVars, netVars, running, grantable>>

-----------------------------------------------------------------------------
(* receiveLoop, on the receive thread.                                     *)

(* Mutant: the loop does not test running_ again.                          *)
RxTestForever ==
  /\ rx = "test"
  /\ rx' = "check"
  /\ UNCHANGED <<left, nodeVars, netVars, running, grantable>>

RxTest ==
  /\ rx = "test"
  /\ rx' = IF running THEN "check" ELSE "done"
  /\ UNCHANGED <<left, nodeVars, netVars, running, grantable>>

(* Mutant: the loop goes on reading a socket it has closed.                *)
RxCheckNever ==
  /\ rx = "check"
  /\ rx' = "receive"
  /\ UNCHANGED <<left, nodeVars, netVars, running, grantable>>

RxCheck ==
  /\ rx = "check"
  /\ rx' = IF fd = "open" THEN "receive" ELSE "open"
  /\ UNCHANGED <<left, nodeVars, netVars, running, grantable>>

RxOpen ==
  /\ rx = "open"
  /\ \/ OpenSucceeds /\ rx' = "receive"
     \/ OpenFails /\ rx' = "sleep"
  /\ UNCHANGED <<left, nodeVars, running, grantable>>

RxSleep ==
  /\ rx = "sleep"
  /\ rx' = "test"
  /\ UNCHANGED <<left, nodeVars, netVars, running, grantable>>

(* receive(): a datagram of any number of sentences, a timeout or a signal *)
(* on a quiet link, or an error; a closed receiver only errs.              *)
RxReceive ==
  /\ rx = "receive"
  /\ \/ /\ fd = "open" /\ inbox > 0
        /\ inbox' = inbox - 1
        /\ left' \in 0 .. MaxLines
        /\ rx' = "handle"
     \/ fd = "open" /\ inbox = 0 /\ rx' = "test" /\ UNCHANGED <<left, inbox>>
     \/ rx' = "fail" /\ UNCHANGED <<left, inbox>>
  /\ UNCHANGED <<fd, nodeVars, running, grantable>>

RxFail ==
  /\ rx = "fail"
  /\ CloseSocket /\ rx' = "test"
  /\ UNCHANGED <<left, nodeVars, running, grantable>>

(* Mutant: the scan for '\n' runs one line past the end of the datagram.    *)
RxHandlePastEnd ==
  /\ rx = "handle"
  /\ left' = left - 1
  /\ rx' = IF left < 0 THEN "test" ELSE rx
  /\ UNCHANGED <<nodeVars, netVars, running, grantable>>

(* handleDatagram: ingests one sentence per step, publishing its outputs,  *)
(* and never looks at running_.                                            *)
RxHandle ==
  /\ rx = "handle"
  /\ IF left > 0 THEN left' = left - 1 /\ rx' = rx
                 ELSE rx' = "test" /\ left' = left
  /\ UNCHANGED <<nodeVars, netVars, running, grantable>>

-----------------------------------------------------------------------------
(* The network and the rest of the system.                                 *)

(* A datagram that finds the buffer full is lost, as one that finds the    *)
(* socket closed is.                                                       *)
Arrive ==
  /\ fd = "open" /\ inbox < MaxInbox
  /\ inbox' = inbox + 1
  /\ UNCHANGED <<fd, rxVars, nodeVars, running, grantable>>

(* Another process takes or frees the port, or the last descriptors.  It   *)
(* cannot take a port this node holds.                                     *)
Contend ==
  /\ fd = "closed"
  /\ grantable' = ~grantable
  /\ UNCHANGED <<netVars, rxVars, nodeVars, running>>

CtlRequest == Configure \/ ConfigureThrows \/ Activate \/ Deactivate
                \/ Cleanup \/ Shutdown \/ Destroy
CtlStep    == ActivateOpen \/ ActivatePublisher \/ ActivateSpawn \/ ActivateLog
                \/ StopFlag \/ StopJoin \/ StopClose \/ PublisherOff \/ DropPipeline
RxStep     == RxTest \/ RxCheck \/ RxOpen \/ RxSleep \/ RxReceive
                \/ RxFail \/ RxHandle

Next == CtlRequest \/ CtlStep \/ RxStep \/ Arrive \/ Contend

(* A callback that was started is run, and the receive thread is scheduled *)
(* and never blocks for good: SO_RCVTIMEO is at least one second (the      *)
(* timeout_sec parameter is 1..3600) and the back-off sleep is one second. *)
(* No lifecycle request, datagram or change of the port is owed to anyone. *)
Spec == Init /\ [][Next]_vars /\ WF_vars(CtlStep) /\ WF_vars(RxStep)

-----------------------------------------------------------------------------
(* The receive thread only ever ingests a sentence into a live pipeline    *)
(* and an activated publisher: "Join before disabling the publishers, so   *)
(* the receive thread can never publish into a deactivated publisher"      *)
(* (rover_gps_driver_node.cpp:195).                                        *)
PublishesOnlyWhenActive ==
  rx = "handle" => publisher = "active" /\ ingest

(* The socket is "bound on activate and released on deactivate"            *)
(* (rover_gps_driver_node.hpp:37): once a callback has left the node in    *)
(* any state but active, nothing holds the port and no thread is left.     *)
(* Excepted is a node the state machine finalised because the thread could *)
(* not start, which keeps its publisher and its socket until destroyed.    *)
PortReleased ==
  /\ ctl = "idle" /\ lstate # "active"
  /\ lstate = "finalized" => publisher = "none"
  => fd = "closed" /\ rx = "none"

(* Opening, closing and reading the receiver are never done by both        *)
(* threads at once.                                                        *)
ReceiverNotShared ==
  ~ (ctl \in {"open", "close"} /\ rx \in {"check", "open", "receive", "fail"})

(* A thread is started only where none is joinable: assigning over a       *)
(* joinable std::thread, or destroying one, terminates the process.        *)
NoThreadAbandoned ==
  ctl \in {"spawn", "drop"} => rx = "none"

(* The inductive invariant the safety properties rest on.  The receive     *)
(* thread lives only from the spawn in on_activate to the join in          *)
(* stopReceiving, and in between the node keeps what the thread uses.      *)
Unjoined   == \/ lstate = "active" /\ ctl \in {"idle", "stop", "join"}
              \/ ctl = "log"
CallShape  ==
  /\ (call = "none") <=> (ctl = "idle")
  /\ call = "activate" <=> ctl \in {"open", "pubon", "spawn", "log"}
  /\ call = "activate"   => lstate = "inactive"
  /\ call = "deactivate" => lstate = "active"  /\ ctl # "drop"
  /\ call = "cleanup"    => lstate = "inactive" /\ ctl # "puboff"
  /\ call = "shutdown"   => lstate \in {"unconfigured", "inactive", "active"} /\ ctl # "puboff"
  /\ call = "destroy"    => lstate # "destroyed" /\ ctl # "puboff"
PipelineShape ==
  /\ lstate = "active" => publisher = "active" /\ ingest
  /\ ctl \in {"spawn", "log"} => publisher = "active" /\ ingest
  /\ lstate = "inactive" => publisher # "none" /\ ingest
  /\ lstate = "inactive" /\ publisher = "active" => ctl \in {"spawn", "log"}
  /\ lstate \in {"unconfigured", "destroyed"} => publisher = "none"
SocketShape ==
  fd = "open" => \/ lstate = "active" /\ ctl \in {"idle", "stop", "join", "close"}
                 \/ ctl \in {"pubon", "spawn", "log"}
                 \/ /\ lstate = "finalized" /\ publisher = "active"
                    /\ ctl \in {"idle", "stop", "join", "close"}
ThreadShape ==
  /\ rx # "none" => Unjoined
  /\ left > 0 => rx = "handle"

DriverInv == CallShape /\ PipelineShape /\ SocketShape /\ ThreadShape

(* Every lifecycle callback returns, whatever the link and the port do:    *)
(* the receive timeout bounds how long the join can wait.                  *)
CallbacksReturn == (call # "none") ~> (call = "none")

(* An active driver whose port stays available keeps getting its socket    *)
(* back after socket errors and lost bind races.                           *)
Rebinds ==
  <>[](lstate = "active" /\ grantable) => []<>(fd = "open")

(* What the two threads implement together: a gate that accepts a datagram *)
(* only while open and shuts only when everything accepted has gone out.   *)
Feed == INSTANCE GatedFeed WITH
          gate    <- IF publisher = "active" THEN "open" ELSE "shut",
          pending <- left,
          Burst   <- MaxLines

FeedSpec   == Feed!Spec
FeedSafety == Feed!FeedInit /\ [][Feed!FeedNext]_(Feed!feedVars)
=============================================================================
