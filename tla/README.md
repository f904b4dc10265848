# Verification of rover_sensors

TLA+ specifications of the two sensor drivers of the Rover A1 payload, `rover_gps` and
`rover_rs16_lidar`, with the configurations that TLC checks on small instances and theorems
that TLAPS proves for every value of the constants. The specifications are translated from the
C++ sources. Paths below are relative to the repository.

```
tlc -config GpsDriver.cfg GpsDriver.tla          # one run; every .cfg names its own
tlapm GpsDriver_proofs.tla                       # one proof module
```

`PROJECT.json` lists the components, the runs, the source lines of every definition, the
mutant that shows each property can fail, the hazards and the theorems.

## 1. The system

Three ROS 2 nodes. Each lifecycle node runs its callbacks and timers on one single-threaded
executor, and owns further threads.

| Part | State it keeps | Operations | Talks to |
|---|---|---|---|
| **GPS driver node** `rover_gps_driver_node.cpp` | lifecycle state, `running_`, `receive_thread_`, `ingest_`, `publisher_` | `on_configure/activate/deactivate/cleanup/shutdown`, destructor, `stopReceiving`, `receiveLoop`, `handleDatagram` | owns the receiver; its receive thread calls the ingestion |
| **UDP receiver** `udp_nmea_receiver.cpp` | `fd_`, `bound_port_`, buffer | `open`, `receive`, `close`, `boundPort` | the kernel's socket; called from both threads of the driver |
| **NMEA ingestion** `ingest_nmea_use_case.cpp`, `nmea_checksum.cpp`, `nmea_parser.cpp`, `nmea_fix_assembler.cpp` | `IngestStatistics`; the latched `valid_fix_`, `using_receiver_epe_`, three standard deviations | `onSentence`; `onGga/onVtg/onRmc/onGst/onHdt`; `reset` | the output port, which publishes |
| **GPS health node** `rover_gps_node.cpp`, `monitor_gps_use_case.cpp`, `gps_health_evaluator.cpp`, `ros2_gps_health_publisher.cpp` | last fix, deque of arrivals, last report | `fixCallback`, `tickCallback`, `diagnose` | subscribes to `gps/fix`; a tick timer and the updater's timer |
| **Lidar node** `rover_rs16_lidar_node.cpp` | lifecycle state, `source_`, publishers, monitor | lifecycle callbacks, `closeSource`, `releasePipeline`, `tickCallback` | builds a source per activation; its `onFrame` runs on the source's worker |
| **rs_driver source** `rs_driver_lidar_source.cpp` | `started`, `stopping`, `worker`, queues `free_clouds` and `filled_clouds` | `start`, `stop`, `run`, `acquireCloud`, `submitCloud` | rs_driver calls acquire and submit; its worker calls the node |
| **rs_driver** `lidar_driver_impl.hpp`, `sync_queue.hpp`, `input_sock_select.hpp` | two threads, packet queue, current cloud, `fds_` | `init/start/stop`, `packetPut`, `processPacket`, `splitFrame`; `push/popBatch/clear`; `createSocket`, `~InputSock` | the kernel's sockets; the source |
| **RS16 decoder** `decoder_RS16.hpp`, `decoder_mech.hpp`, `decoder.hpp`, `split_strategy.hpp`, `section.hpp` | previous azimuth, first and last time stamps, calibration, the cloud being filled | `processMsopPkt`, `processDifopPkt`, `newBlock`, the sections | runs on rs_driver's handle thread; ends a cloud through `splitFrame` |
| **Lidar publishers** `ros2_point_cloud_publisher.cpp`, `ros2_laser_scan_publisher.cpp` | a reused message each | `publish`, `activate`, `deactivate` | called by the worker through `onFrame` |
| **Lidar use cases and health** `stream_lidar_use_case.cpp`, `monitor_lidar_use_case.cpp`, `lidar_health_evaluator.cpp` | last cloud, deque of arrivals under a mutex, last report | `onFrame`, `onCloud`, `tick`, `evaluate` | worker and executor share it |
| **Settings and scan projector** `lidar_settings.cpp`, `scan_projector.cpp` | settings | `declareParameters`, `validate`, the constructor, `project` | checked by the node's constructor; called by the worker for each revolution |

**What is hard.** The receive thread of the GPS driver and the two threads behind a lidar are
started and joined by lifecycle callbacks that may arrive in any legal order, while a receive,
a retry or a publication is under way. The lidar's data goes through two lock-free rings whose
indices are written by one thread and read by another, with buffers that cycle between
producer and consumer. Sockets fail, ports are taken by others, and every step of an activation
can fail after the steps before it. Both monitors report on a stream through two timers of
their own, out of two clocks (GPS) or across two threads (lidar). The assembler latches state
from sentences that are lost, reordered or partly empty. The text of a sentence may be cut or
damaged in a datagram it shares with others, and the packets of a revolution may be lost, late or
cut short, with nothing but the azimuth to tell where it ends.

**What makes each part correct.**

- *GPS driver*: nothing is published through a deactivated or destroyed publisher; the port is
  held only while active and always given back; every thread is joined once and every callback
  returns; a broken socket is bound again.
- *Ingestion*: each sentence is counted once; velocity is only reported on a confirmed fix; a
  fix carries the error estimate that belongs to it.
- *Text*: each value comes out of its own field; damage costs the sentences it touches and changes no
  other.
- *Time*: a time reference is the receiver's UTC time, as far as the host's date allows.
- *Health*: a lost stream, a stream that has come back, and anything the documented table says
  is shown on `/diagnostics`, in bounded time.
- *Lidar node*: the same as for the driver, and the updater calls nobody who is gone.
- *Source*: a cloud buffer belongs to one thread at a time; revolutions are published in order,
  at most once, and are not stuck in a queue.
- *SyncQueue*: a first-in first-out queue, whatever the interleaving of its two threads.
- *Sockets*: closed exactly once, and never somebody else's descriptor.
- *Revolutions*: one cloud for each turn; a message holds its own turn's returns and its instant.
- *Scan*: accepted settings work, and no NaN is among them; the closest return wins in each beam; no blind beam.

## 2. The modules

| Module | Models | How state and actions correspond |
|---|---|---|
| `GpsDriver` | the driver node, both threads, and the receiver | `ctl` and `rx` are program counters of the executor and the receive thread, one statement per step; a thread *is inside* the call its counter names. `Open*`/`CloseSocket` are the receiver's `open` and `close`; `Arrive` and `Contend` are the network and other processes. |
| `GatedFeed` | the abstract promise of a driver node: what is accepted goes out through an open gate, and the gate shuts on nothing pending | refined by `GpsDriver` (a burst is a datagram's sentences) and by `LidarNode` (a burst is one frame) |
| `NmeaPipeline` | one sentence through checksum, parser, assembler and output, and the fix the health node reads from the message | a sentence is a record of what the code distinguishes in it; a standard deviation is represented by its *origin* (NaN, a GST reading, a row of the default table). `Fix` is the published message, `ToGnssFix` its reading at the other end. `current`, `gga`, `gst` are observers. |
| `NmeaText` | checksum and parser, as operators | a text is a sequence of ASCII codes in which the letters of a talker or a type are one symbol; a number is the set of its value, `{}` for a NaN, in tenths |
| `NmeaLink` | datagrams from the receiver through network, buffer, `handleDatagram`, checksum and parser | `Send`, `Damage`, `LoseDatagram` and `Pass` are the world. `Handle` begins `handleDatagram`, which reads the host's clock once; each `NextLine` is a turn of its loop over the lines, with `OnText` for `onSentence` up to the assembler. The record in `handled` holds the loop's locals (`payload`, `start`, `host`) and, as observers, the datagram they come from and what was heard of it. What a report *means* is given apart from its text (`MeaningAssumption`). |
| `RateWindow` | the deque of arrivals and the rate, the same in both evaluators | `Pruned`, `RateTooLow` |
| `GpsHealth` | the GPS monitor up to `/diagnostics` | `FixArrives`, `Tick`, `Diagnose` are the three callbacks; `clock` is the ROS clock, `steady` that of the timers. `newest`, `recent`, `goodFrom` are observers for the properties only. |
| `LidarNode` | the node, the source, rs_driver's handle thread, the worker | `ctl`, `dec`, `wrk` are the program counters; a cloud buffer is a number, `points` says whose revolution it holds; `Push` and `Acquired` are the queues at the granularity of whole operations |
| `SyncQueue` | the ring itself, one access to `head_`, `tail_` or a slot per step | `PushTest/PushWrite/PushStore`, `ClearHead/ClearTail` on the producer, `PopHead/PopTail/PopCopy/PopStore` on the consumer |
| `Fifo` | the abstract queue, refined by `SyncQueue` | |
| `LidarSockets` | descriptors of the lidar's input, among threads that open and close others | `owner` maps the process's descriptor table; one system call per step |
| `LidarHealth` | the lidar monitor up to `/diagnostics` | `TickRead` and `TickEvaluate` are the two halves of a tick around the mutex, `FrameArrives` and `OnCloud` those of a frame |
| `LidarSettings` | the declared ranges, `validate` of the settings and of the health thresholds | a floating-point setting is a set, `{}` for a NaN, so that every comparison with one is false as in C++ |
| `ScanProjector` | the node's constructor, the projector's, and the loop of `project` | `Build`, `Configure`, then one `Project(p)` per turn of the loop; points lie in the eight directions of a lattice |
| `Revolutions` | packets on their way, the RS16 decoder, `splitFrame`, the worker's conversion and both messages | `Msop` takes a packet in hand; `Decode` and `DecodeSplit` are a turn of the decoder's loop over its blocks, within the revolution or beginning the next, so that the worker publishes between two blocks; `Publish` is a whole `onFrame`. A point is known by the firing and the laser it comes from. `blocks`, `cleared` and `shown` are observers. |
| `MCNmeaPipeline`, `MCNmeaLink`, `MCScanProjector`, `MCRevolutions` | values of set constants for TLC | |
| `GpsDriver_proofs`, `Nmea_proofs`, `GpsHealth_proofs`, `LidarNode_proofs`, `SyncQueue_proofs`, `LidarHealth_proofs`, `ScanProjector_proofs`, `Revolutions_proofs` | theorems about the module they are named after; in `Nmea_proofs` about `NmeaLink` and `NmeaPipeline`, in `LidarNode_proofs` about `LidarSockets` too | no state or action of their own (section 4) |

How they fit together: `LidarNode` takes `SyncQueue` as the queue that `SyncQueue`'s refinement
of `Fifo` shows a queue without `clear()` to be, and the sockets as the pair that
`LidarSockets` follows descriptor by descriptor. `GpsDriver` counts sentences; what one of them
does is `NmeaPipeline`, over the verdicts that `NmeaLink` reaches from the text. `GpsHealth` and
`LidarHealth` both extend `RateWindow`, `ScanProjector` extends `LidarSettings` and `NmeaLink`
extends `NmeaText`. `Revolutions` is what `LidarNode` leaves to the decoder's choice: which packet
completes a revolution and what is in it.

`GpsDriver` and `SyncQueue` keep a type invariant that their runs check too. The types of the other modules are
stated and proved in their proof modules, as the first conjunct of an inductive invariant.

Mutated forms (`(* Mutant: ... *)`) stand before the definitions they vary. No specification
uses them.

## 3. The runs

Deadlock is checked in `gps_driver`, `lidar_sockets` and `revolutions`. In the others it is
switched off: the runs over a bounded time or a bounded number of sentences and pushes end at
the bound, `lidar_node` ends in a destroyed or terminated process, and `scan_projector` ends for
settings that are refused.

### Runs that pass

| Run | States | What it shows |
|---|---|---|
| `gps_driver` | 346 | `PublishesOnlyWhenActive`, `PortReleased`, and the inductive `DriverInv`, in every interleaving of both threads with failing binds, a failing `std::thread`, socket errors and every legal lifecycle order; `CallbacksReturn` and `Rebinds` under fairness; `FeedSpec`, that both threads together implement `GatedFeed`, its fairness included |
| `nmea_pipeline` | 247 438 | every sequence of six sentences over four fix qualities, partly empty GSTs, missing HDOPs, both fix sources: `CountedOnce`, `VelocityConfirmed`, `EpeProvenance`, and `HealthSeesFix`, that status and accuracy survive both conversions |
| `nmea_link` | 143 322 | five datagrams of all sentence types, across midnight, delayed, lost, damaged in any one character or cut by the buffer, line by line: `FieldsInPlace`, `SentencesIntact`; `DatedByHost`: a time reference is right or off by exactly the day between the two dates |
| `gps_health` | 782 827 | `LossShown`, `RecoveryShown`: detection and recovery in bounded time, across outages, all fix qualities and a forward step of the clock, both timers; `EvaluateMeetsTable`: the evaluator agrees with the README's table read off the fixes that came |
| `lidar_node` | 52 094 | `SocketsReleased`, `NoThreadAbandoned`, `CloudsOwnedOnce`, `RevolutionsInOrder` with three threads, full queues and failing starts; `CallbacksReturn`, `RevolutionsDelivered`; `FeedSpec` |
| `lidar_health` | 1 015 389 | the same three questions as `gps_health`, for two threads that read the clock outside the mutex |
| `sync_queue` | 14 422 | `RingInv` and `FifoSpec` for a ring that is never cleared, wrapping round twice; `OrderedUntilCleared` for one that is |
| `lidar_sockets` | 13 324 | `AllClosed`, `SocketsOwn`, `ClosesOnlyOwn`, whatever other threads do between two calls |
| `scan_projector` | 120 160 | `AcceptedConstructs` over every group of settings with NaN among the values, `ClosestInBeam` and `NoBlindSpot` over every pair of points |
| `revolutions` | 2 966 001 | `OneCloudPerTurn`, `MessageOfItsTurn`, `StampOfItsTurn` for packets lost, reordered, cut short or refused before the calibration came, clouds that overflow, a full queue and reused messages |

### Runs that show a disagreement between the code and what is said of it

| Run | Property | What it shows |
|---|---|---|
| `nmea_pipeline_epe` | `EpeMatchesQuality` | A GST with an empty field makes `onGga` store the default of *that* fix's quality in the member, where later fixes of another quality find it and take it for the receiver's own estimate. The comment at `nmea_fix_assembler.cpp:112` promises the default "for this fix quality". |
| `lidar_node_cleanup` | `DiagnosesLiving` | The task registered by `Ros2LidarHealthPublisher` outlives it in `diagnostic_updater_`; after cleanup or shutdown the updater's timer calls into the destroyed object. `rover_rs16_lidar_node.hpp:45` promises diagnostics "from configure to cleanup". |

### Bounds, and why they are enough

- `GpsDriver`: two datagrams of at most two sentences. One datagram waiting while another is
  handled, and a stop in the middle of a datagram, need no more. The theorems hold for all sizes.
- `NmeaPipeline`: the latched state depends on the last GGA and the last GST; a GST, two fixes
  of different quality and a VTG with others between them are at most six. Qualities 1, 2, 4 and 7 are
  a row for each kind of fix and one value outside the table. Two readings, interchangeable (symmetry).
- `NmeaLink`: each type of sentence full and with fields empty or absent, both hemispheres of both
  kinds, all four talkers, one that is unknown and one type that is; datagrams of one to three. The run goes from
  two seconds before midnight to midnight, with a delay of two and a skew of one, so that either date can be ahead. A buffer
  of 30 symbols cuts the longer datagrams in the middle of a sentence or at its end, one of 100 none. The damaging
  characters are those that shift fields, end a line or a sentence, or pass for another digit; one is damaged per
  datagram, which is what a checksum of this kind detects.
- `GpsHealth`: `fix_timeout_s` = 3 and a window of 5 in units of a second (one expected period);
  `expected_rate_hz * min_rate_ratio` is 1/2. A run of 16 has room for a good stream, an outage
  longer than the timeout, and the full recovery after it, with a step of the clock of 4 units,
  longer than the timeout, anywhere.
- `LidarNode`: queues of two instead of rs_driver's 102400, so that both overflow, with
  three revolutions an activation; one packet waiting; `Clouds` has enough buffers
  for both queues, the decoder, the worker and the allocation of one more. `MaxStale` bounds the
  tasks left by earlier configurations to one, and so the number of configurations.
- `LidarHealth`: a timeout of 3, a grace and a window of 4, a revolution up to one unit on its
  way through the publishers, an executor up to one unit late; 18 units have room for silence,
  recovery, an outage and a recovery again.
- `SyncQueue`: a ring of four and eight pushes wrap the indices twice; batches of two are cut by
  the end of the ring. The theorems hold for all sizes.
- `LidarSockets`: five descriptors, one of them the standard input, so that the others
  can take what the input has closed and leave it none. The state space is finite with no bound
  on the number of activations.
- `ScanProjector`: each group of settings that is compared with another is varied against the defaults of the
  others; a maximum range at the limit of its declared range and one beyond it, which is still finite; sweeps that the increment divides or does not; points in all directions, at the origin, on, next to and
  beyond every boundary; two points are enough to compete for a bin, in both orders.
- `Revolutions`: a turn of 7 firings against packets of 4 and blocks of 2, so that turns end at every place in a
  packet; five packets are almost three turns. One lost packet is less than a turn, two in a row are more. Three packets on their way
  come in any order, which it takes to step back twice. A cloud is cleared beyond 12 points, which is less than a turn; the queue holds one cloud.
  Three settings: a full turn with invalid points kept, a section across zero with them dropped and the sensor's
  clock, and an inner section stamped by the last point.

### Fairness

- `GpsDriver`: weak fairness of the executor's next statement and of the receive thread's. The
  callback runs to its end because the executor thread is scheduled; the receive thread never
  blocks for good because `SO_RCVTIMEO` is at least one second (`timeout_sec` is 1 to 3600) and
  the pause before a new bind is one second. No fairness is assumed of lifecycle requests,
  datagrams or the port.
- `LidarNode`: the same for its three threads: `popBatch` and `popWait` give up after half a
  second at most, and a batch of packets is finite. That the threads see the plain `bool` flags
  `to_exit_handle_` and `to_exit_recv_` is assumed (section 5).
- `SyncQueue`: the consumer polls. The producer owes nothing.
- The other modules state bounded-time properties as invariants and need no fairness.

## 4. The proofs

Checked by `tlapm`. The assumptions on the constants are named in the modules, and say no more than that a size is
a size: `BoundsAssumption` (`GpsDriver`), `RingAssumption` (a ring of at least two slots, batches of at least one),
`LimitsAssumption` (`LidarNode`: positive queues), `FdAssumption` (`LidarSockets`: more than one descriptor),
`RevolutionAssumption` (`Revolutions`: a turn, a packet and a second are not empty, settings are settings),
`WindowAssumption` and the two `ParametersAssumption` (the health modules: periods, timeouts and windows are positive, and
an executor is late by less than a period), `InputAssumption` and `CandidatesAssumption` (`ScanProjector`: points are
points; a floating-point setting is one number or a NaN), `LinkAssumption` (`NmeaLink`: the longest delay and the skew of the
clocks are less than a day together) and `ReportsAssumption` (a field of a report has no character that ends a field or a
sentence; its time is the first field of a type that has one). `MeaningAssumption` (`NmeaLink`) says of each report a datagram may
carry that its data is what its fields say when they are converted one by one: it defines what a report means, apart from the
checksum, the lines and the splitting, and TLC evaluates it on the reports of the run, whose data is written out by hand.
What a theorem needs beyond that stands in its statement.

**`GpsDriver_proofs`**

- `TypeCorrect`: `TypeOK`, in three parts (points, flags, counters), each with a lemma.
- `DriverInvariant`: `DriverInv` is inductive. `PublishesOnlyWhenActive` is not inductive: that
  a thread handling a datagram has a live publisher depends on the thread's life lying between
  the spawn in `on_activate` and the join in `stopReceiving`. `DriverInv` says so:
  `CallShape` ties the callback to the statements it runs, `PipelineShape` says where the
  pipeline is built and enabled, `SocketShape` where the socket may be open, and `ThreadShape`
  where a thread may be unjoined.
- `NeverPublishesInactive`, `ReleasesPort`: `PublishesOnlyWhenActive` and `PortReleased` follow
  from `DriverInv`.
- `ReceiverExclusive`, `ThreadsJoined`: the two threads are never both in a call that opens,
  closes or reads the receiver; a thread is started only where none is joinable, and the node is
  never destroyed with one.
- `ImplementsFeed`: the safety part of the refinement of `GatedFeed`: initial states map to
  initial states, and each step to a step or a stutter. The gate shuts only at the end of
  `on_deactivate`, `on_cleanup` and their like, where `DriverInv` leaves no pending sentence.

**`SyncQueue_proofs`**, for rings and batches of any size

- `TypeCorrect`: no index leaves the ring, cleared or not.
- `RingInvariant`: `RingInv`, for a queue that is never cleared: while the producer fills a slot
  it is outside what the consumer may read (`ProducerOwnsTail`); what the consumer has copied is
  what the ring still holds from `head` on (`ConsumerOwnsHead`); and no null waits. It is
  inductive together with `TypeOK`.
- `ImplementsFifo`: the safety part of the refinement of `Fifo`. The abstract queue is the
  ring's contents from `head` to `tail`; `PushStore` is the abstract `Put`, `PopStore` the
  abstract `Take`, a refused `PushTest` the abstract `Refuse`, and all other steps stutter.
- `OrdersUntilCleared`: `OrderedUntilCleared`, an action property, which also holds of a queue that has filled up but is not
  cleared yet. Both threads keep `RingInv`'s three parts with every step but `ClearHead` and `ClearTail` (`RingInvStep`);
  to them `InOrder` adds that the values that wait ascend, that those taken last came before them, and that
  none is one the producer is still to store.

**`Nmea_proofs`** on `NmeaLink`, for datagrams of any number of reports with any number of fields of any length, any damaging
character, buffer, start, delay and skew

- `LinkInvariant`: `LinkInv`. None of the three properties is inductive: they judge a datagram by what the loop heard of it, and that is
  right only because of where in the text the loop stands. `Flying` says that a datagram is the text of its reports but for the
  one damaged symbol, `Held` that the payload is a beginning of it and that host and sender are less than a day apart, `Told` what
  was heard so far: each time is dated as it should be (`Dated`); everything heard was meant (`Genuine`); nothing spared is missing
  of what was passed (`Complete`); and without damage it is what is due up to some line (`Exact`). `Complete` and `Exact` tie
  `start` to the ends of the lines; without them the next turn could begin in the middle of a sentence, or after one that was skipped.
- `KeepsFieldsInPlace`: `FieldsInPlace`, `KeepsSentencesIntact`: `SentencesIntact`, `DatesByHost`: `DatedByHost`, each a consequence.

What carries the step is the lemmas about the text, in this order:

1. *Layout*. `Body`, `Lines`, `Due` and the splitting of fields are recursive functions. `Recursion` shows that such a function exists and
   satisfies its equation, by the least argument for which it would not, so that no induction theorem is needed; `BodyWritten`,
   `LinesSteps` and `TextLaid` then say where each field, star and line end lies.
2. *Splitting*. `FieldsWhole`: the fields of an undamaged sentence are those it was written from, and empty past the last;
   `FieldsCut`: a sentence that is cut keeps its address and the start of its first field, the time.
3. *Damage*. `XorChange`: changing one symbol changes the XOR. `Caught` and `WholeLine`: so a sentence with one symbol off is refused,
   unless that symbol is a digit of its checksum which still says the same (`HexDigits` has both cases); what it opens with is
   then as it was sent. A changed dollar, word or star is refused by its place.
4. *Lines*. `Whereabouts` and `LineTrimmed` say what a line that the loop cuts out can be: a line of the datagram, a
   beginning or a part of one, or two joined when the line end between them was damaged. The talkers and types are words that no
   damage makes, so that only the beginning of a sentence can be accepted. `Sound` puts it together: what is accepted is a whole
   sentence, unless a damaged one was cut as well.
5. *Time*. `ClockRead` reads back the digits of `ClockText`; `GraftedTime` and `DatedRef` do the arithmetic of days.

**`Nmea_proofs`** on `NmeaPipeline`, for any GGA indicators, any GST readings and runs of any length

- `CountsOnce`: `CountedOnce`, with the fact that the counters are natural numbers.
- `ConfirmsVelocity`: `VelocityConfirmed`. It is not inductive, since what a VTG yields depends on a
  flag latched many sentences earlier; `Latches` says that the flag is the verdict of the last GGA
  (when RMC is not the fix source), that an estimate is in use once a GST came, and that each axis
  the latest GST gave still holds its reading, through every default written back since.
  `LatchesHold` proves it inductive, and `OutputOf` says what each sentence publishes.
- `EpeFromLatestGst`: `EpeProvenance`, from `Latches`.
- `HealthReadsFix`: `HealthSeesFix`, from the round trip of the status (`StatusRoundTrip`) and from
  `StdFor` leaving no NaN.

**`GpsHealth_proofs`** and **`LidarHealth_proofs`**, for every window, rate, timeout and length of a run

- `EvaluatesTable`: `EvaluateMeetsTable`. The evaluator works on a deque that it prunes as fixes come, the table on the set of
  everything that came; `HealthInv` says that the deque is that set in order (`Recorded`, `Stamped`, and in the
  lidar's `Timing` how far the worker and the timers lag behind). `Pruning` and `InOrder` are the lemmas about the deque: what is
  left of it is a suffix with its last element, and an ascending sequence has as many members as elements.
- `ShowsLoss`: `LossShown`. The property speaks of the time since the last fix, and holds because each timer has fired since:
  `LossKnown` says so by the time each one last fired, and is inductive. For the GPS it is proved for a ROS clock that steps
  forward only (`Steps \subseteq Nat`): with a backward step it is false, the deviation at `gps_health_evaluator.cpp:94`. For the
  lidar it is proved for `MaxWork <= Timeout`: a worker that takes longer than the timeout to publish a revolution
  records a cloud that is late already.
- `ShowsRecovery`: `RecoveryShown`, from `RecoveryKnown`, in the same way. `GoodStream` says that a stream that has been good for
  `k` units has its last `k` arrivals at the end of the deque, whatever came before. The GPS theorem needs `SlowPeriod > 1` (a good
  stream is faster than the slowest that is accepted); the lidar's needs `GoodRate`, that a
  cloud recorded `MaxWork` late is within the timeout and that the window still holds enough of them.

Each of the two modules states the lemmas about the deque for itself, since they rest on no module of its own.

**`LidarNode_proofs`**, for queues of any capacity and activations of any length

- `NodeInvariant`: `NodeInv` is to the three threads of the lidar what `DriverInv` is to the two of the GPS driver: `CallShape` ties
  the callback to its statements, `SourceShape` says what there is of the source at each of them, `ThreadShape` that
  each thread lives from its start to its join, `PublisherShape` that the publishers outlive them.
- `ReleasesSockets`, `AbandonsNoThread`: `SocketsReleased` and `NoThreadAbandoned` follow from `NodeInv`.
- `OwnsCloudsOnce`: `CloudsOwnedOnce`. `CloudInv` says where a buffer may be at each statement and that no two places hold the same
  one. The source allocates a buffer when the queue of free ones is empty; `Clouds` always has one that is nowhere, by a
  pigeonhole over the other queue, the decoder and the worker (`Spare`).
- `PublishesInOrder`: `RevolutionsInOrder`. `Ordered` puts all revolutions on their way in one line: published, in the worker's hand, in
  the queue oldest first, in the decoder.
- `ImplementsFeed`: the safety part of the refinement of `GatedFeed`.

About `LidarSockets`, in the same module, for any number of descriptors:

- `SocketsInvariant`: `SocketsInv`: before each of its system calls, the input owns exactly the descriptors it still has to close
  (`SlotsHold`). The kernel's lowest free descriptor is one that nobody owns (`LowestIsFree`), so a close and an open
  of other threads in between leave the input's alone.
- `ClosesAll`, `OwnsItsSockets`, `ClosesOnlyItsOwn`: `AllClosed`, `SocketsOwn`, `ClosesOnlyOwn`.

**`Revolutions_proofs`**, for any length of a turn and of a packet, any number of lasers, any calibration, surroundings and
settings, and any number of packets on their way in any order

- `RevolutionsInvariant`: `RevolutionsInv`, for the cloud in hand and for each finished one alike, and `ShownInv` for what was just
  published. None of the three properties is inductive: they judge a cloud when it is finished, and what makes it right is what was
  true block by block. `PlacesOK` says that each block of the stream is decoded once (what is in hand and what is in the
  cloud come from packets that have left the network, and from different places of the stream). `StampsOK` ties `prev_angle_` and
  the two time stamps to the first and the latest block. `Rising` and `Sweeping` say that between two splits the azimuth never
  falls, so that a step of less than a turn forward stays in its turn and one back goes to the turn before. `Drawn` says
  that the points are returns of the blocks (`FromBlocks`), each once (`EachOnce`), all of them unless the cloud was cleared
  (`AllOf`), and with the invalid ones in whole rows (`InRows`).
- `SplitsAtTurns`: `OneCloudPerTurn`. The hard part is `NextBlock`: what the place of the next block is, given that the azimuth has
  not passed the split angle since the last one, by the arithmetic of quotients and remainders.
- `StampsItsTurn`: `StampOfItsTurn`.
- `PublishesItsTurn`: `MessageOfItsTurn`, with `Sections`, that the decoder's test of an azimuth against the section's two ends is
  membership in the azimuths asked for, and `ChannelOf`, that each return of a block has its channel.

The loop over a block's channels is a recursive function. That it exists, and that what it returns draws the block,
is proved from the least channel for which it would not (`Looping`, `Drawing`), which needs no induction theorem.

The proof found `OneCloudPerTurn` wrong. It said that no cloud sweeps more than a turn however packets are reordered,
which is true of two packets on their way, as the run had them, but not of three: a packet overtaken by one that was overtaken itself
makes the azimuth step back twice in one cloud. The property now says so, and the run has three packets on their way.

**`ScanProjector_proofs`**, for any candidates and points, clouds of any size

- `AcceptsWhatConstructs`: `AcceptedConstructs`: what the node's constructor accepts, NaNs among the candidates, has only numbers where
  the projector needs them (`AcceptedIsOrdered`), at least one beam, and its last beam not past the sweep.
- `ShowsClosest`: `ClosestInBeam`, from the inductive `ScanInv`: every beam shows the closest of the points seen in its directions, or
  its empty value. The hard part is `OneBeam`: the bin a bearing is divided into, with the angle at the end of the sweep folded into
  the last one, is the only bin whose directions cover it.
- `HasNoBlindSpot`: `NoBlindSpot`: every point of the scan is covered by a beam, which shows it or a closer one.

The attempt to prove `AcceptedConstructs` found the model wrong: one number stood both for infinity and for the limit of the declared
distances, so that a range at that limit was refused as infinite, which the code does not. `LidarSettings` now has
`Farthest` and `Beyond`, and the run has ranges on both sides of the limit.

**Only model-checked.** Liveness under fairness (`CallbacksReturn`, `Rebinds`,
`RevolutionsDelivered`, the fairness of all three refinements): `ENABLED` and fairness are out of the prover's reach. That the conversions read the numbers
of a field right (`MeaningAssumption`): TLC evaluates it on the reports of the run.

## 5. Known deviations

Behaviour met while modelling that the properties either state an exception for or leave out.
The two of section 3 have runs; these have none.

- `nmea_fix_assembler.cpp:125`: the fix of a GGA without an HDOP has a NaN covariance of type "approximated".
  `HealthSeesFix` states that the health node takes it for unknown; other consumers see the NaN.
- `nmea_parser.cpp:188`: the time of day is put on the date of the host when it handles the sentence, so a sentence
  that crosses midnight in the network, or a host clock on the other side of it, is dated a day off, although
  `nmea_fix_assembler.hpp:72` says "Receiver UTC". `DatedByHost` states exactly when. Hours, minutes and seconds out of
  range are carried over, not refused.
- `nmea_parser.cpp:139`: the degrees of a coordinate are cut off by position before blanks are trimmed, so a leading
  blank shifts its digits; no receiver writes one, and `NmeaLink` sends none.
- `udp_nmea_receiver.cpp:104`, `nmea_checksum.cpp:75`: a datagram larger than the buffer is cut without a sign. A sentence that is cut and has a
  character damaged into a star can pass for a shorter one, if what is left happens to end in the right digits; a checksum
  of one byte cannot exclude it. `SentencesIntact` excepts it, and the proof shows that it is the only case.
- `nmea_fix_assembler.cpp:150`, `:178`: a VTG or RMC with an empty course gives a velocity of NaNs, which is published.
- `decoder.hpp:430`: with `ts_first_point`, which is the default, the first cloud of each activation is stamped zero, since
  the time of its first point is noted only at a split; `rover_rs16_lidar_node.cpp:162` says "True stamps a cloud with its
  first point". `StampOfItsTurn` excepts it.
- `split_strategy.hpp:59`: a late packet makes the azimuth step back, which looks like a turn: it can end a cloud early.
  A gap of more than a turn can step over the split angle, so that two turns make one cloud. `OneCloudPerTurn` says what holds
  without, and for reordered packets that a cloud which steps back at most once sweeps less than a turn.
- `section.hpp:63`: an azimuth that calibration carries below zero or past the full turn is not wrapped, so a part of a turn that
  begins or ends there loses or gains the returns at the edge. `MessageOfItsTurn` excepts those.
- `decoder.hpp:488`: a cloud of more than five million points is emptied in the middle of a turn, and what follows is
  published with the same time. `MessageOfItsTurn` allows for it.
- `rover_rs16_lidar_node.cpp:255`: `publish_frequency` has a declared range but no check of its own, so a NaN reaches the
  period of the tick timer.
- `rover_gps_driver_node.cpp:187`: on_activate reads `receiver_.boundPort()` for its log line
  after it has started the thread that may be closing and re-opening that receiver
  (`udp_nmea_receiver.hpp:39`). `DriverInv` covers `open`, `close` and `receive`.
- `rover_gps_driver_node.cpp:182`: when the thread cannot be created, the node is finalised with
  its port bound and its publishers active, until it is destroyed. `PortReleased` excepts it.
- `gps_health_evaluator.cpp:94`, `lidar_health_evaluator.cpp:85`: an age is clamped at zero, so a clock
  stepped *back* keeps a dead stream OK for the size of the step, and stamps from
  before the step stay in the deque. `GpsHealth` is run with forward steps.
- `gps_health_evaluator.cpp:117`: a rate needs two arrivals in the window; a stream slower than the
  window is never judged by its rate. `EvaluateMeetsTable` states the table with that reservation.
- `monitor_lidar_use_case.cpp`, `stream_lidar_use_case.cpp:45`: a revolution is recorded after it was
  published. When publishing takes longer than a period, the second recorded cloud of a new stream can
  give a passing WARN. `RecoveryShown` allows for `MaxWork`.
- `rs_driver_lidar_source.cpp:201`: "drain it first"; but the worker's flag is set with
  revolutions still queued, and they are dropped. `RevolutionsDelivered` excepts a source that
  is being stopped.
- `rs_driver_lidar_source.cpp:191`: when `driver.start()` throws, `started` is false
  while the worker runs; destroying the source then destroys a joinable `std::thread` and the
  process terminates. `LidarNode` has the state "terminated" for it, and
  `rover_rs16_lidar/README.md:28` promises a node that stays inactive.
- `lidar_driver_impl.hpp:408`: `packetPut` clears the queue from the producer's thread when it is full,
  also in the middle of a `popBatch`: after it, null and repeated packets can be taken.
  `OrderedUntilCleared` says what holds until then. With 102400 slots the decoder must
  fall about two minutes behind for it.
- `input_sock_select.hpp:79`: `int fds_[3]{-1}` leaves two zeros; the destructor after a failed
  `init()` closes descriptor 0. `ClosesOnlyOwn` is stated for inputs whose `init()` succeeded.
- `input_sock_select.hpp:227`, `:234`, `:240`: three early returns forget the bound socket. In
  `LidarSockets` such a descriptor is owned by "leaked", which `AllClosed` does not count.
- `input_sock_select.hpp:329`: an error of `select` ends the reception for as long as the node stays
  active. The health monitor shows it.
- `lidar_driver_impl.hpp:122`, `input.hpp:79`: the exit flags are plain `bool`s, a data race; the models
  assume that the loops see them.

## 6. What is not modelled

- Of the RS16 decoder: dual return, a motor speed that the DIFOP changes, and the trigonometry that makes
  coordinates of an angle and a distance. In `Revolutions` the sensor turns evenly in one direction, and
  an interpolated azimuth is a whole number of units. `LidarNode` leaves to the decoder's choice which packet
  completes a revolution.
- The other decoders and inputs of rs_driver: vendored, and never selected by the node. The pcap input
  replays files for bench work and needs libpcap.
- The factors from knots to metres a second and from degrees to radians, the sine and cosine of velocities and
  headings, and frame ids. Exponents, hexadecimal numbers, "inf" and "nan", which `strtod` would read in a field.
- Floating point: angles, ranges and stamps are integers; rounding in `ScanProjector` and the spans of
  `rateHz` are exact.
- `IngestNmeaUseCase::reset()`, which only a test calls. Nothing resets the assembler between two activations,
  which is why `NmeaPipeline` has no such action.
- The layout of the point fields, and which nodes listen with which quality of service.
- `host_address`, `group_address`, `pcap_repeat` and `min_points_warn`, which no check compares with anything.
- Launch files, configuration and scripts.

## 7. Plan

Written in this order, the most important behaviour first: (1) `GpsDriver` with `GatedFeed`; (2) `NmeaPipeline`;
(3) `RateWindow`, `GpsHealth`; (4) `LidarNode`; (5) `SyncQueue` with `Fifo`, `LidarSockets`;
(6) `ScanProjector`, `LidarHealth`; (7) the proofs about `GpsDriver` and `SyncQueue`; (8) `NmeaText` and `NmeaLink`;
(9) `LidarSettings`; (10) `Revolutions`; (11) the proofs about `NmeaPipeline`; (12) those about `LidarNode`, `LidarSockets`,
`GpsHealth`, `LidarHealth` and `ScanProjector`, and about `SyncQueue` until it is cleared; (13) the decoder's loop of `Revolutions` in steps, and the
proofs about it; (14) the loop of `handleDatagram` in steps, and the proofs about `NmeaLink`.

Next:

- *Model*: dual return and a changing motor speed in `Revolutions`; the receive loop in `LidarSockets`: both sockets
  in one `select`, and the exit flag.
