----------------------------- MODULE Revolutions -----------------------------
(***************************************************************************)
(* From the sensor's packets to a message: a packet may be lost, late or   *)
(* cut short, the RS16 decoder (decoder_RS16.hpp) filters its points and   *)
(* splits the stream where the azimuth passes the split angle, and the     *)
(* worker of the source (rs_driver_lidar_source.cpp) and the publishers    *)
(* turn each cloud into a PointCloud2 and a LaserScan.  The life of the    *)
(* two threads and of the buffers between them is LidarNode's.             *)
(*                                                                         *)
(* A block is two firings of all lasers.  The unit of azimuth is what the  *)
(* sensor turns from a firing to the next, and of time how long that takes.*)
(***************************************************************************)
EXTENDS Integers, FiniteSets, Sequences

CONSTANTS
  Turn,           \* firings in a turn, RS_ONE_ROUND
  Lasers,         \* LASER_NUM
  Calibration,    \* a laser's horizontal angle, which a DIFOP carries
  World,          \* the distance at an azimuth and laser, 0 without a return
  Setups,         \* sensor settings and the sensor's first azimuth
  BlocksPerPkt, QueueCap, PointMax, Second,
  MaxPackets,     \* bound on the packets sent
  MaxFlight       \* bound on the packets on their way

ASSUME RevolutionAssumption ==
  /\ Turn \in Nat \ {0} /\ Lasers \in Nat \ {0} /\ BlocksPerPkt \in Nat \ {0}
  /\ Second \in Nat \ {0} /\ QueueCap \in Nat /\ PointMax \in Nat
  /\ Calibration \in [1 .. Lasers -> Int]
  /\ World \in [0 .. Turn - 1 -> [1 .. Lasers -> Nat]]
  /\ \A s \in Setups :
       /\ s.first \in 0 .. Turn - 1 /\ {s.start, s.end} \subseteq 0 .. Turn
       /\ {s.near, s.far} \subseteq Nat
       /\ {s.dense, s.tsFirst, s.lidarClock, s.waitDifop} \subseteq BOOLEAN

VARIABLES
  setup,            \* the settings
  sent, flight,     \* packets sent so far, and those on their way
  ready,            \* angles_ready_
  todo,             \* blocks of the packet in hand that are still to decode
  prev,             \* prev_angle_ of the split strategy
  firstTs, lastTs,  \* first_point_ts_, prev_point_ts_
  points, seq,      \* of point_cloud_; point_cloud_seq_
  blocks, cleared,  \* observers: blocks since the last split; the points were cleared
  filled,           \* filled_clouds
  message,          \* message_ of the cloud publisher
  shown             \* observer: the cloud just published, whether to anyone, the scan's stamp

decVars  == <<prev, firstTs, lastTs, points, seq, blocks, cleared>>
vars     == <<setup, sent, flight, ready, todo, decVars, filled, message, shown>>

Start       == 2 * Second                    \* of the host's clock
LidarStart  == 4 * Second                    \* of the sensor's
PacketTime  == 2 * BlocksPerPkt              \* getPacketDuration
SplitAngle  == 0

-----------------------------------------------------------------------------
(* AzimuthSection *)
Round(angle) == angle % Turn
InSection(angle) ==
  LET start == Round(setup.start)  end == Round(setup.end)
  IN  \/ Round(setup.end - setup.start) = 0
      \/ start > end /\ (angle >= start \/ angle < end)
      \/ start <= end /\ angle >= start /\ angle < end

(* DistanceSection, with the limits that a validated setting gives it.     *)
InDistance(d) == d \in setup.near .. setup.far

(* The point of a block's channel, known by when it was fired, counted in  *)
(* firings, and by its laser.                                              *)
Point(block, chan) ==
  LET firing == IF chan > Lasers THEN 1 ELSE 0
      laser  == chan - firing * Lasers
      angle  == block.angle + firing + (IF ready THEN Calibration[laser] ELSE 0)
  IN  [fired |-> block.pos + firing, laser |-> laser,
       valid |-> InDistance(World[(block.pos + firing) % Turn][laser]) /\ InSection(angle)]

(* The loop over the channels of a block; `more' is what is in the cloud.   *)
Channels == 2 * Lasers
Kept(block, chan) == ~setup.dense \/ Point(block, chan).valid
AfterChannels(more, block) ==
  LET after[chan \in 0 .. Channels] ==
        IF chan = 0 THEN more
        ELSE IF Kept(block, chan) THEN Append(after[chan - 1], Point(block, chan))
        ELSE after[chan - 1]
  IN  after[Channels]

(* Mutant: a block at the split angle splits again after itself.           *)
NewBlockTwice(angle) ==
  LET before == IF angle < prev THEN prev - Turn ELSE prev
  IN  before <= SplitAngle /\ SplitAngle <= angle

(* SplitStrategyByAngle::newBlock *)
NewBlock(angle) ==
  LET before == IF angle < prev THEN prev - Turn ELSE prev
  IN  before < SplitAngle /\ SplitAngle <= angle

(* Mutant: the setting is taken the other way round.                       *)
CloudTsSwapped == IF setup.tsFirst THEN lastTs ELSE firstTs

CloudTs == IF setup.tsFirst THEN firstTs ELSE lastTs

(* setPointCloudHeader; `next' is the block that ends the cloud.           *)
Cloud(next) ==
  LET height == IF setup.dense THEN 1 ELSE Lasers
  IN  [seq |-> seq, timestamp |-> CloudTs, dense |-> setup.dense, points |-> points,
       height |-> height, width |-> Len(points) \div height,
       blocks |-> blocks, next |-> next, cleared |-> cleared]

(* The blocks of a packet, with the times the decoder gives them.          *)
HostTime == Start + PacketTime * sent
PacketTs(p) == IF setup.lidarClock THEN LidarStart + PacketTime * p ELSE HostTime - PacketTime

Blocks(p) ==
  [i \in 1 .. BlocksPerPkt |->
     LET pos == setup.first + 2 * (BlocksPerPkt * p + i - 1)
     IN  [pos |-> pos, angle |-> pos % Turn, ts |-> PacketTs(p) + 2 * (i - 1),
         calibrated |-> ready]]

-----------------------------------------------------------------------------
Init ==
  /\ setup \in Setups
  /\ sent = 0 /\ flight = {} /\ ready = FALSE
  /\ todo = <<>> /\ prev = SplitAngle /\ firstTs = 0 /\ lastTs = 0
  /\ points = <<>> /\ seq = 0 /\ blocks = <<>> /\ cleared = FALSE
  /\ filled = <<>> /\ shown = <<>>
  /\ message = [width |-> 0, height |-> 0, rowStep |-> 0, dense |-> FALSE,
                stamp |-> [sec |-> 0, frac |-> 0], data |-> <<>>]

Send ==
  /\ sent < MaxPackets /\ Cardinality(flight) < MaxFlight
  /\ flight' = flight \cup {sent}
  /\ sent' = sent + 1 /\ shown' = <<>>
  /\ UNCHANGED <<setup, ready, todo, decVars, filled, message>>

Lose(p) ==
  /\ flight' = flight \ {p} /\ shown' = <<>>
  /\ UNCHANGED <<setup, sent, ready, todo, decVars, filled, message>>

(* processDifopPkt, for one whose angles are good. *)
Difop ==
  /\ todo = <<>>
  /\ ready' = TRUE /\ shown' = <<>>
  /\ UNCHANGED <<setup, sent, flight, todo, decVars, filled, message>>

(* processMsopPkt: a cloud that has grown too large is cleared, and until  *)
(* a DIFOP came the packet is dropped.  A block with a wrong id ends it    *)
(* after `good' blocks.                                                    *)
Msop(p, good) ==
  /\ todo = <<>>
  /\ flight' = flight \ {p} /\ shown' = <<>>
  /\ IF Len(points) > PointMax THEN points' = <<>> /\ cleared' = TRUE
                               ELSE UNCHANGED <<points, cleared>>
  /\ todo' = IF setup.waitDifop /\ ~ready THEN <<>> ELSE SubSeq(Blocks(p), 1, good)
  /\ UNCHANGED <<setup, sent, ready, prev, firstTs, lastTs, seq, blocks, filled, message>>

(* submitCloud: push drops what does not fit. *)
Push(cloud) ==
  filled' = IF Len(filled) < QueueCap THEN Append(filled, cloud) ELSE filled

(* A turn of the loop over blocks in internDecodeMsopPkt: a block that     *)
(* goes on with the revolution.                                            *)
Decode ==
  /\ todo # <<>> /\ ~NewBlock(Head(todo).angle)
  /\ points' = AfterChannels(points, Head(todo))
  /\ blocks' = Append(blocks, Head(todo))
  /\ UNCHANGED <<firstTs, seq, cleared, filled>>
  /\ todo' = Tail(todo) /\ prev' = Head(todo).angle /\ lastTs' = Head(todo).ts + 1 /\ shown' = <<>>
  /\ UNCHANGED <<setup, sent, flight, ready, message>>

(* A turn whose block begins a revolution: splitFrame keeps an empty cloud. *)
DecodeSplit ==
  /\ todo # <<>> /\ NewBlock(Head(todo).angle)
  /\ IF points = <<>> THEN UNCHANGED <<seq, filled>> ELSE Push(Cloud(Head(todo))) /\ seq' = seq + 1
  /\ points' = AfterChannels(<<>>, Head(todo))
  /\ blocks' = <<Head(todo)>> /\ cleared' = FALSE /\ firstTs' = Head(todo).ts
  /\ todo' = Tail(todo) /\ prev' = Head(todo).angle /\ lastTs' = Head(todo).ts + 1 /\ shown' = <<>>
  /\ UNCHANGED <<setup, sent, flight, ready, message>>

Stamp(t) == [sec |-> t \div Second, frac |-> t % Second]

(* convert                                                                 *)
Convert(cloud) ==
  [width |-> cloud.width, height |-> cloud.height, timestamp |-> cloud.timestamp,
   dense |-> cloud.dense, points |-> cloud.points]

(* Mutant: the data grows but does not shrink.                             *)
FilledGrown(data, more) == more \o SubSeq(data, Len(more) + 1, Len(data))

(* message_.data, resized and filled. *)
Filled(data, more) == more

(* The PointCloud2 that Ros2PointCloudPublisher makes of its last one: the *)
(* two dimensions are swapped.                                             *)
CloudMessage(last, frame) ==
  [width |-> frame.height, height |-> frame.width, rowStep |-> frame.height, dense |-> frame.dense,
   stamp |-> Stamp(frame.timestamp), data |-> Filled(last.data, frame.points)]

(* The LaserScan, as far as ScanProjector does not describe it.            *)
ScanStamp(frame) == Stamp(frame.timestamp)

(* The worker converts a cloud and onFrame publishes it, the PointCloud2   *)
(* only if anyone listens.                                                 *)
Publish(subscribed) ==
  /\ filled # <<>>
  /\ LET frame == Convert(Head(filled))
     IN  /\ message' = IF subscribed THEN CloudMessage(message, frame) ELSE message
         /\ shown' = <<[cloud |-> Head(filled), subscribed |-> subscribed, scan |-> ScanStamp(frame)]>>
  /\ filled' = Tail(filled)
  /\ UNCHANGED <<setup, sent, flight, ready, todo, decVars>>

Next ==
  \/ Send \/ Difop \/ Decode \/ DecodeSplit
  \/ \E p \in flight : Lose(p) \/ \E good \in 0 .. BlocksPerPkt : Msop(p, good)
  \/ \E subscribed \in BOOLEAN : Publish(subscribed)

Spec == Init /\ [][Next]_vars

-----------------------------------------------------------------------------
Members(s) == {s[i] : i \in DOMAIN s}
TurnOf(b)  == b.pos \div Turn
Gaps(bs)   == {bs[i + 1].pos - bs[i].pos : i \in 1 .. Len(bs) - 1}
Backs(bs)  == {i \in 1 .. Len(bs) - 1 : bs[i + 1].pos < bs[i].pos}

(* As long as less than a turn is lost in a row, a cloud holds blocks of   *)
(* one turn and ends with the first block of another.  When packets come   *)
(* in the wrong order it sweeps less than a turn, unless it goes back      *)
(* twice: a packet overtaken by one that was overtaken itself.             *)
OneCloudPerTurn ==
  /\ \A bs \in {c.blocks : c \in Members(filled)} \cup {blocks} :
       /\ Gaps(bs) \subseteq 1 .. Turn - 1 => \A a, b \in Members(bs) : TurnOf(a) = TurnOf(b)
       /\ Gaps(bs) \subseteq 1 - Turn .. Turn - 1 /\ (\A i, j \in Backs(bs) : i = j) =>
            \A a, b \in Members(bs) : a.pos - b.pos < Turn
  /\ \A c \in Members(filled) :
       Gaps(Append(c.blocks, c.next)) \subseteq 1 .. Turn - 1 =>
         TurnOf(c.next) # TurnOf(c.blocks[Len(c.blocks)])

(* The returns of a block that the settings ask for, by the azimuth they   *)
(* come from; and those whose azimuth, as the decoder has it, is off the   *)
(* scale because calibration or the second firing carried it over the end, *)
(* which a part of a turn does not treat as what they are.                 *)
WholeTurn == setup.start % Turn = setup.end % Turn
Azimuths  == IF WholeTurn THEN 0 .. Turn - 1
             ELSE IF setup.start < setup.end THEN setup.start .. setup.end - 1
             ELSE (setup.start .. Turn - 1) \cup (0 .. setup.end - 1)

Fired(block) == {block.pos, block.pos + 1} \X (1 .. Lasers)
Angle(block, f) == block.angle + (f[1] - block.pos) + (IF block.calibrated THEN Calibration[f[2]] ELSE 0)
Asked(block) ==
  {f \in Fired(block) : World[f[1] % Turn][f[2]] \in setup.near .. setup.far
                        /\ Angle(block, f) % Turn \in Azimuths}
OffScale(block) ==
  {f \in Fired(block) : ~WholeTurn /\ Angle(block, f) \notin 0 .. Turn - 1}

(* A published message describes exactly its own revolution, whatever the  *)
(* message before it held: it is as long as its dimensions say, a row of   *)
(* it holds the lasers of one firing in order unless invalid returns were  *)
(* dropped, and it has every return in the configured distance and         *)
(* azimuths once and no other, less what a cleared cloud has lost.         *)
MessageOfItsTurn ==
  \A s \in Members(shown) : s.subscribed =>
    LET data  == message.data
        valid == {i \in DOMAIN data : data[i].valid}
        off   == UNION {OffScale(b) : b \in Members(s.cloud.blocks)}
        given == {<<data[i].fired, data[i].laser>> : i \in valid} \ off
        asked == (UNION {Asked(b) : b \in Members(s.cloud.blocks)}) \ off
    IN  /\ Len(data) = message.width * message.height /\ message.rowStep = message.width
        /\ IF message.dense THEN valid = DOMAIN data
           ELSE \A i \in DOMAIN data :
                  /\ data[i].laser = ((i - 1) % Lasers) + 1 /\ message.width = Lasers
                  /\ data[i].fired = data[i - (data[i].laser - 1)].fired
        /\ \A i, j \in valid : data[i] = data[j] => i = j
        /\ given \subseteq asked
        /\ s.cloud.cleared \/ given = asked

(* A message and the scan beside it carry one instant, that of the first   *)
(* block of their revolution or, as configured, of the last firing; only   *)
(* the first cloud after the start is stamped zero instead of with its     *)
(* first block.                                                            *)
StampOfItsTurn ==
  \A s \in Members(shown) :
    LET of == s.cloud.blocks  at == s.scan.sec * Second + s.scan.frac
    IN  /\ s.subscribed => message.stamp = s.scan
        /\ IF setup.tsFirst THEN at = of[1].ts \/ (at = 0 /\ s.cloud.seq = 0)
                            ELSE at = of[Len(of)].ts + 1
=============================================================================
