---------------------------- MODULE LidarSettings ----------------------------
(***************************************************************************)
(* What the lidar node is configured with and what it refuses: the ranges  *)
(* its parameters are declared with, LidarSettings::validate and           *)
(* LidarHealthEvaluator::validate.  A floating-point setting is a set: {}  *)
(* is NaN and {x} is x, so that every comparison with a NaN is false.      *)
(* Units are those of the instance: an eighth of a turn for the bearings,  *)
(* degrees for the sensor's angles.                                        *)
(***************************************************************************)
EXTENDS Integers, Sequences

NaN       == {}
Number(x) == {x}
Lt(a, b)  == \E x \in a, y \in b : x < y
Le(a, b)  == \E x \in a, y \in b : x <= y

Farthest == 1000                     \* of the declared distances
Beyond   == 10000                    \* stands for infinity
IsFloat(a) == a \subseteq Int /\ \A x, y \in a : x = y
Finite(a) == \E x \in a : x \in 1 - Beyond .. Beyond - 1

Axes == {"x", "y", "z"}
HalfTurn == 4                        \* pi

(* The defaults of SensorSettings, ScanSettings and LidarHealthThresholds, *)
(* as far as something depends on them.                                    *)
SensorDefaults ==
  [input |-> "lidar", msopPort |-> 6699, difopPort |-> 7788,
   minDistance |-> Number(0), maxDistance |-> Number(100),
   startAngle |-> Number(0), endAngle |-> Number(360),
   pcapPath |-> "", pcapRate |-> Number(1)]

ScanDefaults ==
  [enabled |-> TRUE, minHeight |-> Number(-1), maxHeight |-> Number(1),
   angleMin |-> Number(-HalfTurn), angleMax |-> Number(HalfTurn), increment |-> Number(1),
   scanTime |-> Number(1), rangeMin |-> Number(1), rangeMax |-> Number(2),
   useInf |-> TRUE, boxes |-> <<>>]

HealthDefaults == [expectedRate |-> Number(10), minRateRatio |-> Number(1),
                   cloudTimeout |-> Number(1), startupGrace |-> Number(5)]

SettingDefaults ==
  [frameId |-> "lidar_link", cloudTopic |-> "rslidar_points", scanTopic |-> "scan",
   queueSize |-> 10, sensor |-> SensorDefaults, scan |-> ScanDefaults, health |-> HealthDefaults]

-----------------------------------------------------------------------------
(* A declared range refuses what lies outside; a NaN does not.             *)
Outside(a, from, to) == Lt(a, Number(from)) \/ Lt(Number(to), a)
NotPositive(a, to)   == Outside(a, 1, to)

Within(n, from, to) == n \in from .. to

InputTypes == {"lidar", "pcap"}      \* parseInputType

(* declareParameters throws for what parseInputType does not know and for  *)
(* what is outside a declared range.                                       *)
Declared(s) ==
  /\ s.sensor.input \in InputTypes
  /\ Within(s.queueSize, 1, 1000)
  /\ Within(s.sensor.msopPort, 1, 65535) /\ Within(s.sensor.difopPort, 1, 65535)
  /\ ~Outside(s.sensor.minDistance, 0, Farthest)
  /\ ~NotPositive(s.sensor.maxDistance, Farthest)
  /\ ~Outside(s.sensor.startAngle, 0, 360) /\ ~Outside(s.sensor.endAngle, 0, 360)
  /\ ~NotPositive(s.sensor.pcapRate, 100)
  /\ ~Outside(s.scan.minHeight, -100, 100) /\ ~Outside(s.scan.maxHeight, -100, 100)
  /\ ~Outside(s.scan.angleMin, -HalfTurn, HalfTurn)
  /\ ~Outside(s.scan.angleMax, -HalfTurn, HalfTurn)
  /\ ~NotPositive(s.scan.increment, 2 * HalfTurn) /\ ~NotPositive(s.scan.scanTime, 100)
  /\ ~Outside(s.scan.rangeMin, 0, Farthest) /\ ~NotPositive(s.scan.rangeMax, Farthest)
  /\ ~NotPositive(s.health.expectedRate, 100) /\ ~NotPositive(s.health.minRateRatio, 1)
  /\ ~NotPositive(s.health.cloudTimeout, 600) /\ ~NotPositive(s.health.startupGrace, 600)

(* A bound that is not configured is a NaN.                                *)
ValidateSelfFilterBox(box) ==
  /\ box.name # ""
  /\ \A axis \in Axes : /\ Finite(box.min[axis]) /\ Finite(box.max[axis])
                        /\ Lt(box.min[axis], box.max[axis])

ValidateSensor(sensor) ==
  /\ sensor.msopPort # 0 /\ sensor.difopPort # 0 /\ sensor.msopPort # sensor.difopPort
  /\ Le(Number(0), sensor.minDistance) /\ Lt(sensor.minDistance, sensor.maxDistance)
  /\ \A angle \in {sensor.startAngle, sensor.endAngle} :
       Le(Number(0), angle) /\ Le(angle, Number(360))
  /\ sensor.input = "pcap" => sensor.pcapPath # "" /\ Lt(Number(0), sensor.pcapRate)

(* Mutant: the ranges are compared as the projector's constructor does it, *)
(* by what must not hold.                                                  *)
ValidateScanNegated(scan) ==
  /\ ~Le(scan.maxHeight, scan.minHeight) /\ ~Le(scan.angleMax, scan.angleMin)
  /\ ~Le(scan.increment, Number(0))
  /\ ~Lt(scan.rangeMin, Number(0)) /\ ~Le(scan.rangeMax, scan.rangeMin)

ValidateScan(scan) ==
  /\ Lt(scan.minHeight, scan.maxHeight) /\ Lt(scan.angleMin, scan.angleMax)
  /\ Lt(Number(0), scan.increment)
  /\ Le(scan.increment, {b - a : a \in scan.angleMin, b \in scan.angleMax})
  /\ Le(Number(0), scan.rangeMin) /\ Lt(scan.rangeMin, scan.rangeMax)
  /\ Lt(Number(0), scan.scanTime)
  /\ \A i \in DOMAIN scan.boxes :
       /\ ValidateSelfFilterBox(scan.boxes[i])
       /\ \A j \in 1 .. i - 1 : scan.boxes[j].name # scan.boxes[i].name

(* LidarSettings::validate, which is done when there is no scan.           *)
Validate(s) ==
  /\ s.frameId # "" /\ s.cloudTopic # "" /\ s.queueSize > 0
  /\ ValidateSensor(s.sensor)
  /\ s.scan.enabled => s.scanTopic # "" /\ ValidateScan(s.scan)

(* LidarHealthEvaluator::validate                                          *)
ValidateHealth(health) ==
  \A a \in {health.expectedRate, health.minRateRatio, health.cloudTimeout, health.startupGrace} :
    Lt(Number(0), a)

(* The node's constructor.                                                 *)
Accepts(s) == Declared(s) /\ Validate(s) /\ ValidateHealth(s.health)
=============================================================================
