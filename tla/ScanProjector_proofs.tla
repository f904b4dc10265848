------------------------ MODULE ScanProjector_proofs ------------------------
(***************************************************************************)
(* Whatever the node is configured with, a projector is built only from    *)
(* settings that describe beams a consumer can place, and the scan it      *)
(* folds a cloud into has the closest return of every beam's directions.   *)
(***************************************************************************)
EXTENDS ScanProjector, TLAPS

minHeight == The(scan.minHeight)
maxHeight == The(scan.maxHeight)
angleMin  == The(scan.angleMin)
angleMax  == The(scan.angleMax)
increment == The(scan.increment)
rangeMin  == The(scan.rangeMin)
rangeMax  == The(scan.rangeMax)
boxes     == scan.boxes

(* A setting that holds a number. *)
IsNumber(a) == The(a) \in Int /\ a = Number(The(a))

(* What the projector relies on: no setting is a NaN, and they are in order.  *)
Ordered ==
  /\ \A a \in Floats(scan) : IsNumber(a)
  /\ minHeight < maxHeight
  /\ angleMin < angleMax /\ 0 < increment /\ increment <= angleMax - angleMin
  /\ 0 <= rangeMin /\ rangeMin < rangeMax /\ rangeMax <= Farthest
  /\ \A i \in DOMAIN boxes, axis \in Axes :
       /\ IsNumber(boxes[i].min[axis]) /\ IsNumber(boxes[i].max[axis])
       /\ The(boxes[i].min[axis]) < The(boxes[i].max[axis])

-----------------------------------------------------------------------------
(* A setting that is not a NaN is a number.                                   *)
LEMMA SettingIsNumber ==
  ASSUME NEW a, IsFloat(a), a # NaN
  PROVE  IsNumber(a)
<1>1. The(a) \in a
  BY DEF The, NaN
<1> QED BY <1>1 DEF IsFloat, IsNumber, Number

(* A literal is one too.                                                      *)
LEMMA NumberIsNumber ==
  ASSUME NEW x \in Int
  PROVE  IsNumber(Number(x)) /\ The(Number(x)) = x
BY DEF IsNumber, Number, The

(* Numbers compare as integers do.                                            *)
LEMMA Comparing ==
  ASSUME NEW a, NEW b, IsNumber(a), IsNumber(b)
  PROVE  /\ Lt(a, b) <=> The(a) < The(b)
         /\ Le(a, b) <=> The(a) <= The(b)
<1>1. \A x : (x \in a <=> x = The(a)) /\ (x \in b <=> x = The(b))
  BY DEF IsNumber, Number
<1> QED BY <1>1 DEF Lt, Le

(* A comparison that holds was of no NaN.                                     *)
LEMMA NaNCompares ==
  ASSUME NEW a, NEW b, Lt(a, b) \/ Le(a, b)
  PROVE  a # NaN /\ b # NaN
BY DEF Lt, Le, NaN

(* Division rounds down, whatever the sign of what is divided.                *)
LEMMA Dividing ==
  ASSUME NEW a \in Int, NEW b \in Int, b > 0
  PROVE  a \div b \in Int /\ b * (a \div b) <= a /\ a < b * (a \div b) + b
OBVIOUS

(* Multiplication by a natural keeps the order.                               *)
LEMMA Multiples ==
  ASSUME NEW a \in Int, NEW b \in Int, NEW c \in Int, a <= b, c >= 0
  PROVE  a * c <= b * c /\ a * c \in Int /\ b * c \in Int
<1>1. b * c = a * c + (b - a) * c /\ (b - a) * c >= 0
  OBVIOUS
<1> QED BY <1>1

-----------------------------------------------------------------------------
(* What the node's constructor lets through is in order, NaN or not.          *)
LEMMA AcceptedIsOrdered ==
  ASSUME settings \in Candidates, Accepts(settings), scan.enabled
  PROVE  Ordered /\ (\A a \in Floats(scan) : Finite(a))
         /\ -HalfTurn <= angleMin /\ angleMax <= HalfTurn
         /\ \A i \in DOMAIN boxes : ValidateSelfFilterBox(boxes[i])
<1>0. ValidateScan(scan)
  BY DEF Accepts, Validate, scan
<1>1. /\ Lt(scan.minHeight, scan.maxHeight) /\ Lt(scan.angleMin, scan.angleMax)
      /\ Lt(Number(0), scan.increment)
      /\ Le(scan.increment, {b - a : a \in scan.angleMin, b \in scan.angleMax})
      /\ Le(Number(0), scan.rangeMin) /\ Lt(scan.rangeMin, scan.rangeMax)
      /\ Lt(Number(0), scan.scanTime)
  BY <1>0 DEF ValidateScan
<1>2. \A i \in DOMAIN boxes : ValidateSelfFilterBox(boxes[i])
  BY <1>0 DEF ValidateScan, boxes
<1>3. \A a \in Floats(scan) : IsNumber(a)
  <2>1. \A a \in Floats(scan) : IsFloat(a)
    BY CandidatesAssumption DEF scan
  <2>2. \A a \in Floats(scan) : a # NaN
    BY <1>1, NaNCompares DEF Floats
  <2> QED BY <2>1, <2>2, SettingIsNumber
<1>4. /\ IsNumber(scan.minHeight) /\ IsNumber(scan.maxHeight) /\ IsNumber(scan.angleMin)
      /\ IsNumber(scan.angleMax) /\ IsNumber(scan.increment) /\ IsNumber(scan.rangeMin)
      /\ IsNumber(scan.rangeMax) /\ IsNumber(scan.scanTime)
  BY <1>3 DEF Floats
<1>5. /\ minHeight \in Int /\ maxHeight \in Int /\ angleMin \in Int /\ angleMax \in Int
      /\ increment \in Int /\ rangeMin \in Int /\ rangeMax \in Int /\ The(scan.scanTime) \in Int
  BY <1>4 DEF IsNumber, minHeight, maxHeight, angleMin, angleMax, increment, rangeMin, rangeMax
<1>6. {b - a : a \in scan.angleMin, b \in scan.angleMax} = Number(angleMax - angleMin)
  BY <1>4 DEF IsNumber, Number, angleMin, angleMax
<1>7. /\ minHeight < maxHeight /\ angleMin < angleMax /\ 0 < increment
      /\ increment <= angleMax - angleMin
      /\ 0 <= rangeMin /\ rangeMin < rangeMax /\ 0 < The(scan.scanTime)
  <2>1. minHeight < maxHeight /\ angleMin < angleMax /\ rangeMin < rangeMax
    BY <1>1, <1>4, Comparing DEF minHeight, maxHeight, angleMin, angleMax, rangeMin, rangeMax
  <2>2. 0 < increment /\ 0 <= rangeMin /\ 0 < The(scan.scanTime)
    BY <1>1, <1>4, Comparing, NumberIsNumber DEF increment, rangeMin
  <2>3. IsNumber(Number(angleMax - angleMin)) /\ The(Number(angleMax - angleMin)) = angleMax - angleMin
    BY <1>5, NumberIsNumber
  <2>4. Le(scan.increment, Number(angleMax - angleMin))
    BY <1>1, <1>6
  <2>5. increment <= angleMax - angleMin
    BY <1>4, <2>3, <2>4, Comparing DEF increment
  <2> QED BY <2>1, <2>2, <2>5
<1>8. /\ -100 <= minHeight /\ maxHeight <= 100 /\ -HalfTurn <= angleMin /\ angleMax <= HalfTurn
      /\ rangeMax <= Farthest /\ increment <= 2 * HalfTurn /\ The(scan.scanTime) <= 100
  <2>1. ASSUME NEW a, IsNumber(a), NEW from \in Int, NEW to \in Int, ~Outside(a, from, to)
        PROVE  from <= The(a) /\ The(a) <= to
    <3>1. ~(The(a) < from) /\ ~(to < The(a))
      BY <2>1, NumberIsNumber, Comparing DEF Outside
    <3> QED BY <2>1, <3>1 DEF IsNumber
  <2>2. /\ ~Outside(scan.minHeight, -100, 100) /\ ~Outside(scan.maxHeight, -100, 100)
        /\ ~Outside(scan.angleMin, -HalfTurn, HalfTurn) /\ ~Outside(scan.angleMax, -HalfTurn, HalfTurn)
        /\ ~Outside(scan.rangeMax, 1, Farthest) /\ ~Outside(scan.increment, 1, 2 * HalfTurn)
        /\ ~Outside(scan.scanTime, 1, 100)
    BY DEF Accepts, Declared, NotPositive, scan
  <2>3. -100 \in Int /\ 100 \in Int /\ -HalfTurn \in Int /\ HalfTurn \in Int /\ 1 \in Int
        /\ Farthest \in Int /\ 2 * HalfTurn \in Int
    BY DEF HalfTurn, Farthest
  <2> QED BY <1>4, <2>1, <2>2, <2>3
          DEF minHeight, maxHeight, angleMin, angleMax, rangeMax, increment
<1>9. \A i \in DOMAIN boxes, axis \in Axes :
        /\ IsNumber(boxes[i].min[axis]) /\ IsNumber(boxes[i].max[axis])
        /\ The(boxes[i].min[axis]) < The(boxes[i].max[axis])
  <2> SUFFICES ASSUME NEW i \in DOMAIN boxes, NEW axis \in Axes
               PROVE  /\ IsNumber(boxes[i].min[axis]) /\ IsNumber(boxes[i].max[axis])
                      /\ The(boxes[i].min[axis]) < The(boxes[i].max[axis])
    OBVIOUS
  <2>1. IsFloat(boxes[i].min[axis]) /\ IsFloat(boxes[i].max[axis])
    BY CandidatesAssumption DEF scan, boxes
  <2>2. Lt(boxes[i].min[axis], boxes[i].max[axis])
    BY <1>2 DEF ValidateSelfFilterBox
  <2>3. IsNumber(boxes[i].min[axis]) /\ IsNumber(boxes[i].max[axis])
    BY <2>1, <2>2, NaNCompares, SettingIsNumber
  <2> QED BY <2>2, <2>3, Comparing
<1>10. Ordered
  BY <1>3, <1>7, <1>8, <1>9 DEF Ordered
<1>11. \A a \in Floats(scan) : Finite(a)
  <2>1. ASSUME NEW a, IsNumber(a), -100 <= The(a), The(a) <= Farthest PROVE Finite(a)
    <3>1. The(a) \in a /\ The(a) \in Int
      BY <2>1 DEF IsNumber, Number
    <3>2. Beyond \in Int /\ 1 - Beyond <= The(a) /\ The(a) <= Beyond - 1
      BY <2>1, <3>1 DEF Beyond, Farthest
    <3> QED BY <3>1, <3>2 DEF Finite
  <2>2. /\ -100 <= maxHeight /\ minHeight <= 100 /\ angleMin <= HalfTurn /\ -HalfTurn <= angleMax
        /\ rangeMin <= Farthest /\ 0 <= rangeMax
    BY <1>5, <1>7, <1>8 DEF HalfTurn, Farthest
  <2> QED BY <1>4, <1>5, <1>7, <1>8, <2>1, <2>2
          DEF Floats, HalfTurn, Farthest, minHeight, maxHeight, angleMin, angleMax, increment,
              rangeMin, rangeMax
<1> QED BY <1>2, <1>8, <1>10, <1>11

(* The beams are the fewest whose increments span the angles.                 *)
LEMMA Beams ==
  ASSUME Ordered
  PROVE  /\ BinCount(scan) \in Nat \ {0}
         /\ (BinCount(scan) - 1) * increment < angleMax - angleMin
         /\ angleMax - angleMin <= BinCount(scan) * increment
<1>1. /\ angleMin \in Int /\ angleMax \in Int /\ increment \in Int
      /\ angleMin < angleMax /\ 0 < increment
      /\ NaN \notin {scan.angleMin, scan.angleMax, scan.increment}
  BY DEF Ordered, Floats, IsNumber, Number, NaN, angleMin, angleMax, increment
<1> DEFINE q == (angleMin - angleMax) \div increment
<1>2. BinCount(scan) = -q
  BY <1>1 DEF BinCount, angleMin, angleMax, increment
<1>3. q \in Int /\ increment * q <= angleMin - angleMax
      /\ angleMin - angleMax < increment * q + increment
  <2> DEFINE d == angleMin - angleMax
  <2>1. d \in Int
    BY <1>1
  <2> HIDE DEF d
  <2>2. d \div increment \in Int /\ increment * (d \div increment) <= d
        /\ d < increment * (d \div increment) + increment
    BY <1>1, <2>1, Dividing
  <2> QED BY <2>2 DEF d
<1> HIDE DEF q
<1>4. q < 0
  <2> SUFFICES ASSUME q >= 0 PROVE FALSE
    BY <1>3
  <2>1. 0 * increment <= q * increment
    BY <1>1, <1>3, Multiples
  <2> QED BY <1>1, <1>3, <2>1
<1>5. (-q - 1) * increment = -(increment * q) - increment /\ (-q) * increment = -(increment * q)
      /\ increment * q \in Int
  BY <1>1, <1>3
<1> QED BY <1>1, <1>2, <1>3, <1>4, <1>5

(* The projector's own checks throw for none of them.                         *)
LEMMA OrderedConstructs ==
  ASSUME Ordered, \A i \in DOMAIN boxes : ValidateSelfFilterBox(boxes[i])
  PROVE  Constructs(scan)
<1>1. /\ minHeight \in Int /\ maxHeight \in Int /\ angleMin \in Int /\ angleMax \in Int
      /\ increment \in Int /\ rangeMin \in Int /\ rangeMax \in Int
      /\ IsNumber(scan.minHeight) /\ IsNumber(scan.maxHeight) /\ IsNumber(scan.angleMin)
      /\ IsNumber(scan.angleMax) /\ IsNumber(scan.increment) /\ IsNumber(scan.rangeMin)
      /\ IsNumber(scan.rangeMax)
  BY DEF Ordered, Floats, IsNumber, minHeight, maxHeight, angleMin, angleMax, increment,
         rangeMin, rangeMax
<1>2. /\ ~(maxHeight <= minHeight) /\ ~(angleMax <= angleMin) /\ ~(increment <= 0)
      /\ ~(rangeMin < 0) /\ ~(rangeMax <= rangeMin)
  BY <1>1 DEF Ordered
<1>3. /\ ~Le(scan.maxHeight, scan.minHeight) /\ ~Le(scan.angleMax, scan.angleMin)
      /\ ~Le(scan.increment, Number(0)) /\ ~Lt(scan.rangeMin, Number(0))
      /\ ~Le(scan.rangeMax, scan.rangeMin)
  BY <1>1, <1>2, Comparing, NumberIsNumber
     DEF minHeight, maxHeight, angleMin, angleMax, increment, rangeMin, rangeMax
<1>4. BinCount(scan) > 0
  BY Beams
<1> QED BY <1>3, <1>4 DEF Constructs, boxes

(* The settings a projector is built from.                                    *)
Built ==
  /\ settings \in Candidates
  /\ node \in {"new", "refused", "built", "cloud_only", "projecting"}
  /\ node \in {"built", "projecting"} => Accepts(settings)
  /\ node = "projecting" => scan.enabled

(* No step leads to settings that were not accepted, and none throws.         *)
LEMMA BuiltStep ==
  ASSUME Built, [Next]_vars
  PROVE  Built'
<1>1. CASE Build
  BY <1>1 DEF Build, Built, scan
<1>2. CASE Configure
  <2>1. scan.enabled => Constructs(scan)
    BY <1>2, AcceptedIsOrdered, OrderedConstructs DEF Configure, Built
  <2> QED BY <1>2, <2>1 DEF Configure, Built, scan
<1>3. CASE NextCloud
  BY <1>3 DEF NextCloud, Built, scan
<1>4. ASSUME NEW p \in Points, Project(p) PROVE Built'
  BY <1>4 DEF Project, Built, scan
<1>5. CASE UNCHANGED vars
  BY <1>5 DEF vars, Built, scan
<1> QED BY <1>1, <1>2, <1>3, <1>4, <1>5 DEF Next

(* A configuration the node accepts never fails in on_configure, and the scan *)
(* it leads to has beams between its angles, ranges and heights in order, no  *)
(* NaN, and no empty self-filter box.                                         *)
THEOREM AcceptsWhatConstructs == Spec => []AcceptedConstructs
<1>1. Init => Built
  BY DEF Init, Built
<1>2. Built => AcceptedConstructs
  <2> SUFFICES ASSUME Built, node = "projecting"
               PROVE  /\ \A a \in Floats(scan) : Finite(a)
                      /\ (BinCount(scan) - 1) * increment < angleMax - angleMin
                      /\ \A i \in DOMAIN boxes, axis \in Axes :
                           The(boxes[i].min[axis]) < The(boxes[i].max[axis])
    BY DEF AcceptedConstructs, Built, increment, angleMin, angleMax, boxes
  <2>1. Ordered /\ \A a \in Floats(scan) : Finite(a)
    BY AcceptedIsOrdered DEF Built
  <2> QED BY <2>1, Beams DEF Ordered
<1>3. Built /\ [Next]_vars => Built'
  BY BuiltStep
<1> QED BY <1>1, <1>2, <1>3, PTL DEF Spec

-----------------------------------------------------------------------------
(* The coordinates of a point.                                                *)
LEMMA PointNumbers ==
  ASSUME NEW p \in Points
  PROVE  /\ p.bearing \in Int /\ p.z \in Int /\ Range2(p) \in Int
         /\ \A axis \in Axes : Coordinate(p, axis) \in Int
<1>1. p.bearing \in -HalfTurn .. HalfTurn /\ p.reach \in Int /\ p.z \in Int
  <2>1. p \in [finite : BOOLEAN, bearing : -HalfTurn .. HalfTurn, reach : Reaches, z : Heights]
    BY DEF Points
  <2>2. p.bearing \in -HalfTurn .. HalfTurn
    BY <2>1
  <2>3. p.reach \in Reaches /\ p.z \in Heights
    BY <2>1
  <2>4. (\A x \in Reaches : x \in Int) /\ (\A x \in Heights : x \in Int)
    BY InputAssumption
  <2> QED BY <2>2, <2>3, <2>4, Zenon
<1>2. Step[p.bearing][1] \in Int /\ Step[p.bearing][2] \in Int
  BY <1>1 DEF Step, HalfTurn
<1>3. Coordinate(p, "x") \in Int /\ Coordinate(p, "y") \in Int /\ Coordinate(p, "z") \in Int
  BY <1>1, <1>2 DEF Coordinate
<1>4. Range2(p) \in Int
  BY <1>3 DEF Range2
<1> QED BY <1>1, <1>3, <1>4 DEF Axes

(* The points that get past every `continue' are those of the scan.           *)
LEMMA KeptIsInScan ==
  ASSUME Ordered, NEW p \in Points
  PROVE  Kept(p) <=> InScan(p)
<1>1. /\ p.bearing \in Int /\ p.z \in Int /\ Range2(p) \in Int
      /\ \A axis \in Axes : Coordinate(p, axis) \in Int
  BY PointNumbers
<1>2. /\ IsNumber(scan.minHeight) /\ IsNumber(scan.maxHeight) /\ IsNumber(scan.angleMin)
      /\ IsNumber(scan.angleMax) /\ IsNumber(scan.rangeMin) /\ IsNumber(scan.rangeMax)
  BY DEF Ordered, Floats
<1>3. IsNumber(Squares(scan.rangeMin)) /\ IsNumber(Squares(scan.rangeMax))
  <2>1. ASSUME NEW a, IsNumber(a) PROVE IsNumber(Squares(a))
    <3>1. Squares(a) = Number(The(a) * The(a)) /\ The(a) * The(a) \in Int
      BY <2>1 DEF IsNumber, Number, Squares
    <3> QED BY <3>1, NumberIsNumber
  <2> QED BY <1>2, <2>1
<1>4. ASSUME NEW x \in Int, NEW a, NEW b, IsNumber(a), IsNumber(b)
      PROVE  ~Lt(Number(x), a) /\ ~Lt(b, Number(x)) <=> x \in The(a) .. The(b)
  <2>1. (Lt(Number(x), a) <=> x < The(a)) /\ (Lt(b, Number(x)) <=> The(b) < x)
    BY <1>4, Comparing, NumberIsNumber
  <2> QED BY <1>4, <2>1 DEF IsNumber
<1>5. ASSUME NEW i \in DOMAIN scan.boxes PROVE Contains(scan.boxes[i], p) <=> InBox(scan.boxes[i], p)
  <2>1. ASSUME NEW axis \in Axes
        PROVE  Le(scan.boxes[i].min[axis], Number(Coordinate(p, axis)))
                 /\ Le(Number(Coordinate(p, axis)), scan.boxes[i].max[axis])
               <=> Coordinate(p, axis)
                     \in The(scan.boxes[i].min[axis]) .. The(scan.boxes[i].max[axis])
    <3> DEFINE a == scan.boxes[i].min[axis]
               b == scan.boxes[i].max[axis]
               x == Coordinate(p, axis)
    <3>1. IsNumber(a) /\ IsNumber(b) /\ x \in Int
      BY <1>1, <2>1 DEF Ordered, boxes
    <3> HIDE DEF a, b, x
    <3>2. (Le(a, Number(x)) <=> The(a) <= x) /\ (Le(Number(x), b) <=> x <= The(b))
      BY <3>1, Comparing, NumberIsNumber
    <3>3. Le(a, Number(x)) /\ Le(Number(x), b) <=> x \in The(a) .. The(b)
      BY <3>1, <3>2 DEF IsNumber
    <3> QED BY <3>3 DEF a, b, x
  <2> QED BY <2>1 DEF Contains, InBox
<1> DEFINE inHeight == p.z \in The(scan.minHeight) .. The(scan.maxHeight)
           inRange  == Range2(p) \in The(Squares(scan.rangeMin)) .. The(Squares(scan.rangeMax))
           inAngles == p.bearing \in The(scan.angleMin) .. The(scan.angleMax)
<1>6. /\ ~Lt(Number(p.z), scan.minHeight) /\ ~Lt(scan.maxHeight, Number(p.z)) <=> inHeight
      /\ ~Lt(Number(Range2(p)), Squares(scan.rangeMin))
           /\ ~Lt(Squares(scan.rangeMax), Number(Range2(p))) <=> inRange
      /\ ~Lt(Number(p.bearing), scan.angleMin) /\ ~Lt(scan.angleMax, Number(p.bearing)) <=> inAngles
  BY <1>1, <1>2, <1>3, <1>4
<1>7. ~IsSelf(p) <=> \A i \in DOMAIN scan.boxes : ~InBox(scan.boxes[i], p)
  BY <1>5 DEF IsSelf
<1>8. Kept(p) <=> p.finite /\ inHeight /\ ~IsSelf(p) /\ inRange /\ inAngles
  BY <1>6 DEF Kept
<1> QED BY <1>7, <1>8 DEF InScan

(* A point of the scan is closer than what an empty beam shows.               *)
LEMMA CloserThanEmpty ==
  ASSUME Ordered, NEW p \in Points, InScan(p)
  PROVE  EmptyValue \in Int /\ Range2(p) < EmptyValue
<1>1. rangeMax \in Int /\ 0 < rangeMax /\ rangeMax <= Farthest /\ scan.rangeMax = Number(rangeMax)
  BY DEF Ordered, Floats, IsNumber, rangeMin, rangeMax
<1>2. The(Squares(scan.rangeMax)) = rangeMax * rangeMax
  <2>1. Squares(scan.rangeMax) = Number(rangeMax * rangeMax) /\ rangeMax * rangeMax \in Int
    BY <1>1 DEF Number, Squares
  <2> QED BY <2>1, NumberIsNumber
<1>3. Range2(p) \in Int /\ Range2(p) <= rangeMax * rangeMax
  BY <1>1, <1>2, PointNumbers DEF InScan
<1>4. rangeMax * rangeMax \in Int /\ rangeMax * rangeMax < (rangeMax + 1) * (rangeMax + 1)
      /\ (rangeMax + 1) * (rangeMax + 1) \in Int
  BY <1>1
<1>5. rangeMax * rangeMax < Infinity /\ Infinity \in Int
  <2>1. rangeMax * rangeMax <= Farthest * Farthest
    <3>1. rangeMax * rangeMax <= Farthest * rangeMax /\ rangeMax * Farthest <= Farthest * Farthest
      BY <1>1, Multiples DEF Farthest
    <3> QED BY <1>1, <3>1 DEF Farthest
  <2> QED BY <1>1, <1>4, <2>1 DEF Farthest, Infinity, Beyond
<1> QED BY <1>3, <1>4, <1>5 DEF EmptyValue, rangeMax

(* Every direction of the scan is in exactly one beam, the one the point's    *)
(* index is folded back to: straight behind too, which is one past the last.  *)
LEMMA OneBeam ==
  ASSUME Ordered, NEW bearing \in Int, angleMin <= bearing, bearing <= angleMax, NEW p,
         p.bearing = bearing
  PROVE  BinOf(p) \in Bins /\ \A b \in Bins : Covers(b, bearing) <=> b = BinOf(p)
<1> DEFINE n == BinCount(scan)
           d == bearing - angleMin
           q == d \div increment
           index == IF q >= n THEN n - 1 ELSE q
<1>1. angleMin \in Int /\ angleMax \in Int /\ increment \in Int /\ increment > 0
  BY DEF Ordered, Floats, IsNumber, angleMin, angleMax, increment
<1>2. n \in Nat /\ n > 0 /\ (n - 1) * increment < angleMax - angleMin
      /\ angleMax - angleMin <= n * increment
  BY Beams
<1>3. d \in Int /\ 0 <= d /\ d <= angleMax - angleMin
  BY <1>1
<1>4. BinOf(p) = index /\ Bins = 0 .. n - 1
  BY DEF BinOf, Bins, angleMin, increment
<1>5. \A b \in Int : Covers(b, bearing)
        <=> b * increment <= d /\ (d < b * increment + increment \/ (d = angleMax - angleMin /\ b + 1 = n))
  <2> SUFFICES ASSUME NEW b \in Int
               PROVE  Covers(b, bearing)
                        <=> b * increment <= d /\ (d < b * increment + increment
                                                     \/ (d = angleMax - angleMin /\ b + 1 = n))
    OBVIOUS
  <2> DEFINE m == b * increment
  <2>1. m \in Int
    BY <1>1
  <2>2. Covers(b, bearing) <=> /\ angleMin + m <= bearing
                               /\ bearing < angleMin + m + increment \/ (bearing = angleMax /\ b + 1 = n)
    BY DEF Covers, angleMin, angleMax, increment
  <2> HIDE DEF m, n
  <2> QED BY <1>1, <2>1, <2>2 DEF m
<1> HIDE DEF n, d
<1>6. q \in Int /\ q * increment <= d /\ d < q * increment + increment
  <2>1. increment * q = q * increment
    BY <1>1, <1>3, Dividing
  <2> QED BY <1>1, <1>3, <2>1, Dividing
<1> HIDE DEF q
<1>7. q >= 0
  <2> SUFFICES ASSUME q < 0 PROVE FALSE
    BY <1>6
  <2>1. (q + 1) * increment <= 0 * increment
    BY <1>1, <1>6, Multiples
  <2>2. (q + 1) * increment = q * increment + increment /\ 0 * increment = 0 /\ q * increment \in Int
    BY <1>1, <1>6
  <2> QED BY <1>1, <1>3, <1>6, <2>1, <2>2
<1>8. ASSUME NEW b \in Int, NEW c \in Int, b < c
      PROVE  b * increment + increment <= c * increment
  <2>1. (b + 1) * increment <= c * increment /\ (b + 1) * increment = b * increment + increment
    BY <1>1, <1>8, Multiples
  <2> QED BY <2>1
<1>9. \A b \in Int : b * increment \in Int
  BY <1>1
<1>10. CASE q >= n
  <2>1. n * increment <= q * increment
    BY <1>1, <1>2, <1>6, <1>10, Multiples
  <2>2. d = angleMax - angleMin /\ d = n * increment
    BY <1>1, <1>2, <1>3, <1>6, <1>9, <2>1
  <2>3. index = n - 1 /\ n - 1 \in 0 .. n - 1
    BY <1>2, <1>10
  <2>4. ASSUME NEW b \in 0 .. n - 1 PROVE Covers(b, bearing) <=> b = n - 1
    <3>1. CASE b = n - 1
      <4>1. b * increment <= d /\ b + 1 = n
        BY <1>1, <1>2, <1>9, <2>2, <3>1
      <4> QED BY <1>2, <1>5, <2>2, <3>1, <4>1
    <3>2. CASE b # n - 1
      <4>1. b < n - 1 /\ n - 1 \in Int /\ b + 1 # n
        BY <1>2, <3>2
      <4>2. b * increment + increment <= (n - 1) * increment
        BY <1>8, <4>1
      <4>3. ~(d < b * increment + increment)
        BY <1>1, <1>2, <1>3, <1>9, <2>2, <4>2
      <4> QED BY <1>5, <3>2, <4>1, <4>3
    <3> QED BY <3>1, <3>2
  <2> QED BY <1>4, <2>3, <2>4
<1>11. CASE q < n
  <2>1. index = q /\ q \in 0 .. n - 1
    BY <1>2, <1>6, <1>7, <1>11
  <2>2. ASSUME NEW b \in 0 .. n - 1 PROVE Covers(b, bearing) <=> b = q
    <3>1. CASE b = q
      BY <1>5, <1>6, <3>1
    <3>2. CASE b < q
      <4>1. b * increment + increment <= q * increment /\ b + 1 # n
        BY <1>2, <1>6, <1>8, <1>11, <3>2
      <4>2. ~(d < b * increment + increment)
        BY <1>1, <1>3, <1>6, <1>9, <4>1
      <4> QED BY <1>5, <3>2, <4>1, <4>2
    <3>3. CASE b > q
      <4>1. q * increment + increment <= b * increment
        BY <1>6, <1>8, <3>3
      <4>2. ~(b * increment <= d)
        BY <1>1, <1>3, <1>6, <1>9, <4>1
      <4> QED BY <1>5, <3>3, <4>2
    <3> QED BY <1>6, <3>1, <3>2, <3>3
  <2> QED BY <1>4, <2>1, <2>2
<1> QED BY <1>2, <1>6, <1>10, <1>11

(* The same of a point of the scan.                                           *)
LEMMA BeamOfPoint ==
  ASSUME Ordered, NEW p \in Points, InScan(p)
  PROVE  BinOf(p) \in Bins /\ \A b \in Bins : Covers(b, p.bearing) <=> b = BinOf(p)
<1>1. angleMin <= p.bearing /\ p.bearing <= angleMax /\ p.bearing \in Int
  BY PointNumbers DEF InScan, angleMin, angleMax, Ordered, Floats, IsNumber
<1> QED BY <1>1, OneBeam

-----------------------------------------------------------------------------
(* The returns of a beam's directions, and what the beam shows of them.       *)
Here(b) == {q \in seen : InScan(q) /\ Covers(b, q.bearing)}

Shows(b) ==
  /\ \A q \in Here(b) : ranges[b] <= Range2(q)
  /\ \/ ranges[b] = EmptyValue /\ Here(b) = {}
     \/ \E q \in Here(b) : ranges[b] = Range2(q)

(* What a cloud leaves in the scan, whatever the order of its points.         *)
ScanInv ==
  /\ Built
  /\ seen \subseteq Points
  /\ node # "projecting" => seen = {}
  /\ node = "projecting" => ranges \in [Bins -> Int] /\ \A b \in Bins : Shows(b)

(* A new scan, which shows that nothing was seen.                             *)
Fresh == node = "projecting" /\ seen = {} /\ ranges = Cleared

(* It is in order whatever the settings it was built from.                    *)
LEMMA FreshScan == Built /\ Fresh => ScanInv
<1> SUFFICES ASSUME Built, Fresh PROVE ScanInv
  OBVIOUS
<1>1. EmptyValue \in Int
  BY AcceptedIsOrdered DEF Built, Fresh, Ordered, Floats, IsNumber, EmptyValue, Infinity, Beyond
<1>2. \A b \in Bins : ranges[b] = EmptyValue /\ Here(b) = {}
  BY DEF Fresh, Cleared, Here
<1> QED BY <1>1, <1>2 DEF Fresh, Cleared, Shows, ScanInv

(* One turn of the loop.                                                      *)
LEMMA ProjectStep ==
  ASSUME ScanInv, NEW p \in Points, Project(p)
  PROVE  ScanInv'
<1>1. /\ node = "projecting" /\ UNCHANGED <<settings, node>> /\ seen' = seen \cup {p}
      /\ ranges' = IF Kept(p) /\ Range2(p) < ranges[BinOf(p)]
                     THEN [ranges EXCEPT ![BinOf(p)] = Range2(p)] ELSE ranges
      /\ ranges \in [Bins -> Int] /\ \A b \in Bins : Shows(b)
  BY DEF Project, ScanInv
<1>2. scan' = scan /\ Bins' = Bins /\ EmptyValue' = EmptyValue
      /\ (\A q : InScan(q)' <=> InScan(q))
      /\ \A b, bearing : Covers(b, bearing)' <=> Covers(b, bearing)
  BY <1>1 DEF scan, Bins, EmptyValue, InScan, Covers
<1>3. Ordered
  BY <1>1, AcceptedIsOrdered DEF ScanInv, Built
<1>4. Kept(p) <=> InScan(p)
  BY <1>3, KeptIsInScan
<1>5. \A q \in seen \cup {p} : q \in Points /\ Range2(q) \in Int
  BY PointNumbers DEF ScanInv
<1>6. ASSUME InScan(p)
      PROVE  BinOf(p) \in Bins /\ \A b \in Bins : Covers(b, p.bearing) <=> b = BinOf(p)
  BY <1>3, <1>6, BeamOfPoint
<1>7. \A b \in Bins : Here(b)' = IF InScan(p) /\ b = BinOf(p) THEN Here(b) \cup {p} ELSE Here(b)
  BY <1>1, <1>2, <1>6 DEF Here
<1>8. ranges' \in [Bins -> Int]
  BY <1>1, <1>4, <1>5, <1>6
<1>9. ASSUME NEW b \in Bins PROVE Shows(b)'
  <2>1. Shows(b) /\ ranges[b] \in Int /\ \A q \in Here(b) : q \in seen
    BY <1>1 DEF Here
  <2>2. CASE ~(InScan(p) /\ b = BinOf(p))
    <3>1. ranges'[b] = ranges[b] /\ Here(b)' = Here(b)
      BY <1>1, <1>4, <1>7, <2>2
    <3> QED BY <1>2, <2>1, <3>1 DEF Shows
  <2>3. CASE InScan(p) /\ b = BinOf(p)
    <3>1. Here(b)' = Here(b) \cup {p}
      BY <1>7, <2>3
    <3>2. ranges[b] <= Range2(p) \/ Range2(p) <= ranges[b]
      BY <1>5, <2>1
    <3>3. ranges'[b] = IF Range2(p) < ranges[b] THEN Range2(p) ELSE ranges[b]
      BY <1>1, <1>4, <2>3
    <3>4. \A q \in Here(b) \cup {p} : ranges'[b] <= Range2(q)
      BY <1>5, <2>1, <3>3 DEF Shows
    <3>5. \E q \in Here(b) \cup {p} : ranges'[b] = Range2(q)
      <4>1. CASE Range2(p) < ranges[b]
        BY <3>3, <4>1
      <4>2. CASE ~(Range2(p) < ranges[b])
        <5>1. ranges[b] # EmptyValue
          BY <1>3, <1>5, <2>1, <2>3, <4>2, CloserThanEmpty
        <5> QED BY <2>1, <3>3, <4>2, <5>1 DEF Shows
      <4> QED BY <4>1, <4>2
    <3> QED BY <3>1, <3>4, <3>5 DEF Shows
  <2> QED BY <2>2, <2>3
<1>10. Built'
  BY <1>1 DEF ScanInv, Built, scan
<1> QED BY <1>1, <1>2, <1>8, <1>9, <1>10 DEF ScanInv

(* Each operation keeps the scan in order.                                    *)
LEMMA ScanInvariant == Spec => []ScanInv
<1>1. Init => ScanInv
  BY DEF Init, ScanInv, Built
<1>2. ScanInv /\ [Next]_vars => ScanInv'
  <2> SUFFICES ASSUME ScanInv, [Next]_vars PROVE ScanInv'
    OBVIOUS
  <2>1. Built'
    BY BuiltStep DEF ScanInv
  <2>2. Built' /\ Fresh' => ScanInv'
    BY FreshScan, PTL
  <2>3. CASE Build
    BY <2>1, <2>3 DEF Build, ScanInv
  <2>4. CASE Configure
    <3>1. seen' = {} /\ Cleared' = Cleared
      BY <2>4 DEF Configure, ScanInv, Cleared, Bins, EmptyValue, scan
    <3>2. node' = "projecting" => Fresh'
      BY <2>4, <3>1 DEF Configure, Fresh
    <3> QED BY <2>1, <3>1, <3>2, <2>2 DEF ScanInv
  <2>5. CASE NextCloud
    <3>1. Fresh'
      BY <2>5 DEF NextCloud, Fresh, Cleared, Bins, EmptyValue, scan
    <3> QED BY <2>1, <2>2, <3>1
  <2>6. ASSUME NEW p \in Points, Project(p) PROVE ScanInv'
    BY <2>6, ProjectStep
  <2>7. CASE UNCHANGED vars
    BY <2>1, <2>7 DEF vars, ScanInv, Bins, Shows, Here, EmptyValue, InScan, Covers, scan
  <2> QED BY <2>3, <2>4, <2>5, <2>6, <2>7 DEF Next
<1> QED BY <1>1, <1>2, PTL DEF Spec

(* Every beam shows the closest return in its directions, and nothing else.   *)
THEOREM ShowsClosest == Spec => []ClosestInBeam
<1>1. ScanInv => ClosestInBeam
  <2> SUFFICES ASSUME ScanInv, node = "projecting", NEW b \in Bins
               PROVE  LET here == {Range2(p) : p \in {q \in seen : InScan(q) /\ Covers(b, q.bearing)}}
                      IN  IF here = {} THEN ranges[b] = EmptyValue
                          ELSE ranges[b] \in here /\ \A r \in here : ranges[b] <= r
    BY DEF ClosestInBeam
  <2>1. Shows(b)
    BY DEF ScanInv
  <2> QED BY <2>1 DEF Shows, Here
<1> QED BY <1>1, ScanInvariant, PTL

(* No return of the scan is lost between two beams, behind the rover or       *)
(* anywhere else.                                                             *)
THEOREM HasNoBlindSpot == Spec => []NoBlindSpot
<1>1. ScanInv => NoBlindSpot
  <2> SUFFICES ASSUME ScanInv, NEW p \in seen, InScan(p)
               PROVE  \E b \in Bins : /\ Covers(b, p.bearing) /\ ranges[b] <= Range2(p)
                                      /\ \A c \in Bins \ {b} : ~Covers(c, p.bearing)
    BY DEF NoBlindSpot
  <2>1. node = "projecting" /\ p \in Points /\ \A b \in Bins : Shows(b)
    BY DEF ScanInv
  <2>2. Ordered
    BY <2>1, AcceptedIsOrdered DEF ScanInv, Built
  <2>3. BinOf(p) \in Bins /\ \A b \in Bins : Covers(b, p.bearing) <=> b = BinOf(p)
    BY <2>1, <2>2, BeamOfPoint
  <2>4. ranges[BinOf(p)] <= Range2(p)
    BY <2>1, <2>3 DEF Shows, Here
  <2> QED BY <2>3, <2>4
<1> QED BY <1>1, ScanInvariant, PTL
=============================================================================
