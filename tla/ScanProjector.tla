---------------------------- MODULE ScanProjector ----------------------------
(***************************************************************************)
(* ScanProjector (scan_projector.cpp): a revolution's points are folded    *)
(* one by one into the bins of a laser scan.  The settings are those the   *)
(* node's constructor let through, and the projector checks them again     *)
(* when on_configure builds it.  A point lies in one of the eight          *)
(* directions of a lattice, so that its bearing is an integer, in eighths  *)
(* of a turn, and the square of its range too.                             *)
(***************************************************************************)
EXTENDS LidarSettings, FiniteSets

CONSTANTS
  Candidates,         \* what the node may be configured with
  Reaches, Heights,   \* how many lattice steps away a point is, and how high
  MaxPoints           \* bound on the points of a cloud

ASSUME InputAssumption == Reaches \subseteq Nat /\ Heights \subseteq Int /\ MaxPoints \in Nat

(* The floating-point settings of a scan. *)
Floats(s) == {s.minHeight, s.maxHeight, s.angleMin, s.angleMax, s.increment,
              s.rangeMin, s.rangeMax, s.scanTime}

ASSUME CandidatesAssumption ==
  \A c \in Candidates :
    /\ \A a \in Floats(c.scan) : IsFloat(a)
    /\ \A i \in DOMAIN c.scan.boxes, axis \in Axes :
         IsFloat(c.scan.boxes[i].min[axis]) /\ IsFloat(c.scan.boxes[i].max[axis])

VARIABLES
  settings,   \* settings_ of the node
  node,       \* "new", "refused", "built", "threw", "cloud_only", "projecting"
  ranges,     \* scan.ranges, squared
  seen        \* the points of the cloud handled so far

vars == <<settings, node, ranges, seen>>

scan == settings.scan
The(a)     == CHOOSE x \in a : TRUE
Squares(a) == {x * x : x \in a}

(* Unit steps, counterclockwise.  A bearing of -4 is straight back too:    *)
(* atan2 says so when y is a negative zero.                                *)
Step == [b \in -HalfTurn .. HalfTurn |->
           CASE b = 0 -> <<1, 0>>  [] b = 1 -> <<1, 1>>   [] b = 2 -> <<0, 1>>  [] b = 3 -> <<-1, 1>>
             [] b = -1 -> <<1, -1>> [] b = -2 -> <<0, -1>> [] b = -3 -> <<-1, -1>>
             [] OTHER -> <<-1, 0>>]

(* A coordinate of an invalid return is a NaN; the origin has a bearing of 0. *)
Points == {p \in [finite : BOOLEAN, bearing : -HalfTurn .. HalfTurn, reach : Reaches, z : Heights] :
             p.reach = 0 \/ ~p.finite => p.bearing = 0}

Coordinate(p, axis) ==
  CASE axis = "x" -> p.reach * Step[p.bearing][1]
    [] axis = "y" -> p.reach * Step[p.bearing][2]
    [] axis = "z" -> p.z
Range2(p) == Coordinate(p, "x") * Coordinate(p, "x") + Coordinate(p, "y") * Coordinate(p, "y")

(* +inf, farther than any point that is kept. *)
Infinity == Beyond * Beyond

(* Mutant: a bin for each whole increment. *)
BinCountFloor(s) == (The(s.angleMax) - The(s.angleMin)) \div The(s.increment)

(* ceil(span / angle_increment).  What the cast makes of a NaN is          *)
(* undefined; here it makes no bin.                                        *)
BinCount(s) ==
  IF NaN \in {s.angleMin, s.angleMax, s.increment} THEN 0
  ELSE -((The(s.angleMin) - The(s.angleMax)) \div The(s.increment))

(* The constructor throws unless: a NaN gets past each of its comparisons. *)
Constructs(s) ==
  /\ ~Le(s.maxHeight, s.minHeight) /\ ~Le(s.angleMax, s.angleMin)
  /\ ~Le(s.increment, Number(0))
  /\ ~Lt(s.rangeMin, Number(0)) /\ ~Le(s.rangeMax, s.rangeMin)
  /\ \A i \in DOMAIN s.boxes : ValidateSelfFilterBox(s.boxes[i])
  /\ BinCount(s) > 0

Bins       == 0 .. BinCount(scan) - 1
EmptyValue == IF scan.useInf THEN Infinity ELSE (The(scan.rangeMax) + 1) * (The(scan.rangeMax) + 1)
Cleared    == [b \in Bins |-> EmptyValue]

(* Faces included.                                                         *)
Contains(box, p) ==
  \A axis \in Axes : /\ Le(box.min[axis], Number(Coordinate(p, axis)))
                     /\ Le(Number(Coordinate(p, axis)), box.max[axis])
IsSelf(p) == \E i \in DOMAIN scan.boxes : Contains(scan.boxes[i], p)

(* Mutant: the points inside a self-filter box are projected. *)
KeptSelf(p) ==
  /\ p.finite
  /\ ~Lt(Number(p.z), scan.minHeight) /\ ~Lt(scan.maxHeight, Number(p.z))
  /\ ~Lt(Number(Range2(p)), Squares(scan.rangeMin)) /\ ~Lt(Squares(scan.rangeMax), Number(Range2(p)))
  /\ ~Lt(Number(p.bearing), scan.angleMin) /\ ~Lt(scan.angleMax, Number(p.bearing))

(* The points that get past every `continue'. *)
Kept(p) ==
  /\ p.finite
  /\ ~Lt(Number(p.z), scan.minHeight) /\ ~Lt(scan.maxHeight, Number(p.z))
  /\ ~IsSelf(p)
  /\ ~Lt(Number(Range2(p)), Squares(scan.rangeMin)) /\ ~Lt(Squares(scan.rangeMax), Number(Range2(p)))
  /\ ~Lt(Number(p.bearing), scan.angleMin) /\ ~Lt(scan.angleMax, Number(p.bearing))

(* The index, folded back into the last bin. *)
BinOf(p) ==
  LET index == (p.bearing - The(scan.angleMin)) \div The(scan.increment)
  IN  IF index >= BinCount(scan) THEN BinCount(scan) - 1 ELSE index

-----------------------------------------------------------------------------
Init == settings \in Candidates /\ node = "new" /\ seen = {} /\ ranges = <<>>

(* The node's constructor refuses the settings or keeps them. *)
Build ==
  /\ node = "new"
  /\ node' = IF Accepts(settings) THEN "built" ELSE "refused"
  /\ UNCHANGED <<settings, ranges, seen>>

(* on_configure builds a projector when there is to be a scan. *)
Configure ==
  /\ node = "built"
  /\ node' = IF ~scan.enabled THEN "cloud_only" ELSE IF Constructs(scan) THEN "projecting" ELSE "threw"
  /\ ranges' = IF node' = "projecting" THEN Cleared ELSE <<>>
  /\ UNCHANGED <<settings, seen>>

(* One turn of the loop; the points of a cloud come in no particular order *)
(* and one that has come before changes nothing.                           *)
Project(p) ==
  /\ node = "projecting" /\ Cardinality(seen) < MaxPoints
  /\ seen' = seen \cup {p}
  /\ ranges' = IF Kept(p) /\ Range2(p) < ranges[BinOf(p)]
                 THEN [ranges EXCEPT ![BinOf(p)] = Range2(p)] ELSE ranges
  /\ UNCHANGED <<settings, node>>

(* The next revolution: a new scan. *)
NextCloud ==
  /\ node = "projecting"
  /\ seen' = {} /\ ranges' = Cleared
  /\ UNCHANGED <<settings, node>>

Next == Build \/ Configure \/ NextCloud \/ \E p \in Points : Project(p)

Spec == Init /\ [][Next]_vars

-----------------------------------------------------------------------------
(* "Reject inconsistent configuration at startup, not at the first cloud"  *)
(* (rover_rs16_lidar_node.cpp:87): what the node's constructor accepts     *)
(* never makes the projector's throw later, in on_configure; and no NaN,   *)
(* which that constructor would not notice, is among it: the scan          *)
(* describes beams that a consumer can place, and no box filters nothing.  *)
AcceptedConstructs ==
  /\ node # "threw"
  /\ node = "projecting" =>
       /\ \A a \in Floats(scan) : Finite(a)
       /\ (BinCount(scan) - 1) * The(scan.increment) < The(scan.angleMax) - The(scan.angleMin)
       /\ \A i \in DOMAIN scan.boxes, axis \in Axes :
            The(scan.boxes[i].min[axis]) < The(scan.boxes[i].max[axis])

(* The directions a consumer of the scan takes bin b for: from its bearing *)
(* up to the next one's, the last bin up to angle_max.                     *)
Covers(b, bearing) ==
  LET from == The(scan.angleMin) + b * The(scan.increment) IN
  /\ from <= bearing
  /\ bearing < from + The(scan.increment)
       \/ (bearing = The(scan.angleMax) /\ b + 1 = BinCount(scan))

InBox(box, p) == \A axis \in Axes : Coordinate(p, axis) \in The(box.min[axis]) .. The(box.max[axis])
InScan(p) ==
  /\ p.finite /\ p.z \in The(scan.minHeight) .. The(scan.maxHeight)
  /\ \A i \in DOMAIN scan.boxes : ~InBox(scan.boxes[i], p)
  /\ Range2(p) \in The(Squares(scan.rangeMin)) .. The(Squares(scan.rangeMax))
  /\ p.bearing \in The(scan.angleMin) .. The(scan.angleMax)

(* "Closest return wins: an obstacle must never be hidden by something     *)
(* behind it" (scan_projector.cpp:101), nor by a part of the rover, nor    *)
(* left from the cloud before, nor shown in a direction it is not in:      *)
(* every beam is the closest of the returns in its directions.             *)
ClosestInBeam ==
  node = "projecting" => \A b \in Bins :
    LET here == {Range2(p) : p \in {q \in seen : InScan(q) /\ Covers(b, q.bearing)}} IN
    IF here = {} THEN ranges[b] = EmptyValue
    ELSE ranges[b] \in here /\ \A r \in here : ranges[b] <= r

(* "Directly behind the rover must not be a blind spot"                    *)
(* (test_scan_projector.cpp:242): every return in the scan's range and     *)
(* angles is in the directions of exactly one beam.                        *)
NoBlindSpot ==
  \A p \in seen : InScan(p) => \E b \in Bins : /\ Covers(b, p.bearing)
                                               /\ ranges[b] <= Range2(p)
                                               /\ \A c \in Bins \ {b} : ~Covers(c, p.bearing)
=============================================================================
