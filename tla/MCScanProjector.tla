--------------------------- MODULE MCScanProjector ---------------------------
(* Every group of settings varied against the defaults, NaN among its values: *)
(* sweeps that the increment divides or does not, ranges and heights in any   *)
(* order, boxes with faces, duplicates and missing bounds, and the sensor's   *)
(* ports, distances and angles, these without a scan.                         *)
EXTENDS ScanProjector

Optional(S) == {NaN} \cup {Number(x) : x \in S}
WithScan(s)   == [SettingDefaults EXCEPT !.scan = s]
WithSensor(s) == [SettingDefaults EXCEPT !.scan.enabled = FALSE, !.sensor = s]

Sweeps == {WithScan([ScanDefaults EXCEPT !.angleMin = a, !.angleMax = b, !.increment = i]) :
             a \in Optional({-4, -1, 0}), b \in Optional({-1, 2, 3, 4}), i \in Optional({0, 1, 2, 3, 8})}
Reach  == {WithScan([ScanDefaults EXCEPT !.rangeMin = a, !.rangeMax = b, !.useInf = u]) :
             a \in Optional(-1 .. 2), b \in Optional((0 .. 3) \cup {Farthest, Farthest + 1}), u \in BOOLEAN}
Bands  == {WithScan([ScanDefaults EXCEPT !.minHeight = a, !.maxHeight = b, !.scanTime = t]) :
             a \in Optional(-1 .. 1), b \in Optional(-1 .. 1), t \in Optional({0, 1})}

Box(name, lo, hi) ==
  [name |-> name, min |-> [x |-> lo, y |-> Number(0), z |-> Number(-1)],
                  max |-> [x |-> hi, y |-> Number(1), z |-> Number(0)]]
Boxes == {Box(n, lo, hi) : n \in {"", "post"}, lo \in Optional({-1, 0, -Beyond}), hi \in Optional({0, 1})}
Filters == {WithScan([ScanDefaults EXCEPT !.boxes = <<b>>]) : b \in Boxes}
             \cup {WithScan([ScanDefaults EXCEPT !.boxes = <<Box("post", Number(0), Number(1)), Box(n, Number(-2), Number(-1))>>]) :
                     n \in {"post", "mast"}}

Ports  == {WithSensor([SensorDefaults EXCEPT !.msopPort = a, !.difopPort = b]) :
             a \in {0, 1, 65536}, b \in {0, 1, 2}}
Spans  == {WithSensor([SensorDefaults EXCEPT !.minDistance = a, !.maxDistance = b]) :
             a \in Optional(-1 .. 2), b \in Optional(0 .. 2)}
Turns  == {WithSensor([SensorDefaults EXCEPT !.startAngle = a, !.endAngle = b]) :
             a \in Optional({-1, 0, 361}), b \in Optional({0, 90, 360})}
Inputs == {WithSensor([SensorDefaults EXCEPT !.input = i, !.pcapPath = f, !.pcapRate = r]) :
             i \in {"lidar", "pcap", "radar"}, f \in {"", "file"}, r \in Optional({0, 1})}
Names  == {[SettingDefaults EXCEPT !.frameId = f, !.cloudTopic = c, !.scanTopic = t, !.scan.enabled = e] :
             f \in {"", "lidar_link"}, c \in {"", "points"}, t \in {"", "scan"}, e \in BOOLEAN}
Health == {[SettingDefaults EXCEPT !.scan.enabled = FALSE, !.health.expectedRate = r, !.health.startupGrace = g] :
             r \in Optional({0, 1}), g \in Optional({0, 1})}

MCCandidates == Sweeps \cup Reach \cup Bands \cup Filters \cup Ports \cup Spans \cup Turns
                  \cup Inputs \cup Names \cup Health
MCReaches == 0 .. 2
MCHeights == {-1, 0, 2}
=============================================================================
