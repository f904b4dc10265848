------------------------------ MODULE GpsHealth ------------------------------
(***************************************************************************)
(* The GPS fix monitor: RoverGpsNode, MonitorGpsUseCase, the               *)
(* GpsHealthEvaluator and the diagnostic task that shows its last report.  *)
(*                                                                         *)
(* Two clocks are at work.  Fixes and evaluations are stamped with the     *)
(* node's ROS clock (`clock'), which may be stepped; the tick timer and    *)
(* the diagnostic updater's timer run on the steady clock (`steady').      *)
(* Everything runs on one single-threaded executor, which serves every     *)
(* timer that is due before time moves on.                                 *)
(***************************************************************************)
EXTENDS RateWindow, FiniteSets

CONSTANTS
  FixTimeout,    \* fix_timeout_s
  Required,      \* the values of gps_required a run tries
  Qualities,     \* what the fixes of a run say, see FixQualities
  Steps,         \* the amounts the ROS clock may be stepped by
  MaxSteps,      \* bound on the number of steps
  MaxTime        \* bound on the run

TickPeriod == 1  \* tick_timer_
DiagPeriod == 1  \* the diagnostic updater's default period

(* The quality of a fix as toGnssFix and the thresholds tell it apart: no  *)
(* GNSS fix, a fix of unknown horizontal error, or one whose error is      *)
(* within warn_horizontal_std_m, within error_horizontal_std_m, or beyond. *)
FixQualities == {"nofix", "unknown", "fine", "degraded", "poor"}

ASSUME ParametersAssumption ==
  /\ FixTimeout \in Nat \ {0}
  /\ Required \subseteq BOOLEAN
  /\ Qualities \subseteq FixQualities
  /\ Steps \subseteq Int /\ MaxSteps \in Nat /\ MaxTime \in Nat

VARIABLES
  steady, clock,
  gpsRequired,    \* evaluator_'s gps_required, read once by init()
  lastFix,        \* last_fix_: its stamp and quality, or None
  arrivals,       \* arrival_times_s_
  report,         \* report_: the level a tick published last
  shown,          \* the level on /diagnostics, "none" before the first
  tickAt, diagAt, \* when the timers fire next
  steps,          \* clock steps so far
  newest,         \* observer: the newest fix and when it really came, or None
  recent,         \* observer: the stamps at most Window older than its stamp
  goodFrom        \* observer: when the first fix of a good stream came, or Bad

monitorVars == <<gpsRequired, lastFix, arrivals, report, shown, tickAt, diagAt>>
clockVars   == <<steady, clock, steps>>
seenVars    == <<newest, recent, goodFrom>>
vars        == <<monitorVars, clockVars, seenVars>>

None   == [at |-> 0, stamp |-> 0, quality |-> "none"]
NoFix  == [stamp |-> 0, quality |-> "none"]
Bad    == -1

Fault == IF gpsRequired THEN "error" ELSE "warn"

(* Mutant: no fix timeout; a dead stream is left to its sinking rate. *)
EvaluateNoTimeout(now) ==
  IF lastFix = NoFix THEN IF gpsRequired THEN "stale" ELSE "warn"
  ELSE CASE lastFix.quality = "nofix"    -> "warn"
         [] lastFix.quality = "poor"     -> Fault
         [] lastFix.quality = "degraded" -> "warn"
         [] OTHER -> IF Len(arrivals) >= 2 /\ RateTooLow(arrivals, now) THEN "warn" ELSE "ok"

(* evaluate(now): the first case that applies. *)
Evaluate(now) ==
  IF lastFix = NoFix THEN IF gpsRequired THEN "stale" ELSE "warn"
  ELSE IF Larger(0, now - lastFix.stamp) > FixTimeout THEN Fault
  ELSE CASE lastFix.quality = "nofix"    -> "warn"
         [] lastFix.quality = "poor"     -> Fault
         [] lastFix.quality = "degraded" -> "warn"
         [] OTHER -> IF Len(arrivals) >= 2 /\ RateTooLow(arrivals, now) THEN "warn" ELSE "ok"

-----------------------------------------------------------------------------
(* init() publishes one report at once. *)
Init ==
  /\ steady = 0 /\ clock = 0 /\ steps = 0
  /\ gpsRequired \in Required
  /\ lastFix = NoFix /\ arrivals = <<>>
  /\ report = (IF gpsRequired THEN "stale" ELSE "warn") /\ shown = "none"
  /\ tickAt = TickPeriod /\ diagAt = DiagPeriod
  /\ newest = None /\ recent = {} /\ goodFrom = Bad

(* The stream has been good up to a fix of quality q that comes now: fine  *)
(* fixes, none more than a second after the one before.                    *)
Observe(q) ==
  /\ newest' = [at |-> steady, stamp |-> clock, quality |-> q]
  /\ recent' = {t \in recent : clock - t <= Window} \cup {clock}
  /\ goodFrom' = IF q # "fine" THEN Bad
                 ELSE IF goodFrom # Bad /\ steady - newest.at <= 1 THEN goodFrom ELSE steady

(* fixCallback: the fix is stamped with its arrival.  At most one fix per  *)
(* unit of time.                                                           *)
FixArrives(q) ==
  /\ newest # None => newest.at < steady
  /\ lastFix' = [stamp |-> clock, quality |-> q]
  /\ arrivals' = Pruned(Append(arrivals, clock), clock)
  /\ Observe(q)
  /\ UNCHANGED <<gpsRequired, report, shown, tickAt, diagAt, clockVars>>

(* Mutant: an error is latched until the node is restarted. *)
TickLatched ==
  /\ tickAt <= steady
  /\ report' = IF report = "error" THEN report ELSE Evaluate(clock)
  /\ tickAt' = tickAt + TickPeriod
  /\ UNCHANGED <<gpsRequired, lastFix, arrivals, shown, diagAt, clockVars, seenVars>>

(* tickCallback *)
Tick ==
  /\ tickAt <= steady
  /\ report' = Evaluate(clock)
  /\ tickAt' = tickAt + TickPeriod
  /\ UNCHANGED <<gpsRequired, lastFix, arrivals, shown, diagAt, clockVars, seenVars>>

(* The updater runs Ros2GpsHealthPublisher::diagnose. *)
Diagnose ==
  /\ diagAt <= steady
  /\ shown' = report
  /\ diagAt' = diagAt + DiagPeriod
  /\ UNCHANGED <<gpsRequired, lastFix, arrivals, report, tickAt, clockVars, seenVars>>

Pass ==
  /\ steady < MaxTime /\ steady < tickAt /\ steady < diagAt
  /\ steady' = steady + 1 /\ clock' = clock + 1
  /\ UNCHANGED <<steps, monitorVars, seenVars>>

(* The ROS clock is stepped: NTP, or a simulated clock restarted.          *)
StepClock(by) ==
  /\ steps < MaxSteps /\ steps' = steps + 1
  /\ clock' = clock + by
  /\ goodFrom' = Bad
  /\ UNCHANGED <<steady, monitorVars, newest, recent>>

Next ==
  \/ \E q \in Qualities : FixArrives(q)
  \/ Tick \/ Diagnose \/ Pass
  \/ \E by \in Steps : StepClock(by)

Spec == Init /\ [][Next]_vars

-----------------------------------------------------------------------------
Alarm  == IF gpsRequired THEN "error" ELSE "warn"
Quiet  == steady - newest.at      \* how long the stream has really been quiet

(* Both timers have gone round since time t. *)
Settled(t) == steady - t > TickPeriod + DiagPeriod

(* "ERROR: ... no fix message for fix_timeout_s (NMEA link lost)", WARN    *)
(* without gps_required (rover_gps/README.md:58): /diagnostics shows a     *)
(* lost stream within one period of each timer, whatever the last fixes    *)
(* said and even if the ROS clock was stepped forward.                     *)
LossShown ==
  newest # None /\ Settled(newest.at + FixTimeout) => shown = Alarm

(* A good stream that has lasted for the rate window and a period of each  *)
(* timer is shown as OK, whatever outage, quality or forward step of the   *)
(* clock came before it.                                                   *)
RecoveryShown ==
  goodFrom # Bad /\ Quiet <= 1 /\ Settled(goodFrom + Window) => shown = "ok"

(* The table of rover_gps/README.md:55, read off the fixes that came: the  *)
(* level a tick would publish now, if the clock was never stepped.  A rate *)
(* needs two fixes in the window.                                          *)
LowRate ==
  Cardinality(recent) >= 2 /\ (Cardinality(recent) - 1) * SlowPeriod < steady - First(recent)
Table ==
  IF newest = None THEN IF gpsRequired THEN "stale" ELSE "warn"
  ELSE IF Quiet > FixTimeout \/ newest.quality = "poor" THEN Alarm
  ELSE IF newest.quality \in {"nofix", "degraded"} \/ LowRate THEN "warn"
  ELSE "ok"

EvaluateMeetsTable == steps = 0 => Evaluate(clock) = Table
=============================================================================
