----------------------------- MODULE LidarHealth -----------------------------
(***************************************************************************)
(* The lidar monitor: StreamLidarUseCase and MonitorLidarUseCase, the      *)
(* LidarHealthEvaluator and the diagnostic task that shows its last        *)
(* report, from configure to cleanup.                                      *)
(*                                                                         *)
(* Two threads share the evaluator under a mutex, and each reads the clock *)
(* before it takes it: the source's worker reads a revolution's arrival,   *)
(* publishes the revolution and then records it, the executor reads the    *)
(* time of a tick and then evaluates.  The clock is not stepped here: see  *)
(* GpsHealth, whose evaluator takes an age in the same way.                *)
(***************************************************************************)
EXTENDS RateWindow, FiniteSets

CONSTANTS
  Timeout,       \* cloud_timeout_s
  Grace,         \* startup_grace_s
  TickPeriod,    \* 1 / publish_frequency
  DiagPeriod,    \* the diagnostic updater's period
  MaxWork,       \* bound on a revolution's way through the publishers
  MaxWait,       \* bound on the executor's delay, and on that of one tick
  MaxTime        \* bound on the run

ASSUME ParametersAssumption ==
  /\ Timeout \in Nat \ {0} /\ Grace \in Nat \ {0}
  /\ TickPeriod \in Nat \ {0} /\ DiagPeriod \in Nat \ {0}
  /\ MaxWork \in Nat /\ MaxTime \in Nat
  /\ MaxWait \in 0 .. TickPeriod - 1 /\ MaxWait < DiagPeriod

VARIABLES
  time,
  worker,         \* the revolution the worker is publishing, or None
  now,            \* the time tickCallback has read, or NotTicking
  lastCloud,      \* last_cloud_, or None
  arrivals,       \* arrival_times_s_
  report,         \* report_: the level the last tick published
  shown,          \* the level on /diagnostics, "none" before the first
  tickAt, diagAt, \* when the timers fire next
  newest,         \* observer: the newest cloud recorded, or None
  recent,         \* observer: the arrivals at most Window older than its own
  goodFrom        \* observer: the first arrival of a good stream, or Bad

seenVars == <<newest, recent, goodFrom>>
vars     == <<time, worker, now, lastCloud, arrivals, report, shown, tickAt, diagAt, seenVars>>

None       == [stamp |-> -1, dense |-> FALSE]
NotTicking == -1
Bad        == -1

(* CloudSamples of an arrival: has the cloud min_points_warn points?       *)
Samples(arrival) == [stamp : {arrival}, dense : BOOLEAN]

(* Mutant: a sparse cloud is reported before the timeout. *)
EvaluateSparseFirst(n) ==
  IF lastCloud = None THEN IF n > Grace THEN "error" ELSE "stale"
  ELSE IF ~lastCloud.dense THEN "warn"
  ELSE IF Larger(0, n - lastCloud.stamp) > Timeout THEN "error"
  ELSE IF Len(arrivals) >= 2 /\ RateTooLow(arrivals, n) THEN "warn" ELSE "ok"

(* evaluate(n); configure is at time 0. *)
Evaluate(n) ==
  IF lastCloud = None THEN IF n > Grace THEN "error" ELSE "stale"
  ELSE IF Larger(0, n - lastCloud.stamp) > Timeout THEN "error"
  ELSE IF ~lastCloud.dense \/ (Len(arrivals) >= 2 /\ RateTooLow(arrivals, n)) THEN "warn"
  ELSE "ok"

-----------------------------------------------------------------------------
(* on_configure creates the monitor and ticks at once. *)
Init ==
  /\ time = 0 /\ worker = None /\ now = NotTicking
  /\ lastCloud = None /\ arrivals = <<>>
  /\ report = "stale" /\ shown = "none"
  /\ tickAt = TickPeriod /\ diagAt \in 1 .. DiagPeriod
  /\ newest = None /\ recent = {} /\ goodFrom = Bad

(* The stream has been good up to a cloud: dense clouds, each one unit of  *)
(* time after the one before.                                              *)
Observe(cloud) ==
  /\ newest' = cloud
  /\ recent' = {t \in recent : cloud.stamp - t <= Window} \cup {cloud.stamp}
  /\ goodFrom' = IF ~cloud.dense THEN Bad
                 ELSE IF goodFrom # Bad /\ cloud.stamp = newest.stamp + 1 THEN goodFrom
                 ELSE cloud.stamp

(* onFrame: the worker reads the arrival and starts to publish.  At most   *)
(* one revolution per unit of time.                                        *)
FrameArrives(cloud) ==
  /\ worker = None
  /\ newest.stamp < time
  /\ worker' = cloud
  /\ UNCHANGED <<time, now, lastCloud, arrivals, report, shown, tickAt, diagAt, seenVars>>

(* Mutant: the arrival is read when the cloud is recorded. *)
OnCloudRecordedTime ==
  /\ worker # None
  /\ lastCloud' = [worker EXCEPT !.stamp = time]
  /\ arrivals' = Pruned(Append(arrivals, time), time)
  /\ Observe(worker)
  /\ worker' = None
  /\ UNCHANGED <<time, now, report, shown, tickAt, diagAt>>

(* Published; onCloud records it under the mutex. *)
OnCloud ==
  /\ worker # None
  /\ lastCloud' = worker
  /\ arrivals' = Pruned(Append(arrivals, worker.stamp), worker.stamp)
  /\ Observe(worker)
  /\ worker' = None
  /\ UNCHANGED <<time, now, report, shown, tickAt, diagAt>>

(* tickCallback reads the clock ... *)
TickRead ==
  /\ now = NotTicking /\ tickAt <= time
  /\ now' = time /\ tickAt' = tickAt + TickPeriod
  /\ UNCHANGED <<time, worker, lastCloud, arrivals, report, shown, diagAt, seenVars>>

(* Mutant: an error stays until the node is configured anew. *)
TickEvaluateLatched ==
  /\ now # NotTicking
  /\ report' = IF report = "error" THEN report ELSE Evaluate(now)
  /\ now' = NotTicking
  /\ UNCHANGED <<time, worker, lastCloud, arrivals, shown, tickAt, diagAt, seenVars>>

(* ... then locks the mutex and evaluates with what it read, and publishes. *)
TickEvaluate ==
  /\ now # NotTicking
  /\ report' = Evaluate(now)
  /\ now' = NotTicking
  /\ UNCHANGED <<time, worker, lastCloud, arrivals, shown, tickAt, diagAt, seenVars>>

(* The updater, on the executor too, runs the health publisher's diagnose. *)
Diagnose ==
  /\ now = NotTicking /\ diagAt <= time
  /\ shown' = report
  /\ diagAt' = diagAt + DiagPeriod
  /\ UNCHANGED <<time, worker, now, lastCloud, arrivals, report, tickAt, seenVars>>

Pass ==
  /\ time < MaxTime
  /\ worker # None => time < worker.stamp + MaxWork
  /\ IF now # NotTicking THEN time < tickAt - TickPeriod + MaxWait ELSE time < tickAt + MaxWait
  /\ time < diagAt + MaxWait
  /\ time' = time + 1
  /\ UNCHANGED <<worker, now, lastCloud, arrivals, report, shown, tickAt, diagAt, seenVars>>

Next ==
  \/ \E cloud \in Samples(time) : FrameArrives(cloud)
  \/ OnCloud \/ TickRead \/ TickEvaluate \/ Diagnose \/ Pass

Spec == Init /\ [][Next]_vars

-----------------------------------------------------------------------------
(* Both timers have gone round since time t, as late as they may be. *)
Settled(t) == time - t > TickPeriod + DiagPeriod + 2 * MaxWait

(* "ERROR: No point cloud for cloud_timeout_s, or none at all within       *)
(* startup_grace_s of configure" (rover_rs16_lidar/README.md:50):          *)
(* /diagnostics shows a stream that has stopped, or never started, within  *)
(* one period of each timer, whatever it was before, sparse or slow; and   *)
(* until the grace is over a silent lidar is shown as nothing but stale.   *)
LossShown ==
  IF newest # None THEN Settled(newest.stamp + Timeout) => shown = "error"
  ELSE /\ time <= Grace  => shown \in {"none", "stale"}
       /\ Settled(Grace) => shown = "error"

(* A good stream that has lasted for the rate window and a period of each  *)
(* timer is shown as OK, whatever outage or sparse cloud came before it,   *)
(* and however late the worker records what it has published.              *)
RecoveryShown ==
  /\ goodFrom # Bad /\ time - newest.stamp <= 1 + MaxWork
  /\ Settled(goodFrom + Window + MaxWork)
  => shown = "ok"

(* The table of rover_rs16_lidar/README.md:47, read off the recorded       *)
(* clouds: the level of a tick that read the clock at n, even if a cloud   *)
(* with a later arrival has been recorded since.                           *)
LowRate(n) ==
  /\ Cardinality(recent) >= 2
  /\ (Cardinality(recent) - 1) * SlowPeriod < Larger(n, newest.stamp) - First(recent)
Table(n) ==
  IF newest = None THEN IF n > Grace THEN "error" ELSE "stale"
  ELSE IF n - newest.stamp > Timeout THEN "error"
  ELSE IF ~newest.dense \/ LowRate(n) THEN "warn"
  ELSE "ok"

EvaluateMeetsTable == now # NotTicking => Evaluate(now) = Table(now)
=============================================================================
