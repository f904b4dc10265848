--------------------------- MODULE LidarHealth_proofs ---------------------------
(* What LidarHealth guarantees for every rate window, timeout, grace, period *)
(* of the timers and delay of the two threads.                               *)
EXTENDS LidarHealth, SequenceTheorems, FiniteSetTheorems, WellFoundedInduction, TLAPS

Clouds == [stamp : Nat, dense : BOOLEAN]

TypeOK ==
  /\ time \in Nat /\ worker \in {None} \cup Clouds /\ newest \in {None} \cup Clouds
  /\ now \in Nat \cup {NotTicking} /\ tickAt \in Nat /\ diagAt \in Nat
  /\ arrivals \in Seq(Int) /\ goodFrom \in Nat \cup {Bad}

(* How far the worker and the timers may lag behind.                         *)
Timing ==
  /\ newest.stamp <= time
  /\ worker # None => /\ newest.stamp < worker.stamp /\ worker.stamp <= time
                      /\ time <= worker.stamp + MaxWork
  /\ tickAt <= time + TickPeriod /\ diagAt <= time + DiagPeriod /\ time <= diagAt + MaxWait
  /\ now = NotTicking => time <= tickAt + MaxWait
  /\ now # NotTicking => /\ tickAt - TickPeriod <= now /\ now <= time
                         /\ time <= tickAt - TickPeriod + MaxWait

Increasing(s) == \A i, j \in 1 .. Len(s) : i < j => s[i] < s[j]
Elements(s)   == {s[i] : i \in 1 .. Len(s)}

(* last_cloud_ and arrival_times_s_ hold what was recorded.                  *)
Recorded ==
  /\ lastCloud = newest
  /\ newest = None <=> arrivals = <<>>
  /\ newest # None =>
       /\ arrivals[Len(arrivals)] = newest.stamp
       /\ Len(arrivals) > 1 => newest.stamp - arrivals[1] <= Window
  /\ Increasing(arrivals) /\ recent = Elements(arrivals)

(* A good stream's clouds come once a unit and fill the window from behind.  *)
GoodStream ==
  goodFrom # Bad =>
    /\ newest # None /\ newest.dense /\ goodFrom <= newest.stamp
    /\ \A k \in 0 .. Len(arrivals) - 1 :
         k <= newest.stamp - goodFrom => arrivals[Len(arrivals) - k] = newest.stamp - k
    /\ Len(arrivals) > Window \/ Len(arrivals) > newest.stamp - goodFrom

HealthInv == TypeOK /\ Timing /\ Recorded /\ GoodStream

(* When the tick that published the report was due.                          *)
LastTick == IF now = NotTicking THEN tickAt - TickPeriod ELSE tickAt - 2 * TickPeriod

(* LossShown for each of the two timers, by the time it was last due.        *)
LossKnown ==
  /\ newest # None =>
       /\ LastTick > newest.stamp + Timeout => report = "error"
       /\ diagAt - DiagPeriod > newest.stamp + Timeout + TickPeriod + MaxWait => shown = "error"
  /\ newest = None =>
       /\ time <= Grace => report = "stale" /\ shown \in {"none", "stale"}
       /\ LastTick > Grace => report = "error"
       /\ diagAt - DiagPeriod > Grace + TickPeriod + MaxWait => shown = "error"

(* RecoveryShown, in the same way.                                           *)
RecoveryKnown ==
  goodFrom # Bad /\ time - newest.stamp <= 1 + MaxWork =>
    /\ LastTick > goodFrom + Window + MaxWork => report = "ok"
    /\ diagAt - DiagPeriod > goodFrom + Window + MaxWork + TickPeriod + MaxWait => shown = "ok"

-----------------------------------------------------------------------------
(* A non-empty set of natural numbers has a least element.                   *)
LEMMA LeastNatural ==
  ASSUME NEW S \in SUBSET Nat, S # {}
  PROVE  \E x \in S : \A y \in S : x <= y
<1> DEFINE R == {ss \in Nat \X Nat : ss[1] < ss[2]}
<1>1. IsWellFoundedOn(R, Nat)
  BY NatLessThanWellFounded, Zenon DEF OpToRel
<1> HIDE DEF R
<1>2. PICK x \in S : \A y \in S : ~(<<y, x>> \in R)
  BY <1>1, WFMin
<1>3. ASSUME NEW y \in S PROVE x <= y
  <2>1. <<y, x>> \notin R
    BY <1>2
  <2>2. x \in Nat /\ y \in Nat /\ ~(y < x)
    BY <2>1 DEF R
  <2> QED BY <2>2
<1> QED BY <1>3

(* What is left of the arrivals: all from the first young enough, or the     *)
(* last alone.                                                               *)
LEMMA Pruning ==
  ASSUME NEW s \in Seq(Int), Len(s) > 0, NEW t \in Int
  PROVE  \E k \in 1 .. Len(s) :
           /\ Pruned(s, t) \in Seq(Int) /\ Len(Pruned(s, t)) = Len(s) - k + 1
           /\ \A i \in 1 .. Len(s) - k + 1 : Pruned(s, t)[i] = s[k + i - 1]
           /\ k = Len(s) \/ t - s[k] <= Window
           /\ \A i \in 1 .. k - 1 : t - s[i] > Window
<1> DEFINE kept == {i \in 1 .. Len(s) : i = Len(s) \/ t - s[i] <= Window}
<1>0. Len(s) \in Nat /\ Window \in Nat
  BY LenProperties, WindowAssumption
<1>1. PICK k \in kept : \A j \in kept : k <= j
  <2>1. kept \in SUBSET Nat /\ Len(s) \in kept
    BY <1>0
  <2> HIDE DEF kept
  <2> QED BY <2>1, LeastNatural
<1>2. First(kept) = k
  <2>1. First(kept) \in kept /\ \A j \in kept : First(kept) <= j
    BY <1>1 DEF First
  <2>2. \A a, b \in kept : a \in Nat /\ (a <= b /\ b <= a => a = b)
    BY <1>0
  <2> HIDE DEF kept
  <2> QED BY <1>1, <2>1, <2>2
<1>3. Pruned(s, t) = SubSeq(s, k, Len(s))
  BY <1>2 DEF Pruned
<1>4. k \in 1 .. Len(s) /\ \A i \in 1 .. Len(s) : s[i] \in Int
  BY ElementOfSeq
<1>5. \A i \in 1 .. k - 1 : i \in 1 .. Len(s) /\ i \notin kept /\ s[i] \in Int
  BY <1>0, <1>1, <1>4
<1>6. /\ SubSeq(s, k, Len(s)) \in Seq(Int) /\ Len(SubSeq(s, k, Len(s))) = Len(s) - k + 1
      /\ \A i \in 1 .. Len(s) - k + 1 : SubSeq(s, k, Len(s))[i] = s[k + i - 1]
  <2>1. \A i \in k .. Len(s) : s[i] \in Int
    BY <1>0, <1>4
  <2>2. k \in Int /\ Len(s) \in Int /\ k <= Len(s)
    BY <1>0, <1>4
  <2> HIDE DEF kept
  <2> QED BY <2>1, <2>2, SubSeqProperties
<1>7. \A i \in 1 .. k - 1 : t - s[i] > Window
  BY <1>0, <1>5
<1>8. k = Len(s) \/ t - s[k] <= Window
  BY <1>1
<1>9. /\ Pruned(s, t) \in Seq(Int) /\ Len(Pruned(s, t)) = Len(s) - k + 1
      /\ \A i \in 1 .. Len(s) - k + 1 : Pruned(s, t)[i] = s[k + i - 1]
  BY <1>3, <1>6
<1> HIDE DEF kept
<1> QED BY <1>4, <1>7, <1>8, <1>9

(* Arrivals in increasing order are as many as their set, and the first is   *)
(* the least.                                                                *)
LEMMA InOrder ==
  ASSUME NEW s \in Seq(Int), Increasing(s)
  PROVE  Cardinality(Elements(s)) = Len(s) /\ (Len(s) > 0 => First(Elements(s)) = s[1])
<1>0. Len(s) \in Nat /\ s \in [1 .. Len(s) -> Int] /\ \A i \in 1 .. Len(s) : s[i] \in Int
  <2>1. Len(s) \in Nat /\ s \in [1 .. Len(s) -> Int]
    BY LenProperties
  <2> QED BY <2>1, ElementOfSeq
<1>1. Cardinality(Elements(s)) = Len(s)
  <2>1. s \in Surjection(1 .. Len(s), Elements(s))
    <3>1. s \in [1 .. Len(s) -> Elements(s)]
      BY <1>0 DEF Elements
    <3> QED BY <3>1 DEF Surjection, Elements
  <2>2. s \in Injection(1 .. Len(s), Elements(s))
    <3>1. \A i, j \in 1 .. Len(s) : s[i] = s[j] => i = j
      BY <1>0 DEF Increasing
    <3> QED BY <1>0, <2>1, <3>1 DEF Surjection, Injection, IsInjective
  <2>3. IsFiniteSet(1 .. Len(s)) /\ Cardinality(1 .. Len(s)) = Len(s)
    BY <1>0, FS_Interval
  <2> QED BY <2>1, <2>2, <2>3, FS_Surjection
<1>2. ASSUME Len(s) > 0 PROVE First(Elements(s)) = s[1]
  <2>1. 1 \in 1 .. Len(s) /\ \A i \in 1 .. Len(s) : i = 1 \/ 1 < i
    BY <1>0, <1>2
  <2>2. s[1] \in Elements(s) /\ s[1] \in Int
    BY <1>0, <2>1 DEF Elements
  <2>3. ASSUME NEW x \in Elements(s) PROVE x \in Int /\ s[1] <= x
    <3>1. PICK i \in 1 .. Len(s) : x = s[i]
      BY DEF Elements
    <3> QED BY <1>0, <2>1, <3>1 DEF Increasing
  <2>4. First(Elements(s)) \in Elements(s) /\ \A x \in Elements(s) : First(Elements(s)) <= x
    BY <2>2, <2>3 DEF First
  <2>5. First(Elements(s)) <= s[1] /\ s[1] <= First(Elements(s)) /\ First(Elements(s)) \in Int
    BY <2>2, <2>3, <2>4
  <2> QED BY <2>2, <2>5
<1> QED BY <1>1, <1>2

-----------------------------------------------------------------------------
(* A cloud is added to the window: the arrivals from the k-th on and its own. *)
LEMMA Arriving ==
  ASSUME HealthInv, OnCloud
  PROVE  \E k \in 1 .. Len(arrivals) + 1, s \in Seq(Int) :
           /\ Len(s) = Len(arrivals) + 1 /\ s[Len(s)] = worker.stamp
           /\ \A i \in 1 .. Len(arrivals) : s[i] = arrivals[i]
           /\ arrivals' \in Seq(Int) /\ Len(arrivals') = Len(arrivals) + 2 - k
           /\ \A i \in 1 .. Len(arrivals) + 2 - k : arrivals'[i] = s[k + i - 1]
           /\ k = Len(arrivals) + 1 \/ worker.stamp - s[k] <= Window
           /\ \A i \in 1 .. k - 1 : worker.stamp - s[i] > Window
<1> DEFINE stamp == worker.stamp
           s == Append(arrivals, stamp)
<1>1. arrivals \in Seq(Int) /\ stamp \in Int
  BY DEF HealthInv, TypeOK, OnCloud, Clouds
<1>2. arrivals' = Pruned(s, stamp)
  BY DEF OnCloud
<1> HIDE DEF stamp
<1>3. /\ s \in Seq(Int) /\ Len(s) = Len(arrivals) + 1 /\ s[Len(arrivals) + 1] = stamp
      /\ \A i \in 1 .. Len(arrivals) : s[i] = arrivals[i]
      /\ Len(arrivals) \in Nat
  BY <1>1, AppendProperties, LenProperties
<1> HIDE DEF s
<1>4. PICK k \in 1 .. Len(s) :
           /\ Pruned(s, stamp) \in Seq(Int) /\ Len(Pruned(s, stamp)) = Len(s) - k + 1
           /\ \A i \in 1 .. Len(s) - k + 1 : Pruned(s, stamp)[i] = s[k + i - 1]
           /\ k = Len(s) \/ stamp - s[k] <= Window
           /\ \A i \in 1 .. k - 1 : stamp - s[i] > Window
  <2>1. Len(s) > 0
    BY <1>3
  <2> QED BY <1>1, <1>3, <2>1, Pruning
<1>5. k \in 1 .. Len(arrivals) + 1 /\ Len(s) - k + 1 = Len(arrivals) + 2 - k
  BY <1>3, <1>4
<1> QED BY <1>2, <1>3, <1>4, <1>5 DEF stamp

(* HealthInv is inductive: the recording of a cloud first.                   *)
LEMMA RecordingStep == HealthInv /\ OnCloud => HealthInv'
<1> SUFFICES ASSUME HealthInv, OnCloud PROVE HealthInv'
  OBVIOUS
<1> DEFINE n == Len(arrivals)
           stamp == worker.stamp
<1>1. PICK k \in 1 .. n + 1, s \in Seq(Int) :
         /\ Len(s) = n + 1 /\ s[Len(s)] = stamp
         /\ \A i \in 1 .. n : s[i] = arrivals[i]
         /\ arrivals' \in Seq(Int) /\ Len(arrivals') = n + 2 - k
         /\ \A i \in 1 .. n + 2 - k : arrivals'[i] = s[k + i - 1]
         /\ k = n + 1 \/ stamp - s[k] <= Window
         /\ \A i \in 1 .. k - 1 : stamp - s[i] > Window
  BY Arriving
<1>2. /\ n \in Nat /\ k \in Int /\ 1 <= k /\ k <= n + 1 /\ Len(arrivals') = n + 2 - k
      /\ stamp \in Nat /\ Window \in Nat /\ Window > 0
  <2>1. n \in Nat /\ Window \in Nat /\ Window > 0
    BY LenProperties, WindowAssumption DEF HealthInv, TypeOK
  <2>2. stamp \in Nat
    BY DEF HealthInv, TypeOK, OnCloud, Clouds
  <2> HIDE DEF n, stamp
  <2> QED BY <1>1, <2>1, <2>2
<1>3. \A i \in 1 .. n + 1 : s[i] \in Int
  BY <1>1, ElementOfSeq
<1>4. /\ newest' = worker /\ lastCloud' = worker /\ worker' = None
      /\ recent' = {t \in recent : stamp - t <= Window} \cup {stamp}
      /\ UNCHANGED <<time, now, tickAt, diagAt>>
      /\ goodFrom' = IF ~worker.dense THEN Bad
                     ELSE IF goodFrom # Bad /\ stamp = newest.stamp + 1 THEN goodFrom ELSE stamp
  BY DEF OnCloud, Observe
<1>5. /\ worker \in Clouds /\ worker # None
      /\ newest.stamp < stamp /\ stamp <= time /\ newest.stamp \in Int
  BY DEF HealthInv, TypeOK, Timing, OnCloud, None, Clouds
<1> HIDE DEF n, HealthInv
<1>6. newest'.stamp = stamp /\ newest' # None
  BY <1>4, <1>5
<1>7. TypeOK'
  BY <1>1, <1>2, <1>4, <1>5 DEF HealthInv, TypeOK
<1>8. Timing'
  BY <1>4, <1>5 DEF HealthInv, Timing
<1> HIDE DEF stamp
<1>9. arrivals'[n + 2 - k] = stamp
  <2>1. n + 2 - k \in 1 .. n + 2 - k /\ k + (n + 2 - k) - 1 = n + 1
    BY <1>2
  <2> QED BY <1>1, <2>1
<1>10. Increasing(s)
  <2> SUFFICES ASSUME NEW i \in 1 .. n + 1, NEW j \in 1 .. n + 1, i < j
               PROVE  s[i] < s[j]
    BY <1>1 DEF Increasing
  <2>1. i \in 1 .. n /\ n \in 1 .. n
    BY <1>2
  <2>2. CASE j \in 1 .. n
    BY <1>1, <2>1, <2>2 DEF HealthInv, Recorded, Increasing, n
  <2>3. CASE j = n + 1
    <3>1. newest # None /\ arrivals[n] = newest.stamp
      BY <1>2, <2>1, EmptySeq DEF HealthInv, Recorded, n
    <3>2. s[i] = s[n] \/ s[i] < s[n]
      <4>1. i = n \/ arrivals[i] < arrivals[n]
        BY <1>2, <2>1 DEF HealthInv, Recorded, Increasing, n
      <4> QED BY <1>1, <2>1, <4>1
    <3>3. s[n] < s[n + 1] /\ s[i] \in Int /\ s[n] \in Int /\ s[n + 1] \in Int
      <4>1. s[n] = arrivals[n] /\ s[n + 1] = stamp /\ n \in 1 .. n + 1 /\ n + 1 \in 1 .. n + 1
        BY <1>1, <1>2, <2>1
      <4> QED BY <1>3, <1>5, <3>1, <4>1
    <3> QED BY <2>3, <3>2, <3>3
  <2> QED BY <1>2, <2>2, <2>3
<1>11. Increasing(arrivals')
  <2> SUFFICES ASSUME NEW i \in 1 .. n + 2 - k, NEW j \in 1 .. n + 2 - k, i < j
               PROVE  arrivals'[i] < arrivals'[j]
    BY <1>2 DEF Increasing
  <2>1. k + i - 1 \in 1 .. n + 1 /\ k + j - 1 \in 1 .. n + 1 /\ k + i - 1 < k + j - 1
    BY <1>2
  <2>2. s[k + i - 1] < s[k + j - 1]
    BY <1>1, <1>10, <2>1 DEF Increasing
  <2> QED BY <1>1, <2>1, <2>2
<1>12. recent' = Elements(arrivals')
  <2>1. recent = Elements(arrivals)
    BY DEF HealthInv, Recorded
  <2>2. ASSUME NEW t \in recent' PROVE t \in Elements(arrivals')
    <3>1. CASE t = stamp
      BY <1>2, <1>9, <3>1 DEF Elements
    <3>2. CASE t # stamp
      <4>1. PICK i \in 1 .. n : t = s[i] /\ stamp - t <= Window
        BY <1>1, <1>4, <2>1, <3>2 DEF Elements, n
      <4>2. ~(i \in 1 .. k - 1)
        <5>1. i \in 1 .. n + 1
          BY <1>2
        <5> QED BY <1>1, <1>2, <1>3, <4>1, <5>1
      <4>3. i - k + 1 \in 1 .. n + 2 - k /\ k + (i - k + 1) - 1 = i
        BY <1>2, <4>2
      <4>4. t = arrivals'[i - k + 1]
        BY <1>1, <4>1, <4>3
      <4> QED BY <1>2, <4>3, <4>4 DEF Elements
    <3> QED BY <3>1, <3>2
  <2>3. ASSUME NEW i \in 1 .. n + 2 - k PROVE arrivals'[i] \in recent'
    <3>1. CASE k + i - 1 = n + 1
      BY <1>1, <1>4, <3>1
    <3>2. CASE k + i - 1 # n + 1
      <4>1. /\ k + i - 1 \in 1 .. n /\ k # n + 1 /\ k \in 1 .. n + 1
            /\ k + i - 1 \in 1 .. n + 1 /\ (i = 1 \/ k < k + i - 1) /\ k + 1 - 1 = k
        BY <1>2, <3>2
      <4>2. s[k] \in Int /\ s[k + i - 1] \in Int
        BY <1>3, <4>1
      <4>3. s[k] <= s[k + i - 1]
        BY <1>1, <1>10, <4>1, <4>2 DEF Increasing
      <4>4. stamp - s[k + i - 1] <= Window
        <5>1. stamp - s[k] <= Window
          BY <1>1, <4>1
        <5> QED BY <1>2, <4>2, <4>3, <5>1
      <4>5. s[k + i - 1] \in recent
        BY <1>1, <2>1, <4>1 DEF Elements, n
      <4> QED BY <1>1, <1>4, <4>4, <4>5
    <3> QED BY <3>1, <3>2
  <2> QED BY <1>2, <2>2, <2>3 DEF Elements
<1>13. Recorded'
  <2>1. arrivals' # <<>>
    BY <1>2, EmptySeq
  <2>2. Len(arrivals') > 1 => stamp - arrivals'[1] <= Window
    <3>1. n + 2 - k > 1 => k # n + 1 /\ 1 \in 1 .. n + 2 - k /\ k + 1 - 1 = k
      BY <1>2
    <3> QED BY <1>1, <1>2, <3>1
  <2> QED BY <1>2, <1>4, <1>6, <1>9, <1>11, <1>12, <2>1, <2>2 DEF Recorded
<1>14. GoodStream'
  <2>1. CASE goodFrom' = Bad
    BY <2>1 DEF GoodStream
  <2>2. CASE worker.dense /\ goodFrom' = stamp
    <3>1. \A j \in 0 .. Len(arrivals') - 1 :
            j <= stamp - stamp => arrivals'[Len(arrivals') - j] = stamp - j
      <4>1. \A j \in 0 .. Len(arrivals') - 1 : j <= stamp - stamp => j = 0
        BY <1>2
      <4> QED BY <1>2, <1>9, <4>1
    <3>2. Len(arrivals') > stamp - stamp
      BY <1>2
    <3> QED BY <1>2, <1>4, <1>6, <2>2, <3>1, <3>2 DEF GoodStream
  <2>3. CASE worker.dense /\ goodFrom # Bad /\ stamp = newest.stamp + 1 /\ goodFrom' = goodFrom
    <3>1. newest # None /\ goodFrom \in Nat /\ goodFrom <= newest.stamp
      BY <2>3 DEF HealthInv, GoodStream, TypeOK
    <3>2. ASSUME NEW j \in 0 .. n, j <= stamp - goodFrom PROVE s[n + 1 - j] = stamp - j
      <4>1. CASE j = 0
        BY <1>1, <1>2, <4>1
      <4>2. CASE j # 0
        <5>1. /\ j - 1 \in 0 .. n - 1 /\ j - 1 <= newest.stamp - goodFrom
              /\ n + 1 - j \in 1 .. n /\ n + 1 - j = n - (j - 1)
          BY <1>2, <1>5, <2>3, <3>1, <3>2, <4>2
        <5>2. arrivals[n - (j - 1)] = newest.stamp - (j - 1)
          BY <2>3, <5>1 DEF HealthInv, GoodStream, n
        <5>3. newest.stamp - (j - 1) = stamp - j
          BY <1>2, <1>5, <2>3
        <5> QED BY <1>1, <5>1, <5>2, <5>3
      <4> QED BY <4>1, <4>2
    <3>3. \A j \in 0 .. Len(arrivals') - 1 :
            j <= stamp - goodFrom => arrivals'[Len(arrivals') - j] = stamp - j
      <4> SUFFICES ASSUME NEW j \in 0 .. n + 1 - k, j <= stamp - goodFrom
                   PROVE  arrivals'[n + 2 - k - j] = stamp - j
        BY <1>2
      <4>1. /\ n + 2 - k - j \in 1 .. n + 2 - k /\ j \in 0 .. n
            /\ k + (n + 2 - k - j) - 1 = n + 1 - j
        BY <1>2
      <4>2. arrivals'[n + 2 - k - j] = s[n + 1 - j]
        BY <1>1, <4>1
      <4> QED BY <3>2, <4>1, <4>2
    <3>4. Len(arrivals') > Window \/ Len(arrivals') > stamp - goodFrom
      <4> DEFINE m == IF stamp - goodFrom <= Window THEN stamp - goodFrom ELSE Window
      <4>1. m \in Nat /\ m <= Window /\ m <= stamp - goodFrom
            /\ (m = Window \/ m = stamp - goodFrom)
        BY <1>2, <1>5, <3>1
      <4> HIDE DEF m
      <4>2. m <= n
        <5>1. n > Window \/ n > newest.stamp - goodFrom
          BY <2>3 DEF HealthInv, GoodStream, n
        <5> QED BY <1>2, <1>5, <2>3, <3>1, <4>1, <5>1
      <4>3. s[n + 1 - m] = stamp - m
        <5>1. m \in 0 .. n
          BY <1>2, <4>1, <4>2
        <5> QED BY <3>2, <4>1, <5>1
      <4>4. ~(n + 1 - m \in 1 .. k - 1)
        <5>1. stamp - (stamp - m) = m
          BY <1>2, <4>1
        <5> QED BY <1>1, <1>2, <4>1, <4>3, <5>1
      <4>5. k <= n + 1 - m
        BY <1>2, <4>1, <4>2, <4>4
      <4> QED BY <1>2, <3>1, <4>1, <4>5
    <3>5. goodFrom <= stamp
      BY <1>2, <1>5, <3>1
    <3> QED BY <1>4, <1>6, <2>3, <3>3, <3>4, <3>5 DEF GoodStream
  <2> QED BY <1>4, <2>1, <2>2, <2>3
<1> QED BY <1>7, <1>8, <1>13, <1>14 DEF HealthInv

LEMMA HealthInvStep == HealthInv /\ [Next]_vars => HealthInv'
<1> SUFFICES ASSUME HealthInv, [Next]_vars PROVE HealthInv'
  OBVIOUS
<1>0. /\ TickPeriod \in Nat \ {0} /\ DiagPeriod \in Nat \ {0} /\ MaxWork \in Nat
      /\ MaxWait \in Nat /\ MaxWait < TickPeriod
  BY ParametersAssumption
<1>1. /\ time \in Nat /\ tickAt \in Nat /\ diagAt \in Nat /\ newest.stamp \in Int
      /\ worker # None => worker.stamp \in Nat
      /\ now # NotTicking => now \in Nat
  BY DEF HealthInv, TypeOK, Clouds, None
<1>2. ASSUME UNCHANGED <<lastCloud, arrivals, newest, recent, goodFrom>>, TypeOK', Timing'
      PROVE  HealthInv'
  BY <1>2 DEF HealthInv, Recorded, GoodStream
<1>3. ASSUME NEW cloud \in Samples(time), FrameArrives(cloud) PROVE HealthInv'
  <2>1. cloud \in Clouds /\ cloud.stamp = time
    BY <1>1 DEF Samples, Clouds
  <2>2. /\ worker' = cloud /\ newest.stamp < time
        /\ UNCHANGED <<time, now, lastCloud, arrivals, tickAt, diagAt, newest, recent, goodFrom>>
    BY <1>3 DEF FrameArrives, seenVars
  <2>3. TypeOK'
    BY <2>1, <2>2 DEF HealthInv, TypeOK
  <2>4. Timing'
    BY <1>0, <1>1, <2>1, <2>2 DEF HealthInv, Timing
  <2> QED BY <1>2, <2>2, <2>3, <2>4
<1>4. CASE OnCloud
  BY <1>4, RecordingStep
<1>5. CASE TickRead
  <2>1. /\ now = NotTicking /\ now' = time /\ tickAt' = tickAt + TickPeriod /\ tickAt <= time
        /\ UNCHANGED <<time, worker, lastCloud, arrivals, diagAt, newest, recent, goodFrom>>
    BY <1>5 DEF TickRead, seenVars
  <2>2. TypeOK'
    BY <1>0, <1>1, <2>1 DEF HealthInv, TypeOK
  <2>3. Timing'
    BY <1>0, <1>1, <2>1 DEF HealthInv, Timing, NotTicking
  <2> QED BY <1>2, <2>1, <2>2, <2>3
<1>6. CASE TickEvaluate
  <2>1. /\ now # NotTicking /\ now' = NotTicking
        /\ UNCHANGED <<time, worker, lastCloud, arrivals, tickAt, diagAt, newest, recent, goodFrom>>
    BY <1>6 DEF TickEvaluate, seenVars
  <2>2. TypeOK'
    BY <2>1 DEF HealthInv, TypeOK
  <2>3. Timing'
    BY <1>0, <1>1, <2>1 DEF HealthInv, Timing
  <2> QED BY <1>2, <2>1, <2>2, <2>3
<1>7. CASE Diagnose
  <2>1. /\ diagAt' = diagAt + DiagPeriod /\ diagAt <= time
        /\ UNCHANGED <<time, now, worker, lastCloud, arrivals, tickAt, newest, recent, goodFrom>>
    BY <1>7 DEF Diagnose, seenVars
  <2>2. TypeOK'
    BY <1>0, <1>1, <2>1 DEF HealthInv, TypeOK
  <2>3. Timing'
    BY <1>0, <1>1, <2>1 DEF HealthInv, Timing
  <2> QED BY <1>2, <2>1, <2>2, <2>3
<1>8. CASE Pass
  <2>1. /\ time' = time + 1
        /\ worker # None => time < worker.stamp + MaxWork
        /\ IF now # NotTicking THEN time < tickAt - TickPeriod + MaxWait ELSE time < tickAt + MaxWait
        /\ time < diagAt + MaxWait
        /\ UNCHANGED <<now, worker, lastCloud, arrivals, tickAt, diagAt, newest, recent, goodFrom>>
    BY <1>8 DEF Pass, seenVars
  <2>2. TypeOK'
    BY <2>1 DEF HealthInv, TypeOK
  <2>3. Timing'
    BY <1>0, <1>1, <2>1 DEF HealthInv, Timing
  <2> QED BY <1>2, <2>1, <2>2, <2>3
<1>9. CASE UNCHANGED vars
  BY <1>9 DEF vars, seenVars, HealthInv, TypeOK, Timing, Recorded, GoodStream
<1> QED BY <1>3, <1>4, <1>5, <1>6, <1>7, <1>8, <1>9 DEF Next

LEMMA HealthInvariant == Spec => []HealthInv
<1>1. Init => HealthInv
  <2> SUFFICES ASSUME Init PROVE HealthInv
    OBVIOUS
  <2>1. arrivals = <<>> /\ Len(arrivals) = 0 /\ arrivals \in Seq(Int)
    BY EmptySeq DEF Init
  <2>2. TypeOK
    BY <2>1, ParametersAssumption DEF Init, TypeOK
  <2>3. Timing
    BY ParametersAssumption DEF Init, Timing, None, NotTicking
  <2>4. Elements(arrivals) = {}
    BY <2>1 DEF Elements
  <2> QED BY <2>1, <2>2, <2>3, <2>4 DEF Init, HealthInv, Recorded, Increasing, GoodStream
<1> QED BY <1>1, HealthInvStep, PTL DEF Spec
-----------------------------------------------------------------------------
(* The level of a tick is that of the table for the time it read, whatever   *)
(* cloud was recorded between its reading the clock and its evaluation.      *)
THEOREM EvaluatesTable == Spec => []EvaluateMeetsTable
<1>1. HealthInv => EvaluateMeetsTable
  <2> SUFFICES ASSUME HealthInv, now # NotTicking PROVE Evaluate(now) = Table(now)
    BY DEF EvaluateMeetsTable
  <2>0. now \in Nat /\ newest.stamp \in Int /\ lastCloud = newest /\ Timeout \in Nat
    BY ParametersAssumption DEF HealthInv, TypeOK, Recorded, Clouds, None
  <2>1. CASE newest = None
    BY <2>0, <2>1 DEF Evaluate, Table
  <2>2. CASE newest # None
    <3>1. Larger(0, now - newest.stamp) > Timeout <=> now - newest.stamp > Timeout
      BY <2>0 DEF Larger
    <3>2. Len(arrivals) >= 2 /\ RateTooLow(arrivals, now) <=> LowRate(now)
      <4>1. arrivals \in Seq(Int) /\ Increasing(arrivals) /\ recent = Elements(arrivals)
        BY DEF HealthInv, TypeOK, Recorded
      <4>2. /\ Cardinality(recent) = Len(arrivals) /\ Len(arrivals) \in Nat
            /\ Len(arrivals) > 0 => First(recent) = arrivals[1]
        BY <4>1, InOrder, LenProperties
      <4> DEFINE few == (Len(arrivals) - 1) * SlowPeriod < Larger(now, newest.stamp) - arrivals[1]
      <4>3. ASSUME Len(arrivals) >= 2 PROVE RateTooLow(arrivals, now) <=> few
        <5>1. 1 \in 1 .. Len(arrivals) /\ Len(arrivals) \in 1 .. Len(arrivals) /\ 1 < Len(arrivals)
          BY <4>2, <4>3
        <5>2. arrivals[1] < arrivals[Len(arrivals)] /\ arrivals[1] \in Int
          BY <4>1, <5>1, ElementOfSeq DEF Increasing
        <5>3. arrivals[Len(arrivals)] = newest.stamp
          BY <2>2 DEF HealthInv, Recorded
        <5>4. ~(Larger(now, newest.stamp) - arrivals[1] <= 0)
          BY <2>0, <5>2, <5>3 DEF Larger
        <5> QED BY <5>3, <5>4 DEF RateTooLow
      <4>4. LowRate(now) <=> Len(arrivals) >= 2 /\ few
        BY <4>2 DEF LowRate
      <4> QED BY <4>3, <4>4
    <3> QED BY <2>0, <2>2, <3>1, <3>2 DEF Evaluate, Table
  <2> QED BY <2>1, <2>2
<1> QED BY <1>1, HealthInvariant, PTL

(* Facts about the constants and the times that the next steps keep needing. *)
LEMMA Times ==
  ASSUME HealthInv
  PROVE  /\ TickPeriod \in Nat /\ TickPeriod > 0 /\ DiagPeriod \in Nat /\ MaxWork \in Nat
         /\ MaxWait \in Nat /\ Timeout \in Nat /\ Grace \in Nat /\ Window \in Nat /\ Window > 0
         /\ SlowPeriod \in Nat
         /\ time \in Nat /\ tickAt \in Nat /\ diagAt \in Nat /\ newest.stamp \in Int
         /\ newest # None => newest.stamp \in Nat
         /\ goodFrom # Bad => goodFrom \in Nat
         /\ now # NotTicking => now \in Nat
  BY ParametersAssumption, WindowAssumption DEF HealthInv, TypeOK, Clouds, None

(* A stopped stream, or none, is known to each timer by its next round.      *)
LEMMA LossKnownStep ==
  ASSUME MaxWork <= Timeout
  PROVE  HealthInv /\ LossKnown /\ [Next]_vars => LossKnown'
<1> SUFFICES ASSUME HealthInv, LossKnown, [Next]_vars PROVE LossKnown'
  OBVIOUS
<1>1. ASSUME NEW cloud \in Samples(time), FrameArrives(cloud) PROVE LossKnown'
  BY <1>1 DEF FrameArrives, seenVars, LossKnown, LastTick
<1>2. CASE OnCloud
  <2>1. /\ newest' = worker /\ worker # None /\ worker.stamp \in Nat /\ time <= worker.stamp + MaxWork
        /\ UNCHANGED <<now, tickAt, diagAt>>
        /\ tickAt <= time + TickPeriod /\ diagAt <= time + DiagPeriod
    BY <1>2 DEF OnCloud, Observe, HealthInv, TypeOK, Timing, Clouds
  <2>2. ~(LastTick' > newest'.stamp + Timeout)
    BY <2>1, Times DEF LastTick
  <2>3. ~(diagAt' - DiagPeriod > newest'.stamp + Timeout + TickPeriod + MaxWait)
    BY <2>1, Times
  <2> QED BY <2>1, <2>2, <2>3 DEF LossKnown
<1>3. CASE TickRead
  <2>1. /\ now = NotTicking /\ now' = time /\ tickAt' = tickAt + TickPeriod
        /\ UNCHANGED <<time, report, shown, diagAt, newest>>
    BY <1>3 DEF TickRead, seenVars
  <2>2. LastTick' = LastTick
    BY <2>1, Times DEF LastTick, NotTicking
  <2> QED BY <2>1, <2>2 DEF LossKnown
<1>4. CASE TickEvaluate
  <2>1. /\ now # NotTicking /\ now' = NotTicking /\ report' = Evaluate(now)
        /\ UNCHANGED <<time, shown, tickAt, diagAt, newest>>
    BY <1>4 DEF TickEvaluate, seenVars
  <2>2. LastTick' <= now /\ now <= time /\ LastTick' \in Int
    BY <2>1, Times DEF LastTick, HealthInv, Timing
  <2>3. lastCloud = newest
    BY DEF HealthInv, Recorded
  <2>4. CASE newest # None
    <3>1. ASSUME LastTick' > newest.stamp + Timeout PROVE report' = "error"
      <4>1. Larger(0, now - newest.stamp) > Timeout
        BY <2>1, <2>2, <3>1, Times DEF Larger
      <4> QED BY <2>1, <2>3, <2>4, <4>1 DEF Evaluate
    <3> QED BY <2>1, <2>4, <3>1 DEF LossKnown
  <2>5. CASE newest = None
    <3>1. report' = IF now > Grace THEN "error" ELSE "stale"
      BY <2>1, <2>3, <2>5 DEF Evaluate
    <3>2. time <= Grace => report' = "stale"
      BY <2>1, <2>2, <3>1, Times
    <3>3. LastTick' > Grace => report' = "error"
      BY <2>1, <2>2, <3>1, Times
    <3> QED BY <2>1, <2>5, <3>2, <3>3 DEF LossKnown
  <2> QED BY <2>4, <2>5
<1>5. CASE Diagnose
  <2>1. /\ now = NotTicking /\ diagAt <= time /\ diagAt' = diagAt + DiagPeriod /\ shown' = report
        /\ UNCHANGED <<time, now, report, tickAt, newest>>
    BY <1>5 DEF Diagnose, seenVars
  <2>2. /\ LastTick' = LastTick /\ LastTick = tickAt - TickPeriod /\ diagAt' - DiagPeriod = diagAt
        /\ time <= tickAt + MaxWait
    BY <2>1, Times DEF LastTick, HealthInv, Timing
  <2>3. newest # None /\ diagAt > newest.stamp + Timeout + TickPeriod + MaxWait
          => LastTick > newest.stamp + Timeout
    BY <2>1, <2>2, Times
  <2>4. diagAt > Grace + TickPeriod + MaxWait => LastTick > Grace
    BY <2>1, <2>2, Times
  <2> QED BY <2>1, <2>2, <2>3, <2>4 DEF LossKnown
<1>6. CASE Pass
  <2>1. time' = time + 1 /\ UNCHANGED <<now, report, shown, tickAt, diagAt, newest>>
    BY <1>6 DEF Pass, seenVars
  <2>2. LastTick' = LastTick /\ (time' <= Grace => time <= Grace)
    BY <2>1, Times DEF LastTick
  <2> QED BY <2>1, <2>2 DEF LossKnown
<1>7. CASE UNCHANGED vars
  BY <1>7 DEF vars, seenVars, LossKnown, LastTick
<1> QED BY <1>1, <1>2, <1>3, <1>4, <1>5, <1>6, <1>7 DEF Next

(* /diagnostics shows a stream that has stopped, or never started, within a  *)
(* period of each timer, and a silent lidar as nothing but stale before, if  *)
(* the worker publishes a revolution within the timeout: one that takes      *)
(* longer records a cloud that is late already.                              *)
THEOREM ShowsLoss ==
  ASSUME MaxWork <= Timeout
  PROVE  Spec => []LossShown
<1>1. Init => LossKnown
  BY ParametersAssumption DEF Init, LossKnown, LastTick, NotTicking
<1>2. HealthInv /\ LossKnown => LossShown
  <2> SUFFICES ASSUME HealthInv, LossKnown PROVE LossShown
    OBVIOUS
  <2>1. time <= diagAt + MaxWait
    BY DEF HealthInv, Timing
  <2>2. newest # None /\ Settled(newest.stamp + Timeout)
          => diagAt - DiagPeriod > newest.stamp + Timeout + TickPeriod + MaxWait
    BY <2>1, Times DEF Settled
  <2>3. Settled(Grace) => diagAt - DiagPeriod > Grace + TickPeriod + MaxWait
    BY <2>1, Times DEF Settled
  <2> QED BY <2>2, <2>3 DEF LossKnown, LossShown
<1> QED BY <1>1, <1>2, LossKnownStep, HealthInvariant, PTL DEF Spec

(* What a good stream needs of the parameters: clouds that come once a unit  *)
(* and are recorded MaxWork late are neither lost nor too few.               *)
GoodRate == 1 + MaxWork <= Timeout /\ Window * SlowPeriod > Window + MaxWork

(* A good stream that has filled the window is evaluated as OK.              *)
LEMMA GoodIsOk ==
  ASSUME HealthInv, GoodRate, now # NotTicking, goodFrom # Bad,
         time - newest.stamp <= 1 + MaxWork, now > goodFrom + Window + MaxWork
  PROVE  Evaluate(now) = "ok"
<1> DEFINE n == Len(arrivals)
           late == newest.stamp
<1>1. newest # None /\ newest.dense /\ lastCloud = newest
  BY DEF HealthInv, GoodStream, Recorded
<1>2. /\ n \in Nat /\ now \in Nat /\ time \in Nat /\ late \in Nat /\ goodFrom \in Nat
      /\ now <= time /\ late <= time /\ goodFrom <= late /\ time - late <= 1 + MaxWork
      /\ now > goodFrom + Window + MaxWork
  <2>1. now \in Nat /\ time \in Nat /\ late \in Nat /\ goodFrom \in Nat
    BY <1>1, Times
  <2>2. now <= time /\ late <= time
    BY <1>1 DEF HealthInv, Timing
  <2>3. n \in Nat
    BY LenProperties DEF HealthInv, TypeOK
  <2>4. goodFrom <= late
    BY DEF HealthInv, GoodStream
  <2> QED BY <2>1, <2>2, <2>3, <2>4
<1>3. /\ Window \in Nat /\ SlowPeriod \in Nat /\ MaxWork \in Nat /\ Timeout \in Nat
      /\ 1 + MaxWork <= Timeout /\ Window * SlowPeriod > Window + MaxWork
      /\ Window > 0 /\ Window * SlowPeriod \in Nat
  BY ParametersAssumption, WindowAssumption DEF GoodRate
<1>4. n > Window \/ n > late - goodFrom
  BY DEF HealthInv, GoodStream
<1> HIDE DEF n, late
<1>5. Larger(0, now - late) <= Timeout
  BY <1>2, <1>3 DEF Larger
<1>6. n > Window
  BY <1>2, <1>3, <1>4
<1>7. ~RateTooLow(arrivals, now)
  <2> DEFINE first == arrivals[1]
             span  == Larger(now, late) - first
  <2>1. 1 \in 1 .. n /\ n \in 1 .. n /\ 1 < n
    BY <1>2, <1>3, <1>6
  <2>2. first < late /\ first \in Int /\ late - first <= Window /\ arrivals[n] = late
    <3>1. Increasing(arrivals) /\ arrivals \in Seq(Int)
      BY DEF HealthInv, TypeOK, Recorded
    <3>2. first < arrivals[n] /\ first \in Int
      BY <2>1, <3>1, ElementOfSeq DEF Increasing, n
    <3> QED BY <1>1, <2>1, <3>2 DEF HealthInv, Recorded, n, late
  <2> HIDE DEF first
  <2>3. span \in Int /\ span > 0 /\ span <= Window + MaxWork + 1
    BY <1>2, <1>3, <2>2 DEF Larger
  <2>4. (n - 1) * SlowPeriod \in Int /\ (n - 1) * SlowPeriod >= Window * SlowPeriod
    <3>1. \A a, b, c \in Nat : a >= b => a * c >= b * c
      <4> SUFFICES ASSUME NEW a \in Nat, NEW b \in Nat, NEW c \in Nat, a >= b PROVE a * c >= b * c
        OBVIOUS
      <4>1. a * c = b * c + (a - b) * c /\ (a - b) * c >= 0
        OBVIOUS
      <4> QED BY <4>1
    <3>2. n - 1 \in Nat /\ n - 1 >= Window
      BY <1>2, <1>3, <1>6
    <3> QED BY <1>3, <3>1, <3>2
  <2> HIDE DEF span
  <2>5. ~(span <= 0) /\ ~((n - 1) * SlowPeriod < span)
    <3> DEFINE covered == (n - 1) * SlowPeriod
               enough  == Window * SlowPeriod
    <3>1. covered \in Int /\ enough \in Nat /\ covered >= enough /\ enough > Window + MaxWork
      BY <1>3, <2>4
    <3> HIDE DEF covered, enough
    <3>2. ~(covered < span)
      BY <1>3, <2>3, <3>1
    <3> QED BY <2>3, <3>2 DEF covered
  <2> QED BY <2>2, <2>5 DEF RateTooLow, span, first, n
<1> QED BY <1>1, <1>2, <1>3, <1>5, <1>7 DEF Evaluate, Larger, late

LEMMA RecoveryKnownStep ==
  ASSUME GoodRate
  PROVE  HealthInv /\ RecoveryKnown /\ [Next]_vars => RecoveryKnown'
<1> SUFFICES ASSUME HealthInv, RecoveryKnown, [Next]_vars PROVE RecoveryKnown'
  OBVIOUS
<1>1. ASSUME NEW cloud \in Samples(time), FrameArrives(cloud) PROVE RecoveryKnown'
  BY <1>1 DEF FrameArrives, seenVars, RecoveryKnown, LastTick
<1>2. CASE OnCloud
  <2>1. /\ newest' = worker /\ worker.stamp \in Nat /\ time <= worker.stamp + MaxWork
        /\ UNCHANGED <<time, now, tickAt, diagAt, report, shown>>
        /\ tickAt <= time + TickPeriod /\ diagAt <= time + DiagPeriod
        /\ goodFrom' = IF ~worker.dense THEN Bad
                       ELSE IF goodFrom # Bad /\ worker.stamp = newest.stamp + 1 THEN goodFrom
                       ELSE worker.stamp
    BY <1>2 DEF OnCloud, Observe, HealthInv, TypeOK, Timing, Clouds
  <2>2. CASE goodFrom' = Bad
    BY <2>2 DEF RecoveryKnown
  <2>3. CASE goodFrom' = worker.stamp
    <3>1. /\ ~(LastTick' > goodFrom' + Window + MaxWork)
          /\ ~(diagAt' - DiagPeriod > goodFrom' + Window + MaxWork + TickPeriod + MaxWait)
      BY <2>1, <2>3, Times DEF LastTick
    <3> QED BY <3>1 DEF RecoveryKnown
  <2>4. CASE goodFrom # Bad /\ worker.stamp = newest.stamp + 1 /\ goodFrom' = goodFrom
    <3>1. time - newest.stamp <= 1 + MaxWork /\ LastTick' = LastTick
      BY <2>1, <2>4, Times DEF LastTick
    <3> QED BY <2>1, <2>4, <3>1 DEF RecoveryKnown
  <2> QED BY <2>1, <2>2, <2>3, <2>4
<1>3. CASE TickRead
  <2>1. /\ now = NotTicking /\ now' = time /\ tickAt' = tickAt + TickPeriod
        /\ UNCHANGED <<time, report, shown, diagAt, newest, goodFrom>>
    BY <1>3 DEF TickRead, seenVars
  <2>2. LastTick' = LastTick
    BY <2>1, Times DEF LastTick, NotTicking
  <2> QED BY <2>1, <2>2 DEF RecoveryKnown
<1>4. CASE TickEvaluate
  <2>1. /\ now # NotTicking /\ now' = NotTicking /\ report' = Evaluate(now)
        /\ UNCHANGED <<time, shown, tickAt, diagAt, newest, goodFrom>>
    BY <1>4 DEF TickEvaluate, seenVars
  <2>2. LastTick' <= now /\ LastTick' \in Int
    BY <2>1, Times DEF LastTick, HealthInv, Timing
  <2>3. ASSUME goodFrom # Bad, time - newest.stamp <= 1 + MaxWork,
               LastTick' > goodFrom + Window + MaxWork
        PROVE  report' = "ok"
    <3>1. now > goodFrom + Window + MaxWork
      BY <2>1, <2>2, <2>3, Times
    <3> QED BY <2>1, <2>3, <3>1, GoodIsOk
  <2> QED BY <2>1, <2>3 DEF RecoveryKnown
<1>5. CASE Diagnose
  <2>1. /\ now = NotTicking /\ diagAt <= time /\ diagAt' = diagAt + DiagPeriod /\ shown' = report
        /\ UNCHANGED <<time, now, report, tickAt, newest, goodFrom>>
    BY <1>5 DEF Diagnose, seenVars
  <2>2. /\ LastTick' = LastTick /\ LastTick = tickAt - TickPeriod /\ diagAt' - DiagPeriod = diagAt
        /\ time <= tickAt + MaxWait
    BY <2>1, Times DEF LastTick, HealthInv, Timing
  <2>3. goodFrom # Bad /\ diagAt > goodFrom + Window + MaxWork + TickPeriod + MaxWait
          => LastTick > goodFrom + Window + MaxWork
    BY <2>1, <2>2, Times
  <2> QED BY <2>1, <2>2, <2>3 DEF RecoveryKnown
<1>6. CASE Pass
  <2>1. time' = time + 1 /\ UNCHANGED <<now, report, shown, tickAt, diagAt, newest, goodFrom>>
    BY <1>6 DEF Pass, seenVars
  <2>2. /\ LastTick' = LastTick
        /\ time' - newest.stamp <= 1 + MaxWork => time - newest.stamp <= 1 + MaxWork
    BY <2>1, Times DEF LastTick
  <2> QED BY <2>1, <2>2 DEF RecoveryKnown
<1>7. CASE UNCHANGED vars
  BY <1>7 DEF vars, seenVars, RecoveryKnown, LastTick
<1> QED BY <1>1, <1>2, <1>3, <1>4, <1>5, <1>6, <1>7 DEF Next

(* A good stream is shown as OK once it has filled the window and each timer *)
(* has fired, whatever outage or sparse cloud came before it, and however    *)
(* late, within GoodRate, the worker records it.                             *)
THEOREM ShowsRecovery ==
  ASSUME GoodRate
  PROVE  Spec => []RecoveryShown
<1>1. Init => RecoveryKnown
  BY DEF Init, RecoveryKnown
<1>2. HealthInv /\ RecoveryKnown => RecoveryShown
  <2> SUFFICES ASSUME HealthInv, RecoveryKnown, goodFrom # Bad, time - newest.stamp <= 1 + MaxWork,
                      Settled(goodFrom + Window + MaxWork)
               PROVE  shown = "ok"
    BY DEF RecoveryShown
  <2>1. time <= diagAt + MaxWait
    BY DEF HealthInv, Timing
  <2>2. diagAt - DiagPeriod > goodFrom + Window + MaxWork + TickPeriod + MaxWait
    BY <2>1, Times DEF Settled
  <2> QED BY <2>2 DEF RecoveryKnown
<1> QED BY <1>1, <1>2, RecoveryKnownStep, HealthInvariant, PTL DEF Spec
=============================================================================
