---------------------------- MODULE GpsHealth_proofs ----------------------------
(* What GpsHealth guarantees for every rate window, timeout and length of a  *)
(* run, and for any number of clock steps.                                   *)
EXTENDS GpsHealth, SequenceTheorems, FiniteSetTheorems, WellFoundedInduction, TLAPS

(* The clock has not gone backwards.                                         *)
Forward == steps = 0 \/ Steps \subseteq Nat

TypeOK ==
  /\ steady \in Nat /\ clock \in Int /\ steps \in Nat /\ gpsRequired \in BOOLEAN
  /\ newest \in {None} \cup [at : Nat, stamp : Int, quality : FixQualities]
  /\ arrivals \in Seq(Int) /\ goodFrom \in Nat \cup {Bad}
  /\ tickAt \in steady .. steady + 1 /\ diagAt \in steady .. steady + 1

(* last_fix_ and arrival_times_s_ hold what came.                            *)
Recorded ==
  /\ lastFix = IF newest = None THEN NoFix ELSE [stamp |-> newest.stamp, quality |-> newest.quality]
  /\ newest = None <=> arrivals = <<>>
  /\ newest # None =>
       /\ newest.at <= steady /\ arrivals[Len(arrivals)] = newest.stamp
       /\ Len(arrivals) > 1 => newest.stamp - arrivals[1] <= Window

Increasing(s) == \A i, j \in 1 .. Len(s) : i < j => s[i] < s[j]
Elements(s)   == {s[i] : i \in 1 .. Len(s)}

(* How the two clocks differ, and what it does to the arrivals.              *)
Stamped ==
  /\ steps = 0 => clock = steady /\ (newest # None => newest.stamp = newest.at)
  /\ Forward /\ newest # None => clock - newest.stamp >= steady - newest.at
  /\ Forward => Increasing(arrivals)
  /\ steps = 0 => recent = Elements(arrivals)

(* A good stream's fixes come once a unit and fill the window from behind.   *)
GoodStream ==
  goodFrom # Bad =>
    /\ newest # None /\ newest.quality = "fine" /\ goodFrom <= newest.at
    /\ clock - newest.stamp = steady - newest.at
    /\ \A k \in 0 .. Len(arrivals) - 1 :
         k <= newest.at - goodFrom => arrivals[Len(arrivals) - k] = newest.stamp - k
    /\ Len(arrivals) > Window \/ Len(arrivals) > newest.at - goodFrom

HealthInv == TypeOK /\ Recorded /\ Stamped /\ GoodStream

(* LossShown for each of the two timers, by the time it last fired.          *)
LossKnown ==
  newest # None =>
    /\ tickAt - 1 > newest.at + FixTimeout => report = Alarm
    /\ diagAt - 2 > newest.at + FixTimeout => shown = Alarm

(* RecoveryShown, in the same way.                                           *)
RecoveryKnown ==
  goodFrom # Bad /\ Quiet <= 1 =>
    /\ tickAt - 1 > goodFrom + Window => report = "ok"
    /\ diagAt - 2 > goodFrom + Window => shown = "ok"

-----------------------------------------------------------------------------
(* A non-empty set of natural numbers has a least element.                   *)
LEMMA LeastNatural ==
  ASSUME NEW S \in SUBSET Nat, S # {}
  PROVE  \E x \in S : \A y \in S : x <= y
<1> DEFINE R == {ss \in Nat \X Nat : ss[1] < ss[2]}
<1>1. IsWellFoundedOn(R, Nat)
  BY NatLessThanWellFounded, Zenon DEF OpToRel
<1> HIDE DEF R
<1>2. PICK x \in S : \A y \in S : ~(<<y, x>> \in R)
  BY <1>1, WFMin
<1>3. ASSUME NEW y \in S PROVE x <= y
  <2>1. <<y, x>> \notin R
    BY <1>2
  <2>2. x \in Nat /\ y \in Nat /\ ~(y < x)
    BY <2>1 DEF R
  <2> QED BY <2>2
<1> QED BY <1>3

(* What is left of the arrivals: all from the first young enough, or the     *)
(* last alone.                                                               *)
LEMMA Pruning ==
  ASSUME NEW s \in Seq(Int), Len(s) > 0, NEW t \in Int
  PROVE  \E k \in 1 .. Len(s) :
           /\ Pruned(s, t) \in Seq(Int) /\ Len(Pruned(s, t)) = Len(s) - k + 1
           /\ \A i \in 1 .. Len(s) - k + 1 : Pruned(s, t)[i] = s[k + i - 1]
           /\ k = Len(s) \/ t - s[k] <= Window
           /\ \A i \in 1 .. k - 1 : t - s[i] > Window
<1> DEFINE kept == {i \in 1 .. Len(s) : i = Len(s) \/ t - s[i] <= Window}
<1>0. Len(s) \in Nat /\ Window \in Nat
  BY LenProperties, WindowAssumption
<1>1. PICK k \in kept : \A j \in kept : k <= j
  <2>1. kept \in SUBSET Nat /\ Len(s) \in kept
    BY <1>0
  <2> HIDE DEF kept
  <2> QED BY <2>1, LeastNatural
<1>2. First(kept) = k
  <2>1. First(kept) \in kept /\ \A j \in kept : First(kept) <= j
    BY <1>1 DEF First
  <2>2. \A a, b \in kept : a \in Nat /\ (a <= b /\ b <= a => a = b)
    BY <1>0
  <2> HIDE DEF kept
  <2> QED BY <1>1, <2>1, <2>2
<1>3. Pruned(s, t) = SubSeq(s, k, Len(s))
  BY <1>2 DEF Pruned
<1>4. k \in 1 .. Len(s) /\ \A i \in 1 .. Len(s) : s[i] \in Int
  BY ElementOfSeq
<1>5. \A i \in 1 .. k - 1 : i \in 1 .. Len(s) /\ i \notin kept /\ s[i] \in Int
  BY <1>0, <1>1, <1>4
<1>6. /\ SubSeq(s, k, Len(s)) \in Seq(Int) /\ Len(SubSeq(s, k, Len(s))) = Len(s) - k + 1
      /\ \A i \in 1 .. Len(s) - k + 1 : SubSeq(s, k, Len(s))[i] = s[k + i - 1]
  <2>1. \A i \in k .. Len(s) : s[i] \in Int
    BY <1>0, <1>4
  <2>2. k \in Int /\ Len(s) \in Int /\ k <= Len(s)
    BY <1>0, <1>4
  <2> HIDE DEF kept
  <2> QED BY <2>1, <2>2, SubSeqProperties
<1>7. \A i \in 1 .. k - 1 : t - s[i] > Window
  BY <1>0, <1>5
<1>8. k = Len(s) \/ t - s[k] <= Window
  BY <1>1
<1>9. /\ Pruned(s, t) \in Seq(Int) /\ Len(Pruned(s, t)) = Len(s) - k + 1
      /\ \A i \in 1 .. Len(s) - k + 1 : Pruned(s, t)[i] = s[k + i - 1]
  BY <1>3, <1>6
<1> HIDE DEF kept
<1> QED BY <1>4, <1>7, <1>8, <1>9

(* Arrivals in increasing order are as many as their set, and the first is   *)
(* the least.                                                                *)
LEMMA InOrder ==
  ASSUME NEW s \in Seq(Int), Increasing(s)
  PROVE  Cardinality(Elements(s)) = Len(s) /\ (Len(s) > 0 => First(Elements(s)) = s[1])
<1>0. Len(s) \in Nat /\ s \in [1 .. Len(s) -> Int] /\ \A i \in 1 .. Len(s) : s[i] \in Int
  <2>1. Len(s) \in Nat /\ s \in [1 .. Len(s) -> Int]
    BY LenProperties
  <2> QED BY <2>1, ElementOfSeq
<1>1. Cardinality(Elements(s)) = Len(s)
  <2>1. s \in Surjection(1 .. Len(s), Elements(s))
    <3>1. s \in [1 .. Len(s) -> Elements(s)]
      BY <1>0 DEF Elements
    <3> QED BY <3>1 DEF Surjection, Elements
  <2>2. s \in Injection(1 .. Len(s), Elements(s))
    <3>1. \A i, j \in 1 .. Len(s) : s[i] = s[j] => i = j
      BY <1>0 DEF Increasing
    <3> QED BY <1>0, <2>1, <3>1 DEF Surjection, Injection, IsInjective
  <2>3. IsFiniteSet(1 .. Len(s)) /\ Cardinality(1 .. Len(s)) = Len(s)
    BY <1>0, FS_Interval
  <2> QED BY <2>1, <2>2, <2>3, FS_Surjection
<1>2. ASSUME Len(s) > 0 PROVE First(Elements(s)) = s[1]
  <2>1. 1 \in 1 .. Len(s) /\ \A i \in 1 .. Len(s) : i = 1 \/ 1 < i
    BY <1>0, <1>2
  <2>2. s[1] \in Elements(s) /\ s[1] \in Int
    BY <1>0, <2>1 DEF Elements
  <2>3. ASSUME NEW x \in Elements(s) PROVE x \in Int /\ s[1] <= x
    <3>1. PICK i \in 1 .. Len(s) : x = s[i]
      BY DEF Elements
    <3> QED BY <1>0, <2>1, <3>1 DEF Increasing
  <2>4. First(Elements(s)) \in Elements(s) /\ \A x \in Elements(s) : First(Elements(s)) <= x
    BY <2>2, <2>3 DEF First
  <2>5. First(Elements(s)) <= s[1] /\ s[1] <= First(Elements(s)) /\ First(Elements(s)) \in Int
    BY <2>2, <2>3, <2>4
  <2> QED BY <2>2, <2>5
<1> QED BY <1>1, <1>2
-----------------------------------------------------------------------------
(* A fix is added to the window: the arrivals from the k-th on and its own.  *)
LEMMA Arriving ==
  ASSUME HealthInv, NEW q \in Qualities, FixArrives(q)
  PROVE  \E k \in 1 .. Len(arrivals) + 1, s \in Seq(Int) :
           /\ Len(s) = Len(arrivals) + 1 /\ s[Len(s)] = clock
           /\ \A i \in 1 .. Len(arrivals) : s[i] = arrivals[i]
           /\ arrivals' \in Seq(Int) /\ Len(arrivals') = Len(arrivals) + 2 - k
           /\ \A i \in 1 .. Len(arrivals) + 2 - k : arrivals'[i] = s[k + i - 1]
           /\ k = Len(arrivals) + 1 \/ clock - s[k] <= Window
           /\ \A i \in 1 .. k - 1 : clock - s[i] > Window
<1> DEFINE s == Append(arrivals, clock)
<1>1. arrivals \in Seq(Int) /\ clock \in Int
  BY DEF HealthInv, TypeOK
<1>2. /\ s \in Seq(Int) /\ Len(s) = Len(arrivals) + 1 /\ s[Len(arrivals) + 1] = clock
      /\ \A i \in 1 .. Len(arrivals) : s[i] = arrivals[i]
      /\ Len(arrivals) \in Nat
  BY <1>1, AppendProperties, LenProperties
<1>3. arrivals' = Pruned(s, clock)
  BY DEF FixArrives
<1> HIDE DEF s
<1>4. PICK k \in 1 .. Len(s) :
           /\ Pruned(s, clock) \in Seq(Int) /\ Len(Pruned(s, clock)) = Len(s) - k + 1
           /\ \A i \in 1 .. Len(s) - k + 1 : Pruned(s, clock)[i] = s[k + i - 1]
           /\ k = Len(s) \/ clock - s[k] <= Window
           /\ \A i \in 1 .. k - 1 : clock - s[i] > Window
  <2>1. Len(s) > 0
    BY <1>2
  <2> QED BY <1>1, <1>2, <2>1, Pruning
<1>5. k \in 1 .. Len(arrivals) + 1 /\ Len(s) - k + 1 = Len(arrivals) + 2 - k
  BY <1>2, <1>4
<1> QED BY <1>2, <1>3, <1>4, <1>5

(* HealthInv is inductive.                                                   *)
LEMMA HealthInvStep == HealthInv /\ [Next]_vars => HealthInv'
<1> SUFFICES ASSUME HealthInv, [Next]_vars PROVE HealthInv'
  OBVIOUS
<1> USE DEF HealthInv
<1>0. /\ Window \in Nat \ {0} /\ Len(arrivals) \in Nat /\ steady \in Nat /\ clock \in Int
      /\ \A i \in 1 .. Len(arrivals) : arrivals[i] \in Int
  <2>1. arrivals \in Seq(Int) /\ Len(arrivals) \in Nat /\ steady \in Nat /\ clock \in Int
    BY LenProperties DEF TypeOK
  <2> QED BY <2>1, ElementOfSeq, WindowAssumption
<1>1. ASSUME NEW q \in Qualities, FixArrives(q) PROVE HealthInv'
  <2> DEFINE n == Len(arrivals)
  <2>1. PICK k \in 1 .. n + 1, s \in Seq(Int) :
           /\ Len(s) = n + 1 /\ s[Len(s)] = clock
           /\ \A i \in 1 .. n : s[i] = arrivals[i]
           /\ arrivals' \in Seq(Int) /\ Len(arrivals') = n + 2 - k
           /\ \A i \in 1 .. n + 2 - k : arrivals'[i] = s[k + i - 1]
           /\ k = n + 1 \/ clock - s[k] <= Window
           /\ \A i \in 1 .. k - 1 : clock - s[i] > Window
    BY <1>1, Arriving
  <2>a. /\ n \in Nat /\ k \in Int /\ 1 <= k /\ k <= n + 1 /\ Len(arrivals') = n + 2 - k
        /\ steady \in Nat /\ clock \in Int /\ Window \in Nat /\ Window > 0
    BY <1>0, <2>1
  <2>b. \A i \in 1 .. n + 1 : s[i] \in Int
    BY <2>1, ElementOfSeq
  <2> HIDE DEF n, HealthInv
  <2>2. /\ newest' = [at |-> steady, stamp |-> clock, quality |-> q]
        /\ lastFix' = [stamp |-> clock, quality |-> q]
        /\ recent' = {t \in recent : clock - t <= Window} \cup {clock}
        /\ UNCHANGED <<gpsRequired, tickAt, diagAt, steady, clock, steps>>
        /\ newest # None => newest.at < steady
        /\ goodFrom' = IF q # "fine" THEN Bad
                       ELSE IF goodFrom # Bad /\ steady - newest.at <= 1 THEN goodFrom ELSE steady
    BY <1>1 DEF FixArrives, Observe, clockVars
  <2>3. newest' # None /\ newest'.at = steady /\ newest'.stamp = clock /\ newest'.quality = q
        /\ q \in FixQualities
    BY <2>2, ParametersAssumption DEF None, FixQualities
  <2>4. TypeOK'
    BY <2>a, <2>1, <2>2, <2>3 DEF HealthInv, TypeOK
  <2>5. arrivals'[n + 2 - k] = clock
    <3>1. n + 2 - k \in 1 .. n + 2 - k /\ k + (n + 2 - k) - 1 = n + 1
      BY <2>a
    <3> QED BY <2>1, <3>1
  <2>6. Recorded'
    <3>1. arrivals' # <<>>
      BY <2>a, EmptySeq
    <3>2. Len(arrivals') > 1 => clock - arrivals'[1] <= Window
      <4>1. n + 2 - k > 1 => k # n + 1 /\ 1 \in 1 .. n + 2 - k /\ k + 1 - 1 = k
        BY <2>a
      <4> QED BY <2>a, <2>1, <4>1
    <3> QED BY <2>a, <2>2, <2>3, <2>5, <3>1, <3>2 DEF Recorded
  <2>7. Forward => Increasing(s)
    <3> SUFFICES ASSUME Forward, NEW i \in 1 .. n + 1, NEW j \in 1 .. n + 1, i < j
                 PROVE  s[i] < s[j]
      BY <2>1 DEF Increasing
    <3>1. i \in 1 .. n /\ n \in 1 .. n
      BY <2>a
    <3>2. CASE j \in 1 .. n
      BY <2>1, <3>1, <3>2 DEF HealthInv, Stamped, Increasing, n
    <3>3. CASE j = n + 1
      <4>1. newest # None /\ arrivals[n] = newest.stamp
        BY <3>1, <2>a, EmptySeq DEF HealthInv, Recorded, n
      <4>2. newest.stamp < clock
        <5>1. newest.at \in Nat /\ newest.stamp \in Int
          BY <4>1 DEF HealthInv, TypeOK
        <5>2. newest.at < steady /\ clock - newest.stamp >= steady - newest.at
          BY <2>2, <4>1 DEF HealthInv, Stamped
        <5> QED BY <2>a, <5>1, <5>2
      <4>3. s[i] = s[n] \/ s[i] < s[n]
        <5>1. i = n \/ arrivals[i] < arrivals[n]
          BY <2>a, <3>1 DEF HealthInv, Stamped, Increasing, n
        <5> QED BY <2>1, <3>1, <5>1
      <4>4. s[n] < s[n + 1] /\ s[i] \in Int /\ s[n] \in Int /\ s[n + 1] \in Int
        <5>1. s[n] = arrivals[n] /\ s[n + 1] = clock /\ n \in 1 .. n + 1 /\ n + 1 \in 1 .. n + 1
          BY <2>a, <2>1, <3>1
        <5> QED BY <2>b, <4>1, <4>2, <5>1
      <4> QED BY <3>3, <4>3, <4>4
    <3> QED BY <2>a, <3>2, <3>3
  <2>8. Forward => Increasing(arrivals')
    <3> SUFFICES ASSUME Forward, NEW i \in 1 .. n + 2 - k, NEW j \in 1 .. n + 2 - k, i < j
                 PROVE  arrivals'[i] < arrivals'[j]
      BY <2>a DEF Increasing
    <3>1. k + i - 1 \in 1 .. n + 1 /\ k + j - 1 \in 1 .. n + 1 /\ k + i - 1 < k + j - 1
      BY <2>a
    <3>2. s[k + i - 1] < s[k + j - 1]
      BY <2>1, <2>7, <3>1 DEF Increasing
    <3> QED BY <2>1, <3>2
  <2>9. steps = 0 => recent' = Elements(arrivals')
    <3> SUFFICES ASSUME steps = 0 PROVE recent' = Elements(arrivals')
      OBVIOUS
    <3>1. recent = Elements(arrivals) /\ Increasing(s)
      BY <2>7 DEF HealthInv, Stamped, Forward
    <3>2. ASSUME NEW t \in recent' PROVE t \in Elements(arrivals')
      <4>1. CASE t = clock
        BY <2>a, <2>5, <4>1 DEF Elements
      <4>2. CASE t # clock
        <5>1. PICK i \in 1 .. n : t = s[i] /\ clock - t <= Window
          BY <2>1, <2>2, <3>1, <4>2 DEF Elements, n
        <5>2. ~(i \in 1 .. k - 1)
          <6>1. i \in 1 .. n + 1
            BY <2>a
          <6> QED BY <2>a, <2>b, <2>1, <5>1, <6>1
        <5>3. i - k + 1 \in 1 .. n + 2 - k /\ k + (i - k + 1) - 1 = i
          BY <2>a, <5>2
        <5>4. t = arrivals'[i - k + 1]
          BY <2>1, <5>1, <5>3
        <5> QED BY <2>a, <5>3, <5>4 DEF Elements
      <4> QED BY <4>1, <4>2
    <3>3. ASSUME NEW i \in 1 .. n + 2 - k PROVE arrivals'[i] \in recent'
      <4>1. CASE k + i - 1 = n + 1
        BY <2>1, <2>2, <4>1
      <4>2. CASE k + i - 1 # n + 1
        <5>1. /\ k + i - 1 \in 1 .. n /\ k # n + 1 /\ k \in 1 .. n + 1
              /\ k + i - 1 \in 1 .. n + 1 /\ (i = 1 \/ k < k + i - 1) /\ k + 1 - 1 = k
          BY <2>a, <4>2
        <5>2. s[k] \in Int /\ s[k + i - 1] \in Int
          BY <2>b, <5>1
        <5>3. s[k] <= s[k + i - 1]
          BY <2>1, <3>1, <5>1, <5>2 DEF Increasing
        <5>4. clock - s[k + i - 1] <= Window
          <6>1. clock - s[k] <= Window
            BY <2>1, <5>1
          <6> QED BY <2>a, <5>2, <5>3, <6>1
        <5>5. s[k + i - 1] \in recent
          BY <2>1, <3>1, <5>1 DEF Elements, n
        <5> QED BY <2>1, <2>2, <5>4, <5>5
      <4> QED BY <4>1, <4>2
    <3> QED BY <2>a, <3>2, <3>3 DEF Elements
  <2>10. Stamped'
    <3>1. steps' = 0 => clock' = steady' /\ newest'.stamp = newest'.at
      BY <2>2, <2>3 DEF HealthInv, Stamped
    <3>2. Forward' <=> Forward
      BY <2>2 DEF Forward
    <3>3. clock' - newest'.stamp >= steady' - newest'.at
      BY <2>a, <2>2, <2>3
    <3> QED BY <2>2, <2>8, <2>9, <3>1, <3>2, <3>3 DEF Stamped
  <2>11. GoodStream'
    <3>1. CASE goodFrom' = Bad
      BY <3>1 DEF GoodStream
    <3>2. CASE q = "fine" /\ goodFrom' = steady /\ steady # Bad
      <4>1. \A j \in 0 .. Len(arrivals') - 1 :
              j <= steady - steady => arrivals'[Len(arrivals') - j] = clock - j
        <5>1. \A j \in 0 .. Len(arrivals') - 1 : j <= steady - steady => j = 0
          BY <2>a
        <5> QED BY <2>a, <2>5, <5>1
      <4>2. Len(arrivals') > steady - steady
        BY <2>a
      <4>3. clock - clock = steady - steady
        BY <2>a
      <4> QED BY <2>2, <2>3, <2>a, <3>2, <4>1, <4>2, <4>3 DEF GoodStream
    <3>3. CASE q = "fine" /\ goodFrom # Bad /\ steady - newest.at <= 1 /\ goodFrom' = goodFrom
      <4>1. /\ newest # None /\ newest.at \in Nat /\ newest.stamp \in Int /\ goodFrom \in Nat
            /\ goodFrom <= newest.at /\ newest.at < steady
        BY <2>2, <3>3 DEF HealthInv, GoodStream, TypeOK
      <4>2. newest.at = steady - 1 /\ newest.stamp = clock - 1
        <5>1. clock - newest.stamp = steady - newest.at
          BY <3>3 DEF HealthInv, GoodStream
        <5> QED BY <2>a, <3>3, <4>1, <5>1
      <4>3. ASSUME NEW j \in 0 .. n, j <= steady - goodFrom PROVE s[n + 1 - j] = clock - j
        <5>1. CASE j = 0
          BY <2>a, <2>1, <5>1
        <5>2. CASE j # 0
          <6>1. /\ j - 1 \in 0 .. n - 1 /\ j - 1 <= newest.at - goodFrom
                /\ n + 1 - j \in 1 .. n /\ n + 1 - j = n - (j - 1)
            BY <2>a, <4>1, <4>2, <4>3, <5>2
          <6>2. arrivals[n - (j - 1)] = newest.stamp - (j - 1)
            BY <3>3, <6>1 DEF HealthInv, GoodStream, n
          <6>3. newest.stamp - (j - 1) = clock - j
            BY <2>a, <4>2
          <6> QED BY <2>1, <6>1, <6>2, <6>3
        <5> QED BY <5>1, <5>2
      <4>4. \A j \in 0 .. Len(arrivals') - 1 :
              j <= steady - goodFrom => arrivals'[Len(arrivals') - j] = clock - j
        <5> SUFFICES ASSUME NEW j \in 0 .. n + 1 - k, j <= steady - goodFrom
                     PROVE  arrivals'[n + 2 - k - j] = clock - j
          BY <2>a
        <5>1. /\ n + 2 - k - j \in 1 .. n + 2 - k /\ j \in 0 .. n
              /\ k + (n + 2 - k - j) - 1 = n + 1 - j
          BY <2>a
        <5>2. arrivals'[n + 2 - k - j] = s[n + 1 - j]
          BY <2>1, <5>1
        <5> QED BY <4>3, <5>1, <5>2
      <4>5. Len(arrivals') > Window \/ Len(arrivals') > steady - goodFrom
        <5> DEFINE m == IF steady - goodFrom <= Window THEN steady - goodFrom ELSE Window
        <5>1. m \in Nat /\ m <= Window /\ m <= steady - goodFrom
              /\ (m = Window \/ m = steady - goodFrom)
          BY <2>a, <4>1
        <5> HIDE DEF m
        <5>2. m <= n
          <6>1. n > Window \/ n > newest.at - goodFrom
            BY <3>3 DEF HealthInv, GoodStream, n
          <6> QED BY <2>a, <4>1, <4>2, <5>1, <6>1
        <5>3. s[n + 1 - m] = clock - m
          <6>1. m \in 0 .. n
            BY <2>a, <5>1, <5>2
          <6> QED BY <4>3, <5>1, <6>1
        <5>4. ~(n + 1 - m \in 1 .. k - 1)
          <6>1. clock - (clock - m) = m
            BY <2>a, <5>1
          <6> QED BY <2>a, <2>1, <5>1, <5>3, <6>1
        <5>5. k <= n + 1 - m
          BY <2>a, <5>1, <5>2, <5>4
        <5> QED BY <2>a, <4>1, <5>1, <5>5
      <4>6. clock - clock = steady - steady /\ goodFrom <= steady
        BY <2>a, <4>1
      <4> QED BY <2>2, <2>3, <3>3, <4>1, <4>4, <4>5, <4>6 DEF GoodStream
    <3> QED BY <2>a, <2>2, <3>1, <3>2, <3>3 DEF Bad
  <2> QED BY <2>4, <2>6, <2>10, <2>11 DEF HealthInv
<1>2. CASE Tick \/ Diagnose
  <2>1. UNCHANGED <<gpsRequired, lastFix, arrivals, steady, clock, steps, newest, recent, goodFrom>>
    BY <1>2 DEF Tick, Diagnose, clockVars, seenVars
  <2>2. tickAt' \in steady .. steady + 1 /\ diagAt' \in steady .. steady + 1
    BY <1>2 DEF Tick, Diagnose, TypeOK, TickPeriod, DiagPeriod
  <2> QED BY <2>1, <2>2 DEF TypeOK, Recorded, Stamped, GoodStream, Forward
<1>3. CASE Pass
  <2>1. /\ UNCHANGED <<gpsRequired, lastFix, arrivals, tickAt, diagAt, steps, newest, recent, goodFrom>>
        /\ steady' = steady + 1 /\ clock' = clock + 1 /\ steady < tickAt /\ steady < diagAt
    BY <1>3 DEF Pass, monitorVars, seenVars
  <2>2. TypeOK'
    BY <1>0, <2>1 DEF TypeOK
  <2>3. newest # None => newest.at \in Nat /\ newest.stamp \in Int
    BY DEF TypeOK
  <2>4. Recorded'
    BY <1>0, <2>1, <2>3 DEF Recorded
  <2>5. Stamped'
    BY <1>0, <2>1, <2>3 DEF Stamped, Forward
  <2>6. GoodStream'
    BY <1>0, <2>1, <2>3 DEF GoodStream
  <2> QED BY <2>2, <2>4, <2>5, <2>6
<1>4. ASSUME NEW by \in Steps, StepClock(by) PROVE HealthInv'
  <2>1. /\ UNCHANGED <<gpsRequired, lastFix, arrivals, tickAt, diagAt, steady, newest, recent>>
        /\ clock' = clock + by /\ steps' = steps + 1 /\ goodFrom' = Bad /\ by \in Int
    BY <1>4, ParametersAssumption DEF StepClock, monitorVars
  <2>2. steps \in Nat /\ steps' # 0
    BY <2>1 DEF TypeOK
  <2>3. TypeOK'
    BY <1>0, <2>1, <2>2 DEF TypeOK
  <2>4. newest # None => newest.at \in Nat /\ newest.stamp \in Int
    BY DEF TypeOK
  <2>5. Forward' => Forward /\ by \in Nat
    BY <2>2 DEF Forward
  <2>6. Stamped'
    BY <1>0, <2>1, <2>2, <2>4, <2>5 DEF Stamped
  <2> QED BY <2>1, <2>3, <2>6 DEF Recorded, GoodStream
<1>5. CASE UNCHANGED vars
  BY <1>5 DEF vars, monitorVars, clockVars, seenVars, TypeOK, Recorded, Stamped, GoodStream, Forward
<1> QED BY <1>1, <1>2, <1>3, <1>4, <1>5 DEF Next

LEMMA HealthInvariant == Spec => []HealthInv
<1>1. Init => HealthInv
  <2> SUFFICES ASSUME Init PROVE HealthInv
    OBVIOUS
  <2>1. arrivals = <<>> /\ Len(arrivals) = 0 /\ arrivals \in Seq(Int)
    BY EmptySeq DEF Init
  <2>2. TypeOK
    BY <2>1, ParametersAssumption DEF Init, TypeOK, TickPeriod, DiagPeriod
  <2>3. Elements(arrivals) = {}
    BY <2>1 DEF Elements
  <2> QED BY <2>1, <2>2, <2>3 DEF Init, HealthInv, Recorded, Stamped, Increasing, GoodStream
<1> QED BY <1>1, HealthInvStep, PTL DEF Spec
-----------------------------------------------------------------------------
(* The level that a tick would publish is that of the table.                 *)
THEOREM EvaluatesTable == Spec => []EvaluateMeetsTable
<1>1. HealthInv => EvaluateMeetsTable
  <2> SUFFICES ASSUME HealthInv, steps = 0 PROVE Evaluate(clock) = Table
    BY DEF EvaluateMeetsTable
  <2> USE DEF HealthInv
  <2>1. CASE newest = None
    BY <2>1 DEF Recorded, Evaluate, Table
  <2>2. CASE newest # None
    <3>1. /\ newest.stamp = newest.at /\ newest.at \in Nat /\ newest.quality \in FixQualities
          /\ clock = steady /\ steady \in Nat /\ newest.at <= steady /\ FixTimeout \in Nat
      BY <2>2, ParametersAssumption DEF TypeOK, Stamped, Recorded
    <3>2. lastFix = [stamp |-> newest.stamp, quality |-> newest.quality] /\ lastFix # NoFix
      BY <2>2, <3>1 DEF Recorded, NoFix, FixQualities
    <3>3. Larger(0, clock - lastFix.stamp) = Quiet
      BY <3>1, <3>2 DEF Larger, Quiet
    <3>4. Len(arrivals) >= 2 /\ RateTooLow(arrivals, clock) <=> LowRate
      <4>1. arrivals \in Seq(Int) /\ Increasing(arrivals) /\ recent = Elements(arrivals)
        BY DEF TypeOK, Stamped, Forward
      <4>2. /\ Cardinality(recent) = Len(arrivals) /\ Len(arrivals) \in Nat
            /\ Len(arrivals) > 0 => First(recent) = arrivals[1]
        BY <4>1, InOrder, LenProperties
      <4> DEFINE few == (Len(arrivals) - 1) * SlowPeriod < steady - arrivals[1]
      <4>3. ASSUME Len(arrivals) >= 2 PROVE RateTooLow(arrivals, clock) <=> few
        <5>1. 1 \in 1 .. Len(arrivals) /\ Len(arrivals) \in 1 .. Len(arrivals) /\ 1 < Len(arrivals)
          BY <4>2, <4>3
        <5>2. arrivals[1] < arrivals[Len(arrivals)] /\ arrivals[1] \in Int
          BY <4>1, <5>1, ElementOfSeq DEF Increasing
        <5>3. arrivals[Len(arrivals)] = newest.stamp
          BY <2>2 DEF Recorded
        <5>4. Larger(clock, arrivals[Len(arrivals)]) = steady
          BY <3>1, <5>3 DEF Larger
        <5>5. ~(steady - arrivals[1] <= 0)
          BY <3>1, <5>2, <5>3
        <5> QED BY <5>4, <5>5 DEF RateTooLow
      <4>4. LowRate <=> Len(arrivals) >= 2 /\ few
        BY <4>2 DEF LowRate
      <4> QED BY <4>3, <4>4
    <3> HIDE DEF HealthInv
    <3> QED BY <2>2, <3>1, <3>2, <3>3, <3>4 DEF Evaluate, Table, Fault, Alarm, FixQualities
  <2> QED BY <2>1, <2>2
<1> QED BY <1>1, HealthInvariant, PTL

(* A lost stream is known to each timer by its next round.                   *)
LEMMA LossKnownStep ==
  ASSUME Steps \subseteq Nat
  PROVE  HealthInv /\ HealthInv' /\ LossKnown /\ [Next]_vars => LossKnown'
<1> SUFFICES ASSUME HealthInv, HealthInv', LossKnown, [Next]_vars PROVE LossKnown'
  OBVIOUS
<1> USE DEF TickPeriod, DiagPeriod, Alarm
<1>0. /\ steady \in Nat /\ tickAt \in steady .. steady + 1 /\ diagAt \in steady .. steady + 1
      /\ newest # None => newest.at \in Nat /\ newest.stamp \in Int
      /\ clock \in Int /\ FixTimeout \in Nat \ {0}
  BY ParametersAssumption DEF HealthInv, TypeOK
<1>1. ASSUME NEW q \in Qualities, FixArrives(q) PROVE LossKnown'
  <2>1. newest'.at = steady /\ tickAt' = tickAt /\ diagAt' = diagAt
    BY <1>1 DEF FixArrives, Observe
  <2> QED BY <1>0, <2>1 DEF LossKnown
<1>2. CASE Tick
  <2>1. /\ tickAt <= steady /\ tickAt' = tickAt + 1 /\ report' = Evaluate(clock)
        /\ UNCHANGED <<gpsRequired, shown, diagAt, newest>>
    BY <1>2 DEF Tick, seenVars
  <2>2. ASSUME newest # None, tickAt > newest.at + FixTimeout PROVE report' = Alarm
    <3>1. clock - newest.stamp >= steady - newest.at
      BY <2>2 DEF HealthInv, Stamped, Forward
    <3>2. lastFix = [stamp |-> newest.stamp, quality |-> newest.quality] /\ lastFix # NoFix
      BY <2>2 DEF HealthInv, TypeOK, Recorded, NoFix, FixQualities
    <3>3. Larger(0, clock - lastFix.stamp) > FixTimeout
      BY <1>0, <2>1, <2>2, <3>1, <3>2 DEF Larger
    <3> QED BY <2>1, <3>2, <3>3 DEF Evaluate, Fault
  <2>3. (tickAt + 1) - 1 = tickAt
    BY <1>0
  <2> QED BY <2>1, <2>2, <2>3 DEF LossKnown
<1>3. CASE Diagnose
  <2>1. /\ diagAt <= steady /\ diagAt' = diagAt + 1 /\ shown' = report
        /\ UNCHANGED <<gpsRequired, report, tickAt, newest>>
    BY <1>3 DEF Diagnose, seenVars
  <2> QED BY <1>0, <2>1 DEF LossKnown
<1>4. CASE Pass \/ (\E by \in Steps : StepClock(by)) \/ UNCHANGED vars
  <2>1. UNCHANGED <<gpsRequired, report, shown, tickAt, diagAt, newest>>
    BY <1>4 DEF Pass, StepClock, vars, monitorVars, seenVars
  <2> QED BY <2>1 DEF LossKnown
<1> QED BY <1>1, <1>2, <1>3, <1>4 DEF Next

(* /diagnostics shows a lost stream within a period of each timer, whatever  *)
(* its last fixes said and however often the ROS clock was stepped forward.  *)
THEOREM ShowsLoss ==
  ASSUME Steps \subseteq Nat
  PROVE  Spec => []LossShown
<1>1. Init => LossKnown
  BY DEF Init, LossKnown
<1>2. HealthInv /\ LossKnown => LossShown
  <2> SUFFICES ASSUME HealthInv, LossKnown, newest # None, Settled(newest.at + FixTimeout)
               PROVE  shown = Alarm
    BY DEF LossShown
  <2>1. /\ steady \in Nat /\ diagAt \in steady .. steady + 1
        /\ newest.at \in Nat /\ FixTimeout \in Nat
    BY ParametersAssumption DEF HealthInv, TypeOK
  <2>2. diagAt - 2 > newest.at + FixTimeout
    BY <2>1 DEF Settled, TickPeriod, DiagPeriod
  <2> QED BY <2>2 DEF LossKnown
<1> QED BY <1>1, <1>2, LossKnownStep, HealthInvariant, PTL DEF Spec

(* A good stream that has filled the window is evaluated as OK.              *)
LEMMA GoodIsOk ==
  ASSUME HealthInv, Steps \subseteq Nat, SlowPeriod > 1,
         goodFrom # Bad, Quiet <= 1, steady > goodFrom + Window
  PROVE  Evaluate(clock) = "ok"
<1> USE DEF HealthInv
<1>0. /\ Window \in Nat /\ Window > 0 /\ SlowPeriod \in Nat /\ Len(arrivals) \in Nat
      /\ steady \in Nat /\ clock \in Int /\ goodFrom \in Nat /\ FixTimeout \in Nat /\ FixTimeout > 0
  BY WindowAssumption, ParametersAssumption, LenProperties DEF TypeOK
<1>1. /\ newest # None /\ newest.quality = "fine" /\ newest.at \in Nat /\ newest.stamp \in Int
      /\ clock - newest.stamp = steady - newest.at /\ newest.at <= steady
  BY DEF GoodStream, TypeOK, Recorded
<1>2. lastFix = [stamp |-> newest.stamp, quality |-> "fine"] /\ lastFix # NoFix
  BY <1>1 DEF Recorded, NoFix
<1>3. ~(Larger(0, clock - lastFix.stamp) > FixTimeout)
  BY <1>0, <1>1, <1>2 DEF Larger, Quiet
<1>4. Len(arrivals) > Window
  <2>1. newest.at - goodFrom >= Window
    BY <1>0, <1>1 DEF Quiet
  <2>2. Len(arrivals) > Window \/ Len(arrivals) > newest.at - goodFrom
    BY DEF GoodStream
  <2> QED BY <1>0, <1>1, <2>1, <2>2
<1>5. ~RateTooLow(arrivals, clock)
  <2>1. 1 \in 1 .. Len(arrivals) /\ Len(arrivals) \in 1 .. Len(arrivals) /\ 1 < Len(arrivals)
    BY <1>0, <1>4
  <2>2. arrivals[1] < newest.stamp /\ arrivals[1] \in Int /\ newest.stamp - arrivals[1] <= Window
        /\ arrivals[Len(arrivals)] = newest.stamp
    <3>1. Increasing(arrivals) /\ arrivals \in Seq(Int)
      BY DEF Stamped, Forward, TypeOK
    <3>2. arrivals[1] < arrivals[Len(arrivals)] /\ arrivals[1] \in Int
      BY <2>1, <3>1, ElementOfSeq DEF Increasing
    <3> QED BY <1>1, <2>1, <3>2 DEF Recorded
  <2>3. Larger(clock, newest.stamp) = clock
    BY <1>0, <1>1 DEF Larger
  <2>4. ~(clock - arrivals[1] <= 0) /\ clock - arrivals[1] <= Window + 1
    BY <1>0, <1>1, <2>2 DEF Quiet
  <2>5. (Len(arrivals) - 1) * SlowPeriod >= Window + 1
    <3>1. \A a, b \in Nat : a >= Window /\ b > 1 => a * b >= Window + 1
      <4> SUFFICES ASSUME NEW a \in Nat, NEW b \in Nat, a >= Window, b > 1 PROVE a * b >= Window + 1
        OBVIOUS
      <4>1. a * b = a * 2 + a * (b - 2) /\ a * (b - 2) >= 0
        OBVIOUS
      <4> QED BY <1>0, <4>1
    <3>2. Len(arrivals) - 1 \in Nat /\ Len(arrivals) - 1 >= Window
      BY <1>0, <1>4
    <3> QED BY <1>0, <3>1, <3>2
  <2>6. (Len(arrivals) - 1) * SlowPeriod \in Int
    BY <1>0
  <2>7. ~((Len(arrivals) - 1) * SlowPeriod < clock - arrivals[1])
    BY <1>0, <2>2, <2>4, <2>5, <2>6
  <2> QED BY <2>2, <2>3, <2>4, <2>7 DEF RateTooLow
<1> HIDE DEF HealthInv
<1> QED BY <1>2, <1>3, <1>5 DEF Evaluate

LEMMA RecoveryKnownStep ==
  ASSUME Steps \subseteq Nat, SlowPeriod > 1
  PROVE  HealthInv /\ HealthInv' /\ RecoveryKnown /\ [Next]_vars => RecoveryKnown'
<1> SUFFICES ASSUME HealthInv, HealthInv', RecoveryKnown, [Next]_vars PROVE RecoveryKnown'
  OBVIOUS
<1> USE DEF TickPeriod, DiagPeriod, Quiet
<1>0. /\ steady \in Nat /\ tickAt \in steady .. steady + 1 /\ diagAt \in steady .. steady + 1
      /\ newest.at \in Nat /\ goodFrom \in Nat \cup {Bad} /\ Window \in Nat
  BY WindowAssumption DEF HealthInv, TypeOK, None
<1>1. ASSUME NEW q \in Qualities, FixArrives(q) PROVE RecoveryKnown'
  <2>1. /\ newest'.at = steady /\ UNCHANGED <<steady, tickAt, diagAt, report, shown>>
        /\ goodFrom' = IF q # "fine" THEN Bad
                       ELSE IF goodFrom # Bad /\ steady - newest.at <= 1 THEN goodFrom ELSE steady
    BY <1>1 DEF FixArrives, Observe, clockVars
  <2>2. CASE goodFrom' = Bad
    BY <2>2 DEF RecoveryKnown
  <2>3. CASE goodFrom' = steady
    BY <1>0, <2>1, <2>3 DEF RecoveryKnown
  <2>4. CASE goodFrom # Bad /\ steady - newest.at <= 1 /\ goodFrom' = goodFrom
    BY <2>1, <2>4 DEF RecoveryKnown
  <2> QED BY <2>1, <2>2, <2>3, <2>4
<1>2. CASE Tick
  <2>1. /\ tickAt <= steady /\ tickAt' = tickAt + 1 /\ report' = Evaluate(clock)
        /\ UNCHANGED <<shown, diagAt, newest, goodFrom, steady>>
    BY <1>2 DEF Tick, seenVars, clockVars
  <2>2. ASSUME goodFrom # Bad, Quiet <= 1, tickAt > goodFrom + Window PROVE report' = "ok"
    <3>1. steady > goodFrom + Window
      BY <1>0, <2>1, <2>2
    <3> QED BY <2>1, <2>2, <3>1, GoodIsOk
  <2>3. (tickAt + 1) - 1 = tickAt
    BY <1>0
  <2> QED BY <2>1, <2>2, <2>3 DEF RecoveryKnown
<1>3. CASE Diagnose
  <2>1. /\ diagAt <= steady /\ diagAt' = diagAt + 1 /\ shown' = report
        /\ UNCHANGED <<report, tickAt, newest, goodFrom, steady>>
    BY <1>3 DEF Diagnose, seenVars, clockVars
  <2>2. goodFrom # Bad /\ diagAt' - 2 > goodFrom + Window => tickAt - 1 > goodFrom + Window
    BY <1>0, <2>1
  <2> QED BY <2>1, <2>2 DEF RecoveryKnown
<1>4. CASE Pass
  <2>1. /\ steady' = steady + 1
        /\ UNCHANGED <<report, shown, tickAt, diagAt, newest, goodFrom>>
    BY <1>4 DEF Pass, monitorVars, seenVars
  <2> QED BY <1>0, <2>1 DEF RecoveryKnown
<1>5. CASE \E by \in Steps : StepClock(by)
  <2>1. goodFrom' = Bad
    BY <1>5 DEF StepClock
  <2> QED BY <2>1 DEF RecoveryKnown
<1>6. CASE UNCHANGED vars
  BY <1>6 DEF vars, monitorVars, clockVars, seenVars, RecoveryKnown
<1> QED BY <1>1, <1>2, <1>3, <1>4, <1>5, <1>6 DEF Next

(* A stream of a fix per unit, with at most every second of them required,   *)
(* is shown as OK once it has filled the window and each timer has fired,    *)
(* whatever outage, quality or forward step of the clock came before it.     *)
THEOREM ShowsRecovery ==
  ASSUME Steps \subseteq Nat, SlowPeriod > 1
  PROVE  Spec => []RecoveryShown
<1>1. Init => RecoveryKnown
  BY DEF Init, RecoveryKnown
<1>2. HealthInv /\ RecoveryKnown => RecoveryShown
  <2> SUFFICES ASSUME HealthInv, RecoveryKnown, goodFrom # Bad, Quiet <= 1, Settled(goodFrom + Window)
               PROVE  shown = "ok"
    BY DEF RecoveryShown
  <2>1. /\ steady \in Nat /\ diagAt \in steady .. steady + 1 /\ goodFrom \in Nat /\ Window \in Nat
    BY WindowAssumption DEF HealthInv, TypeOK
  <2>2. diagAt - 2 > goodFrom + Window
    BY <2>1 DEF Settled, TickPeriod, DiagPeriod
  <2> QED BY <2>2 DEF RecoveryKnown
<1> QED BY <1>1, <1>2, RecoveryKnownStep, HealthInvariant, PTL DEF Spec
=============================================================================
