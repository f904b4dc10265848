-------------------------- MODULE Revolutions_proofs --------------------------
(***************************************************************************)
(* What Revolutions guarantees for every lidar, every setting and any      *)
(* number of packets, lost, late, cut short or in any order.               *)
(***************************************************************************)
EXTENDS Revolutions, SequenceTheorems, WellFoundedInduction, TLAPS

BlockSet ==
  {b \in [pos : Nat, angle : 0 .. Turn - 1, ts : Int, calibrated : BOOLEAN] : b.angle = b.pos % Turn}
PointSet == [fired : Nat, laser : 1 .. Lasers, valid : BOOLEAN]
CloudSet == [seq : Nat, timestamp : Int, dense : BOOLEAN, points : Seq(PointSet),
             height : Nat \ {0}, width : Nat, blocks : Seq(BlockSet), next : BlockSet,
             cleared : BOOLEAN]

TypeOK ==
  /\ setup \in Setups /\ sent \in Nat /\ flight \in SUBSET (0 .. sent - 1) /\ ready \in BOOLEAN
  /\ todo \in Seq(BlockSet) /\ prev \in 0 .. Turn - 1 /\ firstTs \in Int /\ lastTs \in Int
  /\ points \in Seq(PointSet) /\ seq \in Nat /\ blocks \in Seq(BlockSet) /\ cleared \in BOOLEAN
  /\ filled \in Seq(CloudSet)

-----------------------------------------------------------------------------
(* Every block is decoded once: where the i-th of packet p is, and where     *)
(* those are of the packets that have come and gone.                         *)
At(s, p, i)     == s.first + 2 * (BlocksPerPkt * p + i - 1)
Taken(s, n, fl) == {At(s, p, i) : p \in (0 .. n - 1) \ fl, i \in 1 .. BlocksPerPkt}

PlacesOK ==
  /\ \A i \in 1 .. Len(todo) :
       todo[i].pos \in Taken(setup, sent, flight) /\ todo[i].calibrated = ready
  /\ \A i \in 1 .. Len(blocks) : blocks[i].pos \in Taken(setup, sent, flight)
  /\ \A i, j \in 1 .. Len(todo) : todo[i].pos = todo[j].pos => i = j
  /\ \A i \in 1 .. Len(blocks), j \in 1 .. Len(todo) : blocks[i].pos # todo[j].pos

(* The split strategy and the stamps are about the blocks since the split.   *)
Latest(bs) == bs[Len(bs)]
StampsOK ==
  /\ blocks = <<>> => points = <<>> /\ firstTs = 0 /\ seq = 0
  /\ blocks # <<>> => /\ prev = Latest(blocks).angle /\ lastTs = Latest(blocks).ts + 1
                      /\ firstTs = blocks[1].ts \/ (firstTs = 0 /\ seq = 0)

-----------------------------------------------------------------------------
(* Between two splits the azimuth never falls; so a step forward of less     *)
(* than a turn stays in its turn, and a step back goes to the turn before.   *)
Rising(bs) == \A i, j \in 1 .. Len(bs) : i <= j => bs[i].angle <= bs[j].angle
Near(bs)   == \A i \in 1 .. Len(bs) - 1 : bs[i + 1].pos - bs[i].pos \in 1 - Turn .. Turn - 1

SameTurn(a, b) == TurnOf(a) = TurnOf(b)
TurnBack(a, b) == TurnOf(b) = TurnOf(a) - 1 /\ a.angle < b.angle
Sweeping(bs) ==
  Near(bs) =>
    \A i, j \in 1 .. Len(bs) : i <= j =>
      /\ Backs(bs) = {} => SameTurn(bs[i], bs[j])
      /\ (\A k, l \in Backs(bs) : k = l) => SameTurn(bs[i], bs[j]) \/ TurnBack(bs[i], bs[j])

-----------------------------------------------------------------------------
(* What a channel of a block returns under given settings.                   *)
Within(s, angle) ==
  LET start == Round(s.start)  end == Round(s.end)
  IN  \/ Round(s.end - s.start) = 0
      \/ start > end /\ (angle >= start \/ angle < end)
      \/ start <= end /\ angle >= start /\ angle < end

Firing(chan)  == IF chan > Lasers THEN 1 ELSE 0
LaserOf(chan) == chan - Firing(chan) * Lasers
Return(s, b, chan) ==
  [fired |-> b.pos + Firing(chan), laser |-> LaserOf(chan),
   valid |-> /\ World[(b.pos + Firing(chan)) % Turn][LaserOf(chan)] \in s.near .. s.far
             /\ Within(s, b.angle + Firing(chan) + (IF b.calibrated THEN Calibration[LaserOf(chan)] ELSE 0))]
Keeps(s, b, chan) == ~s.dense \/ Return(s, b, chan).valid
Alike(p, q)       == p.fired = q.fired /\ p.laser = q.laser

(* The points of a cloud are returns of its blocks, each once, and all of    *)
(* them unless the cloud was cleared; with the invalid ones in, they stand   *)
(* in rows of all lasers.                                                    *)
FromBlocks(s, ps, bs) ==
  \A i \in 1 .. Len(ps) : \E k \in 1 .. Len(bs), chan \in 1 .. Channels :
    ps[i] = Return(s, bs[k], chan) /\ Keeps(s, bs[k], chan)
EachOnce(ps) == \A i, j \in 1 .. Len(ps) : Alike(ps[i], ps[j]) => i = j
AllOf(s, ps, bs) ==
  \A k \in 1 .. Len(bs), chan \in 1 .. Channels :
    Keeps(s, bs[k], chan) => \E i \in 1 .. Len(ps) : ps[i] = Return(s, bs[k], chan)
InRows(ps) ==
  /\ \E m \in 0 .. Len(ps) : Len(ps) = Lasers * m
  /\ \A i \in 1 .. Len(ps) :
       ps[i].laser = ((i - 1) % Lasers) + 1 /\ ps[i].fired = ps[i - (ps[i].laser - 1)].fired

Drawn(s, ps, bs, clr) ==
  /\ FromBlocks(s, ps, bs) /\ EachOnce(ps)
  /\ clr \/ AllOf(s, ps, bs)
  /\ s.dense \/ InRows(ps)

(* A finished cloud.                                                         *)
CloudOK(s, c) ==
  /\ c.blocks # <<>> /\ c.next.angle < Latest(c.blocks).angle
  /\ Rising(c.blocks) /\ Sweeping(c.blocks) /\ Drawn(s, c.points, c.blocks, c.cleared)
  /\ c.dense = s.dense /\ c.height = (IF s.dense THEN 1 ELSE Lasers)
  /\ c.width = Len(c.points) \div c.height
  /\ IF s.tsFirst THEN c.timestamp = c.blocks[1].ts \/ (c.timestamp = 0 /\ c.seq = 0)
                  ELSE c.timestamp = Latest(c.blocks).ts + 1

RevolutionsInv ==
  /\ TypeOK /\ PlacesOK /\ StampsOK
  /\ Rising(blocks) /\ Sweeping(blocks) /\ Drawn(setup, points, blocks, cleared)
  /\ \A i \in 1 .. Len(filled) : CloudOK(setup, filled[i])

-----------------------------------------------------------------------------
(* Division with a remainder, and that there is one way only.                *)
LEMMA Dividing ==
  ASSUME NEW a \in Int, NEW b \in Int, b > 0
  PROVE  /\ a \div b \in Int /\ a % b \in 0 .. b - 1
         /\ b * (a \div b) \in Int /\ a = b * (a \div b) + (a % b)
<1>1. a \div b \in Int /\ b * (a \div b) <= a /\ a < b * (a \div b) + b
  OBVIOUS
<1>2. a % b = a - b * (a \div b)
  OBVIOUS
<1> QED BY <1>1, <1>2

LEMMA Multiples ==
  ASSUME NEW a \in Int, NEW b \in Int, NEW d \in Nat, a < b
  PROVE  d * a \in Int /\ d * b \in Int /\ d * a + d <= d * b
<1>1. d * b = d * a + d + d * (b - a - 1) /\ d * (b - a - 1) >= 0
  OBVIOUS
<1> QED BY <1>1

LEMMA OneWay ==
  ASSUME NEW d \in Nat, NEW q \in Int, NEW r \in 0 .. d - 1,
         NEW x \in Int, NEW y \in 0 .. d - 1, d * q + r = d * x + y
  PROVE  q = x /\ r = y
<1>1. ~(q < x)
  <2> SUFFICES ASSUME q < x PROVE FALSE
    OBVIOUS
  <2>1. d * q \in Int /\ d * x \in Int /\ d * q + d <= d * x
    BY Multiples
  <2> QED BY <2>1
<1>2. ~(x < q)
  <2> SUFFICES ASSUME x < q PROVE FALSE
    OBVIOUS
  <2>1. d * q \in Int /\ d * x \in Int /\ d * x + d <= d * q
    BY Multiples
  <2> QED BY <2>1
<1>3. q = x
  BY <1>1, <1>2
<1> QED BY <1>3

LEMMA Remainder ==
  ASSUME NEW d \in Nat, NEW q \in Int, NEW r \in 0 .. d - 1
  PROVE  (d * q + r) % d = r /\ (d * q + r) \div d = q
<1>1. d > 0 /\ d * q + r \in Int
  OBVIOUS
<1>2. /\ (d * q + r) \div d \in Int /\ (d * q + r) % d \in 0 .. d - 1
      /\ d * q + r = d * ((d * q + r) \div d) + ((d * q + r) % d)
  BY <1>1, Dividing
<1> QED BY <1>2, OneWay

(* A second and what is left of it make the instant again.                   *)
LEMMA Stamping ==
  ASSUME NEW ts \in Int
  PROVE  Stamp(ts).sec * Second + Stamp(ts).frac = ts
<1>1. Second \in Int /\ Second > 0
  BY RevolutionAssumption
<1>2. /\ ts \div Second \in Int /\ ts % Second \in Int
      /\ ts = Second * (ts \div Second) + (ts % Second)
  BY <1>1, Dividing
<1>3. (ts \div Second) * Second = Second * (ts \div Second)
  BY <1>1, <1>2
<1> QED BY <1>1, <1>2, <1>3 DEF Stamp

-----------------------------------------------------------------------------
(* A block is where its turn and its azimuth say.                            *)
LEMMA Placing ==
  ASSUME NEW b \in BlockSet
  PROVE  /\ TurnOf(b) \in Int /\ b.pos = Turn * TurnOf(b) + b.angle /\ Turn * TurnOf(b) \in Int
         /\ b.angle \in 0 .. Turn - 1 /\ b.pos \in Nat /\ Turn \in Nat /\ Turn > 0
<1>1. Turn \in Nat /\ Turn > 0
  BY RevolutionAssumption
<1>2. b.angle \in 0 .. Turn - 1 /\ b.pos \in Nat /\ b.angle = b.pos % Turn
  BY DEF BlockSet
<1>3. /\ b.pos \div Turn \in Int /\ Turn * (b.pos \div Turn) \in Int
      /\ b.pos = Turn * (b.pos \div Turn) + (b.pos % Turn)
  BY <1>1, <1>2, Dividing
<1> QED BY <1>1, <1>2, <1>3 DEF TurnOf

(* The next block of a sweep: forward it is in the same turn, back in the    *)
(* turn before and at a larger azimuth.                                      *)
LEMMA NextBlock ==
  ASSUME NEW a \in BlockSet, NEW b \in BlockSet, a.angle <= b.angle,
         b.pos - a.pos \in 1 - Turn .. Turn - 1
  PROVE  /\ b.pos >= a.pos => SameTurn(a, b)
         /\ b.pos < a.pos => TurnBack(a, b)
<1> DEFINE p == TurnOf(a)  q == TurnOf(b)
<1>1. /\ p \in Int /\ a.pos = Turn * p + a.angle /\ Turn * p \in Int
      /\ a.angle \in 0 .. Turn - 1 /\ a.pos \in Nat /\ Turn \in Nat /\ Turn > 0
  BY Placing
<1>2. /\ q \in Int /\ b.pos = Turn * q + b.angle /\ Turn * q \in Int
      /\ b.angle \in 0 .. Turn - 1 /\ b.pos \in Nat
  BY Placing
<1>3. SameTurn(a, b) <=> p = q
  BY DEF SameTurn
<1>4. TurnBack(a, b) <=> q = p - 1 /\ a.angle < b.angle
  BY DEF TurnBack
<1>5. a.angle \in Int /\ b.angle \in Int /\ a.pos \in Int /\ b.pos \in Int
  BY <1>1, <1>2
<1>6. b.pos - a.pos <= Turn - 1 /\ 1 - Turn <= b.pos - a.pos
  BY <1>1, <1>5
<1> HIDE DEF p, q
<1>7. ~(p < q)
  <2> SUFFICES ASSUME p < q PROVE FALSE
    OBVIOUS
  <2>1. Turn * p + Turn <= Turn * q
    BY <1>1, <1>2, Multiples
  <2> QED BY <1>1, <1>2, <1>5, <1>6, <2>1
<1>8. ~(q < p - 1)
  <2> SUFFICES ASSUME q < p - 1 PROVE FALSE
    OBVIOUS
  <2>1. Turn * q + Turn <= Turn * (p - 1) /\ Turn * (p - 1) + Turn <= Turn * p /\ Turn * (p - 1) \in Int
    BY <1>1, <1>2, Multiples
  <2> QED BY <1>1, <1>2, <1>5, <1>6, <2>1
<1>9. CASE p = q
  BY <1>1, <1>2, <1>3, <1>5, <1>9
<1>10. CASE q = p - 1
  <2>1. Turn * q = Turn * p - Turn
    BY <1>1, <1>2, <1>10
  <2>2. b.pos < a.pos /\ a.angle < b.angle
    BY <1>1, <1>2, <1>5, <1>6, <2>1
  <2> QED BY <1>4, <1>5, <1>10, <2>2
<1> QED BY <1>1, <1>2, <1>7, <1>8, <1>9, <1>10

(* A block that does not begin a revolution goes on with the sweep.          *)
LEMMA SweepOn ==
  ASSUME NEW bs \in Seq(BlockSet), NEW b \in BlockSet, Rising(bs), Sweeping(bs),
         bs # <<>> => Latest(bs).angle <= b.angle
  PROVE  Rising(Append(bs, b)) /\ Sweeping(Append(bs, b))
<1> DEFINE n == Len(bs)  more == Append(bs, b)
<1>1. /\ n \in Nat /\ more \in Seq(BlockSet) /\ Len(more) = n + 1
      /\ more[n + 1] = b /\ \A i \in 1 .. n : more[i] = bs[i]
  BY LenProperties, AppendProperties
<1>2. \A i \in 1 .. n + 1 : more[i] \in BlockSet
  BY <1>1, ElementOfSeq
<1>3. \A i \in 1 .. n + 1 : more[i].angle \in Int
  BY <1>2 DEF BlockSet
<1>4. n >= 1 => bs # <<>> /\ bs[n].angle <= b.angle
  BY EmptySeq DEF Latest
<1> HIDE DEF n, more
<1>5. Rising(more)
  <2> SUFFICES ASSUME NEW i \in 1 .. n + 1, NEW j \in 1 .. n + 1, i <= j
               PROVE  more[i].angle <= more[j].angle
    BY <1>1 DEF Rising
  <2>1. CASE j <= n
    <3>1. i \in 1 .. n /\ j \in 1 .. n
      BY <1>1, <2>1
    <3> QED BY <1>1, <3>1 DEF Rising, n
  <2>2. CASE i = n + 1
    BY <1>1, <1>3, <2>2
  <2>3. CASE i <= n /\ j = n + 1
    <3>1. i \in 1 .. n /\ n \in 1 .. n /\ n >= 1
      BY <1>1, <2>3
    <3>2. bs[i].angle <= bs[n].angle
      BY <3>1 DEF Rising, n
    <3>3. more[i] = bs[i] /\ more[n] = bs[n] /\ more[j] = b
      BY <1>1, <2>3, <3>1
    <3>4. more[i].angle \in Int /\ more[n].angle \in Int /\ more[j].angle \in Int
      BY <1>1, <1>3, <3>1
    <3> QED BY <1>4, <3>1, <3>2, <3>3, <3>4
  <2> QED BY <1>1, <2>1, <2>2, <2>3
<1>6. Sweeping(more)
  <2> DEFINE Single == \A k, l \in Backs(more) : k = l
  <2> SUFFICES ASSUME Near(more), NEW i \in 1 .. n + 1, NEW j \in 1 .. n + 1, i <= j
               PROVE  /\ Backs(more) = {} => SameTurn(more[i], more[j])
                      /\ Single => SameTurn(more[i], more[j]) \/ TurnBack(more[i], more[j])
    BY <1>1 DEF Sweeping
  <2>1. Near(bs)
    <3> SUFFICES ASSUME NEW k \in 1 .. n - 1
                 PROVE  bs[k + 1].pos - bs[k].pos \in 1 - Turn .. Turn - 1
      BY DEF Near, n
    <3>1. k \in 1 .. n /\ k + 1 \in 1 .. n /\ k \in 1 .. Len(more) - 1
      BY <1>1
    <3> QED BY <1>1, <3>1 DEF Near
  <2>2. Backs(bs) \subseteq Backs(more) /\ n \notin Backs(bs)
    <3>1. ASSUME NEW k \in Backs(bs) PROVE k \in Backs(more) /\ k # n
      <4>1. k \in 1 .. n - 1 /\ bs[k + 1].pos < bs[k].pos
        BY <3>1 DEF Backs, n
      <4>2. k \in 1 .. n /\ k + 1 \in 1 .. n /\ k \in 1 .. Len(more) - 1
        BY <1>1, <4>1
      <4> QED BY <1>1, <4>1, <4>2 DEF Backs
    <3> QED BY <3>1
  <2>3. CASE j <= n
    <3>1. i \in 1 .. n /\ j \in 1 .. n
      BY <1>1, <2>3
    <3>2. /\ Backs(bs) = {} => SameTurn(bs[i], bs[j])
          /\ (\A k, l \in Backs(bs) : k = l) => SameTurn(bs[i], bs[j]) \/ TurnBack(bs[i], bs[j])
      BY <2>1, <3>1, i <= j DEF Sweeping, n
    <3>3. more[i] = bs[i] /\ more[j] = bs[j]
      BY <1>1, <3>1
    <3> QED BY <2>2, <3>2, <3>3
  <2>4. CASE i = n + 1
    <3>1. i = j
      BY <1>1, <2>4
    <3> QED BY <3>1 DEF SameTurn
  <2>5. CASE i <= n /\ j = n + 1
    <3>1. i \in 1 .. n /\ n \in 1 .. n /\ n >= 1 /\ n \in 1 .. Len(more) - 1
      BY <1>1, <2>5
    <3>2. more[i] = bs[i] /\ more[n] = bs[n] /\ more[j] = b
      BY <1>1, <2>5, <3>1
    <3>3. bs[i] \in BlockSet /\ bs[n] \in BlockSet
      BY <3>1, ElementOfSeq DEF n
    <3>4. b.pos - bs[n].pos \in 1 - Turn .. Turn - 1
      BY <1>1, <3>1, <3>2 DEF Near
    <3>5. /\ b.pos >= bs[n].pos => SameTurn(bs[n], b)
          /\ b.pos < bs[n].pos => TurnBack(bs[n], b)
      BY <1>4, <3>1, <3>3, <3>4, NextBlock
    <3>6. bs[i].angle <= bs[n].angle /\ bs[n].angle <= b.angle
      BY <1>4, <3>1 DEF Rising, n
    <3>7. /\ bs[i].angle \in Int /\ bs[n].angle \in Int /\ b.angle \in Int
          /\ bs[n].pos \in Int /\ b.pos \in Int
          /\ TurnOf(bs[i]) \in Int /\ TurnOf(bs[n]) \in Int /\ TurnOf(b) \in Int
      <4>1. ASSUME NEW c \in BlockSet PROVE c.angle \in Int /\ c.pos \in Int /\ TurnOf(c) \in Int
        <5>1. c.angle \in Int /\ c.pos \in Int
          BY DEF BlockSet
        <5> QED BY <5>1, Placing
      <4> QED BY <3>3, <4>1
    <3>8. /\ Backs(bs) = {} => SameTurn(bs[i], bs[n])
          /\ (\A k, l \in Backs(bs) : k = l) => SameTurn(bs[i], bs[n]) \/ TurnBack(bs[i], bs[n])
      BY <2>1, <3>1, i <= n DEF Sweeping, n
    <3>9. CASE b.pos >= bs[n].pos
      <4>1. SameTurn(bs[n], b)
        BY <3>5, <3>9
      <4>2. SameTurn(bs[i], bs[n]) => SameTurn(bs[i], b)
        BY <4>1 DEF SameTurn
      <4>3. TurnBack(bs[i], bs[n]) => TurnBack(bs[i], b)
        BY <3>6, <3>7, <4>1 DEF SameTurn, TurnBack
      <4> QED BY <2>2, <3>2, <3>8, <4>2, <4>3
    <3>10. CASE b.pos < bs[n].pos
      <4>1. n \in Backs(more)
        BY <1>1, <3>1, <3>2, <3>10 DEF Backs
      <4>2. Single => Backs(bs) = {}
        BY <2>2, <4>1
      <4>3. TurnBack(bs[n], b)
        BY <3>5, <3>10
      <4>4. SameTurn(bs[i], bs[n]) => TurnBack(bs[i], b)
        BY <3>6, <3>7, <4>3 DEF SameTurn, TurnBack
      <4> QED BY <3>2, <3>8, <4>1, <4>2, <4>4
    <3> QED BY <3>7, <3>9, <3>10
  <2> QED BY <1>1, <2>3, <2>4, <2>5
<1> QED BY <1>5, <1>6 DEF more

(* A block that begins a revolution begins a sweep.                          *)
LEMMA SweepAnew ==
  ASSUME NEW b \in BlockSet
  PROVE  Rising(<<b>>) /\ Sweeping(<<b>>)
<1>1. <<>> \in Seq(BlockSet) /\ Len(<<>>) = 0 /\ <<b>> = Append(<<>>, b)
  BY EmptySeq
<1>2. Rising(<<>>) /\ Sweeping(<<>>)
  BY <1>1 DEF Rising, Sweeping
<1> QED BY <1>1, <1>2, SweepOn

(* What a sweep is, in the words of the property.                            *)
LEMMA SweepMeans ==
  ASSUME NEW bs \in Seq(BlockSet), Sweeping(bs)
  PROVE  /\ Gaps(bs) \subseteq 1 .. Turn - 1 =>
              \A a, b \in Members(bs) : TurnOf(a) = TurnOf(b)
         /\ Gaps(bs) \subseteq 1 - Turn .. Turn - 1 /\ (\A i, j \in Backs(bs) : i = j) =>
              \A a, b \in Members(bs) : a.pos - b.pos < Turn
<1> DEFINE n == Len(bs)
<1>1. n \in Nat /\ DOMAIN bs = 1 .. n /\ \A i \in 1 .. n : bs[i] \in BlockSet
  BY LenProperties, ElementOfSeq
<1>2. Turn \in Nat /\ Turn > 0
  BY RevolutionAssumption
<1>3. Gaps(bs) \subseteq 1 .. Turn - 1 => Gaps(bs) \subseteq 1 - Turn .. Turn - 1
  BY <1>2
<1>4. Gaps(bs) \subseteq 1 - Turn .. Turn - 1 => Near(bs)
  BY DEF Gaps, Near
<1>5. Gaps(bs) \subseteq 1 .. Turn - 1 => Backs(bs) = {}
  <2> SUFFICES ASSUME Gaps(bs) \subseteq 1 .. Turn - 1, NEW k \in Backs(bs) PROVE FALSE
    OBVIOUS
  <2>1. k \in 1 .. n - 1 /\ bs[k + 1].pos < bs[k].pos
    BY DEF Backs
  <2>2. bs[k + 1].pos - bs[k].pos \in 1 .. Turn - 1
    BY <2>1 DEF Gaps
  <2>3. k \in 1 .. n /\ k + 1 \in 1 .. n
    BY <1>1, <2>1
  <2>4. bs[k + 1].pos \in Int /\ bs[k].pos \in Int
    BY <1>1, <2>3, Placing
  <2> QED BY <1>2, <2>1, <2>2, <2>4
<1>6. ASSUME NEW a \in Members(bs), NEW b \in Members(bs)
      PROVE  \E i, j \in 1 .. n : a = bs[i] /\ b = bs[j]
  BY <1>1 DEF Members
<1> HIDE DEF n
<1>7. ASSUME Gaps(bs) \subseteq 1 .. Turn - 1, NEW i \in 1 .. n, NEW j \in 1 .. n
      PROVE  TurnOf(bs[i]) = TurnOf(bs[j])
  <2>1. Near(bs) /\ Backs(bs) = {}
    BY <1>3, <1>4, <1>5, <1>7
  <2>2. i <= j => SameTurn(bs[i], bs[j])
    BY <2>1 DEF Sweeping, n
  <2>3. j <= i => SameTurn(bs[j], bs[i])
    BY <2>1 DEF Sweeping, n
  <2> QED BY <1>1, <2>2, <2>3 DEF SameTurn
<1>8. ASSUME Gaps(bs) \subseteq 1 - Turn .. Turn - 1, \A k, l \in Backs(bs) : k = l,
             NEW i \in 1 .. n, NEW j \in 1 .. n
      PROVE  bs[i].pos - bs[j].pos < Turn
  <2>1. Near(bs)
    BY <1>4, <1>8
  <2>2. i <= j => SameTurn(bs[i], bs[j]) \/ TurnBack(bs[i], bs[j])
    BY <1>8, <2>1 DEF Sweeping, n
  <2>3. j <= i => SameTurn(bs[j], bs[i]) \/ TurnBack(bs[j], bs[i])
    BY <1>8, <2>1 DEF Sweeping, n
  <2> DEFINE a == bs[i]  b == bs[j]  p == TurnOf(a)  q == TurnOf(b)
  <2>4. /\ p \in Int /\ a.pos = Turn * p + a.angle /\ Turn * p \in Int
        /\ a.angle \in 0 .. Turn - 1
    BY <1>1, Placing
  <2>5. /\ q \in Int /\ b.pos = Turn * q + b.angle /\ Turn * q \in Int
        /\ b.angle \in 0 .. Turn - 1
    BY <1>1, Placing
  <2>6. p = q \/ (q = p - 1 /\ a.angle < b.angle) \/ p = q - 1
    BY <1>1, <2>2, <2>3 DEF SameTurn, TurnBack
  <2> HIDE DEF a, b, p, q
  <2>7. q = p - 1 => Turn * q = Turn * p - Turn
    BY <1>2, <2>4, <2>5
  <2>8. p = q - 1 => Turn * p = Turn * q - Turn
    BY <1>2, <2>4, <2>5
  <2> DEFINE x == Turn * p  y == Turn * q  s == a.angle  t == b.angle
  <2>9. /\ a.pos = x + s /\ b.pos = y + t
        /\ x \in Int /\ y \in Int /\ s \in 0 .. Turn - 1 /\ t \in 0 .. Turn - 1
    BY <2>4, <2>5
  <2>10. x = y \/ (y = x - Turn /\ s < t) \/ x = y - Turn
    BY <2>6, <2>7, <2>8
  <2> HIDE DEF x, y, s, t
  <2>11. (x + s) - (y + t) < Turn
    BY <1>2, <2>9, <2>10
  <2>12. a.pos - b.pos < Turn
    BY <2>9, <2>11
  <2> QED BY <2>12 DEF a, b
<1>9. ASSUME Gaps(bs) \subseteq 1 .. Turn - 1, NEW a \in Members(bs), NEW b \in Members(bs)
      PROVE  TurnOf(a) = TurnOf(b)
  BY <1>6, <1>7, <1>9
<1>10. ASSUME Gaps(bs) \subseteq 1 - Turn .. Turn - 1, \A k, l \in Backs(bs) : k = l,
              NEW a \in Members(bs), NEW b \in Members(bs)
       PROVE  a.pos - b.pos < Turn
  BY <1>6, <1>8, <1>10
<1> QED BY <1>9, <1>10

-----------------------------------------------------------------------------
(* What holds at the start of a loop and after every turn of it holds all    *)
(* the way.                                                                  *)
LEMMA AllTheWay ==
  ASSUME NEW n \in Nat, NEW S, 0 \in S, \A i \in 0 .. n - 1 : i \in S => i + 1 \in S
  PROVE  \A i \in 0 .. n : i \in S
<1> DEFINE R == {ss \in Nat \X Nat : ss[1] < ss[2]}  Bad == {i \in 0 .. n : i \notin S}
<1> SUFFICES ASSUME Bad # {} PROVE FALSE
  OBVIOUS
<1>1. IsWellFoundedOn(R, Nat) /\ Bad \in SUBSET Nat
  <2>1. IsWellFoundedOn(R, Nat)
    BY NatLessThanWellFounded, Zenon DEF OpToRel
  <2> QED BY <2>1
<1> HIDE DEF R
<1>2. PICK m \in Bad : \A i \in Bad : <<i, m>> \notin R
  BY <1>1, WFMin
<1>3. m \in 0 .. n /\ m # 0 /\ m \notin S
  OBVIOUS
<1>4. m - 1 \in 0 .. n - 1 /\ m - 1 \in Nat /\ m - 1 < m /\ (m - 1) + 1 = m
  BY <1>3
<1>5. <<m - 1, m>> \in R
  BY <1>3, <1>4 DEF R
<1>6. m - 1 \in S
  BY <1>2, <1>4, <1>5
<1> QED BY <1>3, <1>4, <1>6

(* The channels of a block are its two firings of every laser.               *)
LEMMA ChannelFacts ==
  ASSUME NEW chan \in 1 .. Channels
  PROVE  /\ Firing(chan) \in 0 .. 1 /\ LaserOf(chan) \in 1 .. Lasers /\ Lasers \in Nat \ {0}
         /\ chan = Firing(chan) * Lasers + LaserOf(chan)
BY RevolutionAssumption DEF Channels, Firing, LaserOf

LEMMA ReturnType ==
  ASSUME NEW s \in Setups, NEW b \in BlockSet, NEW chan \in 1 .. Channels
  PROVE  Return(s, b, chan) \in PointSet
<1>1. b.pos + Firing(chan) \in Nat /\ LaserOf(chan) \in 1 .. Lasers
  BY ChannelFacts DEF BlockSet
<1> QED BY <1>1 DEF Return, PointSet

LEMMA ReturnsDiffer ==
  ASSUME NEW s, NEW b \in BlockSet, NEW c \in 1 .. Channels, NEW d \in 1 .. Channels,
         Alike(Return(s, b, c), Return(s, b, d))
  PROVE  c = d
<1>1. b.pos + Firing(c) = b.pos + Firing(d) /\ LaserOf(c) = LaserOf(d)
  BY DEF Alike, Return
<1>2. b.pos \in Int /\ Firing(c) \in Int /\ Firing(d) \in Int
  BY ChannelFacts DEF BlockSet
<1>3. \A x, y, z \in Int : x + y = x + z => y = z
  OBVIOUS
<1>4. Firing(c) = Firing(d)
  BY <1>1, <1>2, <1>3
<1> QED BY <1>1, <1>4, ChannelFacts

LEMMA PointIsReturn ==
  ASSUME NEW b, b.calibrated = ready
  PROVE  \A chan : /\ Point(b, chan) = Return(setup, b, chan)
                   /\ Kept(b, chan) <=> Keeps(setup, b, chan)
<1>1. \A chan : Point(b, chan) = Return(setup, b, chan)
  BY DEF Point, Return, InDistance, InSection, Within, Firing, LaserOf
<1> QED BY <1>1 DEF Kept, Keeps

-----------------------------------------------------------------------------
(* A cloud after n channels of a block.                                      *)
Extends(s, b, n, more, new) ==
  /\ Len(more) <= Len(new)
  /\ \A i \in 1 .. Len(more) : new[i] = more[i]
  /\ \A i \in Len(more) + 1 .. Len(new) :
       \E chan \in 1 .. n : new[i] = Return(s, b, chan) /\ Keeps(s, b, chan)
  /\ \A chan \in 1 .. n :
       Keeps(s, b, chan) => \E i \in Len(more) + 1 .. Len(new) : new[i] = Return(s, b, chan)
  /\ \A i, j \in Len(more) + 1 .. Len(new) : Alike(new[i], new[j]) => i = j
  /\ ~s.dense => /\ Len(new) = Len(more) + n
                 /\ \A chan \in 1 .. n : new[Len(more) + chan] = Return(s, b, chan)

OneMore(s, b, chan, new) ==
  IF Keeps(s, b, chan) THEN Append(new, Return(s, b, chan)) ELSE new

(* A turn of the loop over channels.                                         *)
LEMMA ExtendsOn ==
  ASSUME NEW s \in Setups, NEW b \in BlockSet, NEW n \in 0 .. Channels - 1,
         NEW more \in Seq(PointSet), NEW new \in Seq(PointSet), Extends(s, b, n, more, new)
  PROVE  /\ OneMore(s, b, n + 1, new) \in Seq(PointSet)
         /\ Extends(s, b, n + 1, more, OneMore(s, b, n + 1, new))
<1> DEFINE m == Len(more)  l == Len(new)  p == Return(s, b, n + 1)
<1>1. /\ m \in Nat /\ l \in Nat /\ m <= l /\ n \in Nat /\ Channels \in Nat
      /\ n + 1 \in 1 .. Channels
  BY LenProperties, RevolutionAssumption DEF Extends, Channels
<1>2. \A i \in m + 1 .. l : \E chan \in 1 .. n : new[i] = Return(s, b, chan) /\ Keeps(s, b, chan)
  BY DEF Extends
<1>3. \A chan \in 1 .. n : Keeps(s, b, chan) => \E i \in m + 1 .. l : new[i] = Return(s, b, chan)
  BY DEF Extends
<1>4. \A i, j \in m + 1 .. l : Alike(new[i], new[j]) => i = j
  BY DEF Extends
<1>5. \A i \in 1 .. m : new[i] = more[i]
  BY DEF Extends
<1>6. ~s.dense => l = m + n /\ \A chan \in 1 .. n : new[m + chan] = Return(s, b, chan)
  BY DEF Extends
<1>7. 1 .. n + 1 = (1 .. n) \cup {n + 1} /\ n + 1 \notin 1 .. n
  BY <1>1
<1>8. CASE ~Keeps(s, b, n + 1)
  <2>1. OneMore(s, b, n + 1, new) = new
    BY <1>8 DEF OneMore
  <2>2. s.dense
    BY <1>8 DEF Keeps
  <2>3. \A i \in m + 1 .. l : \E chan \in 1 .. n + 1 : new[i] = Return(s, b, chan) /\ Keeps(s, b, chan)
    BY <1>2, <1>7
  <2>4. \A chan \in 1 .. n + 1 :
          Keeps(s, b, chan) => \E i \in m + 1 .. l : new[i] = Return(s, b, chan)
    BY <1>3, <1>7, <1>8
  <2> QED BY <1>1, <1>4, <1>5, <2>1, <2>2, <2>3, <2>4 DEF Extends
<1>9. CASE Keeps(s, b, n + 1)
  <2> DEFINE newer == Append(new, p)
  <2>1. OneMore(s, b, n + 1, new) = newer
    BY <1>9 DEF OneMore
  <2>2. p \in PointSet
    BY <1>1, ReturnType
  <2>3. /\ newer \in Seq(PointSet) /\ Len(newer) = l + 1 /\ newer[l + 1] = p
        /\ \A i \in 1 .. l : newer[i] = new[i]
    BY <2>2, AppendProperties
  <2>4. m + 1 .. l + 1 = (m + 1 .. l) \cup {l + 1} /\ l + 1 \notin m + 1 .. l
        /\ m + 1 .. l \subseteq 1 .. l /\ 1 .. m \subseteq 1 .. l
    BY <1>1
  <2>5. \A i \in 1 .. m : newer[i] = more[i]
    BY <1>5, <2>3, <2>4
  <2>6. \A i \in m + 1 .. l + 1 :
          \E chan \in 1 .. n + 1 : newer[i] = Return(s, b, chan) /\ Keeps(s, b, chan)
    BY <1>2, <1>7, <1>9, <2>3, <2>4
  <2>7. \A chan \in 1 .. n + 1 :
          Keeps(s, b, chan) => \E i \in m + 1 .. l + 1 : newer[i] = Return(s, b, chan)
    BY <1>3, <1>7, <2>3, <2>4
  <2>8. ASSUME NEW i \in m + 1 .. l PROVE ~Alike(new[i], p) /\ ~Alike(p, new[i])
    <3>1. PICK chan \in 1 .. n : new[i] = Return(s, b, chan)
      BY <1>2
    <3>2. chan \in 1 .. Channels /\ chan # n + 1
      BY <1>1
    <3> QED BY <1>1, <3>1, <3>2, ReturnsDiffer
  <2>9. \A i, j \in m + 1 .. l + 1 : Alike(newer[i], newer[j]) => i = j
    BY <1>4, <2>3, <2>4, <2>8
  <2>10. ~s.dense => /\ l + 1 = m + (n + 1)
                     /\ \A chan \in 1 .. n + 1 : newer[m + chan] = Return(s, b, chan)
    <3> SUFFICES ASSUME ~s.dense
                 PROVE  /\ l + 1 = m + (n + 1)
                        /\ \A chan \in 1 .. n + 1 : newer[m + chan] = Return(s, b, chan)
      OBVIOUS
    <3>1. l = m + n /\ l + 1 = m + (n + 1)
      BY <1>1, <1>6
    <3>2. \A chan \in 1 .. n : m + chan \in 1 .. l
      BY <1>1, <3>1
    <3>3. \A chan \in 1 .. n : newer[m + chan] = Return(s, b, chan)
      BY <1>6, <2>3, <3>2
    <3>4. newer[m + (n + 1)] = Return(s, b, n + 1)
      BY <2>3, <3>1
    <3> QED BY <1>7, <3>1, <3>3, <3>4
  <2>11. m <= l + 1
    BY <1>1
  <2> HIDE DEF newer, p
  <2>12. Extends(s, b, n + 1, more, newer)
    BY <2>3, <2>5, <2>6, <2>7, <2>9, <2>10, <2>11 DEF Extends
  <2> QED BY <2>1, <2>3, <2>12
<1> QED BY <1>8, <1>9

(* The loop over channels, which is a function of the channels done.         *)
LEMMA Looping ==
  ASSUME setup \in Setups, NEW b \in BlockSet, b.calibrated = ready, NEW more \in Seq(PointSet)
  PROVE  /\ AfterChannels(more, b) \in Seq(PointSet)
         /\ Extends(setup, b, Channels, more, AfterChannels(more, b))
<1> DEFINE Steps(f, n) ==
      /\ f[0] = more
      /\ \A chan \in 1 .. n : f[chan] = OneMore(setup, b, chan, f[chan - 1])
    Loop(f) == [chan \in 0 .. Channels |->
      IF chan = 0 THEN more
      ELSE IF Kept(b, chan) THEN Append(f[chan - 1], Point(b, chan))
      ELSE f[chan - 1]]
    after == CHOOSE f : f = Loop(f)
<1>1. Channels \in Nat
  BY RevolutionAssumption DEF Channels
<1>2. \A chan : /\ Point(b, chan) = Return(setup, b, chan)
                /\ Kept(b, chan) <=> Keeps(setup, b, chan)
  BY PointIsReturn
<1>3. ASSUME NEW f, NEW chan
      PROVE  (IF Kept(b, chan) THEN Append(f[chan - 1], Point(b, chan)) ELSE f[chan - 1])
             = OneMore(setup, b, chan, f[chan - 1])
  BY <1>2 DEF OneMore
<1>4. AfterChannels(more, b) = after[Channels]
  BY DEF AfterChannels
<1>5. \E f : f = Loop(f)
  <2> DEFINE Sofar == {n \in 0 .. Channels : \E f : DOMAIN f = 0 .. n /\ Steps(f, n)}
  <2>1. 0 \in Sofar
    <3> DEFINE f == [chan \in 0 .. 0 |-> more]
    <3>1. DOMAIN f = 0 .. 0 /\ f[0] = more /\ 0 \in 0 .. Channels
      BY <1>1
    <3>2. Steps(f, 0)
      BY <3>1
    <3> QED BY <3>1, <3>2
  <2>2. ASSUME NEW n \in 0 .. Channels - 1, n \in Sofar PROVE n + 1 \in Sofar
    <3>1. PICK f : DOMAIN f = 0 .. n /\ Steps(f, n)
      BY <2>2
    <3> DEFINE g == [chan \in 0 .. n + 1 |->
                       IF chan = n + 1 THEN OneMore(setup, b, n + 1, f[n]) ELSE f[chan]]
    <3>2. n + 1 \in 0 .. Channels /\ n \in Nat /\ (n + 1) - 1 = n
      BY <1>1
    <3>3. \A chan \in 0 .. n : g[chan] = f[chan]
      BY <3>2
    <3>4. g[n + 1] = OneMore(setup, b, n + 1, f[n])
      BY <3>2
    <3>5. g[0] = more
      BY <3>1, <3>2, <3>3
    <3> HIDE DEF g
    <3>6. ASSUME NEW chan \in 1 .. n + 1 PROVE g[chan] = OneMore(setup, b, chan, g[chan - 1])
      <4>1. CASE chan = n + 1
        <5>1. chan - 1 = n /\ n \in 0 .. n
          BY <3>2, <4>1
        <5> QED BY <3>3, <3>4, <4>1, <5>1
      <4>2. CASE chan # n + 1
        <5>1. chan \in 1 .. n /\ chan \in 0 .. n /\ chan - 1 \in 0 .. n
          BY <3>2, <4>2
        <5>2. f[chan] = OneMore(setup, b, chan, f[chan - 1])
          BY <3>1, <5>1
        <5> QED BY <3>3, <5>1, <5>2
      <4> QED BY <4>1, <4>2
    <3>7. Steps(g, n + 1)
      BY <3>5, <3>6
    <3>8. DOMAIN g = 0 .. n + 1
      BY DEF g
    <3> QED BY <3>2, <3>7, <3>8
  <2> HIDE DEF Sofar
  <2>3. Channels \in Sofar
    <3>1. \A n \in 0 .. Channels : n \in Sofar
      BY <1>1, <2>1, <2>2, AllTheWay
    <3> QED BY <1>1, <3>1
  <2>4. PICK f : DOMAIN f = 0 .. Channels /\ Steps(f, Channels)
    BY <2>3 DEF Sofar
  <2> DEFINE h == [chan \in 0 .. Channels |-> f[chan]]
  <2>5. \A chan \in 0 .. Channels : h[chan] = f[chan]
    OBVIOUS
  <2>6. ASSUME NEW chan \in 0 .. Channels PROVE h[chan] = Loop(h)[chan]
    <3>1. CASE chan = 0
      BY <2>4, <2>5, <3>1
    <3>2. CASE chan # 0
      <4>1. chan \in 1 .. Channels /\ chan - 1 \in 0 .. Channels
        BY <1>1, <3>2
      <4>2. h[chan] = OneMore(setup, b, chan, h[chan - 1])
        BY <2>4, <2>5, <4>1
      <4>3. Loop(h)[chan] = OneMore(setup, b, chan, h[chan - 1])
        BY <1>3, <3>2
      <4> QED BY <4>2, <4>3
    <3> QED BY <3>1, <3>2
  <2>7. h = Loop(h)
    <3>1. h = [chan \in 0 .. Channels |-> h[chan]]
      OBVIOUS
    <3>2. Loop(h) = [chan \in 0 .. Channels |-> Loop(h)[chan]]
      OBVIOUS
    <3> HIDE DEF h, Loop
    <3> QED BY <2>6, <3>1, <3>2
  <2> QED BY <2>7
<1>6. after = Loop(after)
  <2> HIDE DEF Loop
  <2> QED BY <1>5
<1> HIDE DEF after
<1>7. after[0] = more /\ \A chan \in 1 .. Channels : after[chan] = OneMore(setup, b, chan, after[chan - 1])
  <2>1. \A chan \in 0 .. Channels : after[chan] = Loop(after)[chan]
    <3> HIDE DEF Loop
    <3> QED BY <1>6
  <2>2. 0 \in 0 .. Channels /\ \A chan \in 1 .. Channels : chan \in 0 .. Channels /\ chan # 0
    BY <1>1
  <2>3. Loop(after)[0] = more
    BY <2>2
  <2>4. ASSUME NEW chan \in 1 .. Channels
        PROVE  Loop(after)[chan] = OneMore(setup, b, chan, after[chan - 1])
    BY <1>3, <2>2
  <2> HIDE DEF Loop
  <2> QED BY <2>1, <2>2, <2>3, <2>4
<1> DEFINE Good == {n \in 0 .. Channels : after[n] \in Seq(PointSet) /\ Extends(setup, b, n, more, after[n])}
<1>8. 0 \in Good
  <2>1. Len(more) \in Nat /\ 0 \in 0 .. Channels
    BY <1>1, LenProperties
  <2>2. Extends(setup, b, 0, more, more)
    BY <2>1 DEF Extends
  <2> QED BY <1>7, <2>1, <2>2
<1>9. ASSUME NEW n \in 0 .. Channels - 1, n \in Good PROVE n + 1 \in Good
  <2>1. n + 1 \in 1 .. Channels /\ n + 1 \in 0 .. Channels /\ (n + 1) - 1 = n
    BY <1>1
  <2>2. after[n + 1] = OneMore(setup, b, n + 1, after[n])
    BY <1>7, <2>1
  <2>3. after[n] \in Seq(PointSet) /\ Extends(setup, b, n, more, after[n])
    BY <1>9
  <2>4. /\ OneMore(setup, b, n + 1, after[n]) \in Seq(PointSet)
        /\ Extends(setup, b, n + 1, more, OneMore(setup, b, n + 1, after[n]))
    BY <2>3, ExtendsOn
  <2> QED BY <2>1, <2>2, <2>4
<1> HIDE DEF Good
<1>10. Channels \in Good
  <2>1. \A n \in 0 .. Channels : n \in Good
    BY <1>1, <1>8, <1>9, AllTheWay
  <2> QED BY <1>1, <2>1
<1> QED BY <1>4, <1>10 DEF Good

-----------------------------------------------------------------------------
(* Two blocks that have no firing in common.                                 *)
Apart(a, b) == a.pos # b.pos /\ a.pos + 1 # b.pos /\ a.pos # b.pos + 1

LEMMA ApartReturns ==
  ASSUME NEW s, NEW a \in BlockSet, NEW b \in BlockSet, Apart(a, b),
         NEW c \in 1 .. Channels, NEW d \in 1 .. Channels
  PROVE  ~Alike(Return(s, a, c), Return(s, b, d)) /\ ~Alike(Return(s, b, d), Return(s, a, c))
<1>1. a.pos \in Int /\ b.pos \in Int
  BY DEF BlockSet
<1>2. Firing(c) \in 0 .. 1 /\ Firing(d) \in 0 .. 1
  BY ChannelFacts
<1>3. \A x, y \in 0 .. 1 : a.pos + x # b.pos + y
  BY <1>1 DEF Apart
<1> QED BY <1>2, <1>3 DEF Alike, Return

(* Rows of all lasers, and two more of them.                                 *)
LEMMA RowsOn ==
  ASSUME NEW s \in Setups, NEW b \in BlockSet, NEW ps \in Seq(PointSet), NEW new \in Seq(PointSet),
         Extends(s, b, Channels, ps, new), ~s.dense, InRows(ps)
  PROVE  InRows(new)
<1> DEFINE l == Len(ps)
<1>1. PICK m \in 0 .. l : l = Lasers * m
  BY DEF InRows
<1>2. /\ l \in Nat /\ m \in Nat /\ Lasers \in Nat /\ Lasers >= 1
      /\ Channels = 2 * Lasers /\ Len(new) = l + 2 * Lasers
  BY <1>1, LenProperties, RevolutionAssumption DEF Extends, Channels
<1>3. /\ \A i \in 1 .. l : new[i] = ps[i]
      /\ \A chan \in 1 .. Channels : new[l + chan] = Return(s, b, chan)
  BY DEF Extends
<1> HIDE DEF l
<1>4. \E k \in 0 .. Len(new) : Len(new) = Lasers * k
  <2>1. Lasers * (m + 2) = Lasers * m + 2 * Lasers
    BY <1>2
  <2>2. m <= l /\ m + 2 \in Nat
    BY <1>1, <1>2
  <2>3. m + 2 \in 0 .. Len(new) /\ Len(new) = Lasers * (m + 2)
    BY <1>1, <1>2, <2>1, <2>2
  <2> QED BY <2>3
<1>5. ASSUME NEW i \in 1 .. l
      PROVE  /\ new[i].laser = ((i - 1) % Lasers) + 1
             /\ new[i].fired = new[i - (new[i].laser - 1)].fired
  <2>1. /\ ps[i].laser = ((i - 1) % Lasers) + 1
        /\ ps[i].fired = ps[i - (ps[i].laser - 1)].fired
    BY DEF InRows, l
  <2>2. /\ (i - 1) \div Lasers \in Int /\ (i - 1) % Lasers \in 0 .. Lasers - 1
        /\ Lasers * ((i - 1) \div Lasers) \in Int
        /\ i - 1 = Lasers * ((i - 1) \div Lasers) + ((i - 1) % Lasers)
    BY <1>2, Dividing
  <2>3. (i - 1) \div Lasers >= 0
    BY <1>2
  <2>4. Lasers * ((i - 1) \div Lasers) >= 0
    BY <1>2, <2>2, <2>3
  <2>5. i - ((((i - 1) % Lasers) + 1) - 1) \in 1 .. l
    BY <1>2, <2>2, <2>4
  <2>6. i - (ps[i].laser - 1) \in 1 .. l
    BY <2>1, <2>5
  <2> QED BY <1>3, <2>1, <2>6
<1>6. ASSUME NEW c \in 1 .. Channels
      PROVE  /\ new[l + c].laser = (((l + c) - 1) % Lasers) + 1
             /\ new[l + c].fired = new[(l + c) - (new[l + c].laser - 1)].fired
  <2> DEFINE f == Firing(c)  r == LaserOf(c)  d == f * Lasers + 1
  <2>1. f \in 0 .. 1 /\ r \in 1 .. Lasers /\ c = f * Lasers + r
    BY ChannelFacts
  <2>2. new[l + c] = Return(s, b, c) /\ Return(s, b, c).laser = r /\ Return(s, b, c).fired = b.pos + f
    <3>1. new[l + c] = Return(s, b, c)
      BY <1>3
    <3>2. Return(s, b, c).laser = r /\ Return(s, b, c).fired = b.pos + f
      BY DEF Return
    <3> QED BY <3>1, <3>2
  <2>3. d = f * Lasers + 1 /\ f = Firing(c)
    OBVIOUS
  <2> HIDE DEF f, r, d
  <2>4. f * Lasers \in Nat /\ f * Lasers <= Lasers /\ (f = 0 => f * Lasers = 0) /\ (f = 1 => f * Lasers = Lasers)
    BY <1>2, <2>1
  <2>5. ((l + c) - 1) % Lasers = r - 1
    <3>1. m + f \in Int /\ r - 1 \in 0 .. Lasers - 1
      BY <1>2, <2>1
    <3>2. Lasers * (m + f) = Lasers * m + f * Lasers
      BY <1>2, <2>1
    <3>3. (l + c) - 1 = Lasers * (m + f) + (r - 1)
      BY <1>1, <1>2, <2>1, <2>4, <3>2
    <3> QED BY <1>2, <3>1, <3>3, Remainder
  <2>6. d \in 1 .. Channels /\ (l + c) - (r - 1) = l + d
    <3> DEFINE g == f * Lasers
    <3>1. g \in Nat /\ g <= Lasers /\ d = g + 1 /\ c = g + r
      BY <2>1, <2>3, <2>4
    <3>2. r \in Int /\ l \in Int /\ Lasers \in Int /\ Lasers >= 1 /\ Channels = 2 * Lasers
      BY <1>2, <2>1
    <3> HIDE DEF g
    <3>3. d \in 1 .. Channels
      BY <3>1, <3>2
    <3>4. (l + c) - (r - 1) = l + d
      BY <3>1, <3>2
    <3> QED BY <3>3, <3>4
  <2>7. Firing(d) = f
    <3>1. d > Lasers <=> f = 1
      BY <1>2, <2>1, <2>3, <2>4
    <3> QED BY <2>1, <3>1 DEF Firing
  <2>8. new[l + d].fired = b.pos + f
    <3>1. new[l + d] = Return(s, b, d)
      BY <1>3, <2>6
    <3>2. Return(s, b, d).fired = b.pos + Firing(d)
      BY DEF Return
    <3> QED BY <2>7, <3>1, <3>2
  <2>9. r \in Int /\ (r - 1) + 1 = r
    BY <1>2, <2>1
  <2>10. new[l + c].laser = r /\ new[l + c].fired = b.pos + f
    BY <2>2
  <2> QED BY <2>5, <2>6, <2>8, <2>9, <2>10
<1>7. \A i \in 1 .. Len(new) : i \in 1 .. l \/ \E c \in 1 .. Channels : i = l + c
  <2> SUFFICES ASSUME NEW i \in 1 .. Len(new), i \notin 1 .. l
               PROVE  \E c \in 1 .. Channels : i = l + c
    OBVIOUS
  <2>1. i - l \in 1 .. Channels /\ i = l + (i - l)
    BY <1>2
  <2> QED BY <2>1
<1>8. ASSUME NEW i \in 1 .. Len(new)
      PROVE  /\ new[i].laser = ((i - 1) % Lasers) + 1
             /\ new[i].fired = new[i - (new[i].laser - 1)].fired
  BY <1>5, <1>6, <1>7
<1> QED BY <1>4, <1>8 DEF InRows

(* A cloud after one more block.                                             *)
LEMMA Drawing ==
  ASSUME NEW s \in Setups, NEW bs \in Seq(BlockSet), NEW b \in BlockSet, NEW clr \in BOOLEAN,
         NEW ps \in Seq(PointSet), NEW new \in Seq(PointSet),
         Drawn(s, ps, bs, clr), Extends(s, b, Channels, ps, new),
         \A i \in 1 .. Len(bs) : Apart(bs[i], b)
  PROVE  Drawn(s, new, Append(bs, b), clr)
<1> DEFINE l == Len(ps)  n == Len(bs)  more == Append(bs, b)
<1>1. /\ l \in Nat /\ n \in Nat /\ Len(new) \in Nat /\ l <= Len(new)
      /\ more \in Seq(BlockSet) /\ Len(more) = n + 1 /\ more[n + 1] = b
      /\ \A i \in 1 .. n : more[i] = bs[i]
  BY LenProperties, AppendProperties DEF Extends
<1>2. \A i \in 1 .. n : bs[i] \in BlockSet
  BY ElementOfSeq
<1>3. /\ \A i \in 1 .. l : new[i] = ps[i]
      /\ \A i \in l + 1 .. Len(new) :
           \E chan \in 1 .. Channels : new[i] = Return(s, b, chan) /\ Keeps(s, b, chan)
      /\ \A chan \in 1 .. Channels :
           Keeps(s, b, chan) => \E i \in l + 1 .. Len(new) : new[i] = Return(s, b, chan)
      /\ \A i, j \in l + 1 .. Len(new) : Alike(new[i], new[j]) => i = j
  BY DEF Extends
<1>4. FromBlocks(s, ps, bs) /\ EachOnce(ps) /\ (clr \/ AllOf(s, ps, bs)) /\ (s.dense \/ InRows(ps))
  BY DEF Drawn
<1>5. /\ 1 .. Len(new) = (1 .. l) \cup (l + 1 .. Len(new))
      /\ 1 .. n + 1 = (1 .. n) \cup {n + 1}
  BY <1>1
<1>6. \A i \in 1 .. l : \E k \in 1 .. n, chan \in 1 .. Channels :
        ps[i] = Return(s, bs[k], chan) /\ Keeps(s, bs[k], chan)
  BY <1>4 DEF FromBlocks
<1> HIDE DEF l, n, more
<1>7. FromBlocks(s, new, more)
  <2>1. ASSUME NEW i \in 1 .. l
        PROVE  \E k \in 1 .. n + 1, chan \in 1 .. Channels :
                 new[i] = Return(s, more[k], chan) /\ Keeps(s, more[k], chan)
    <3>1. PICK k \in 1 .. n, chan \in 1 .. Channels :
            ps[i] = Return(s, bs[k], chan) /\ Keeps(s, bs[k], chan)
      BY <1>6
    <3>2. k \in 1 .. n + 1 /\ more[k] = bs[k] /\ new[i] = ps[i]
      BY <1>1, <1>3, <1>5
    <3> QED BY <3>1, <3>2
  <2>2. ASSUME NEW i \in l + 1 .. Len(new)
        PROVE  \E k \in 1 .. n + 1, chan \in 1 .. Channels :
                 new[i] = Return(s, more[k], chan) /\ Keeps(s, more[k], chan)
    <3>1. PICK chan \in 1 .. Channels : new[i] = Return(s, b, chan) /\ Keeps(s, b, chan)
      BY <1>3
    <3>2. n + 1 \in 1 .. n + 1 /\ more[n + 1] = b
      BY <1>1
    <3> QED BY <3>1, <3>2
  <2> QED BY <1>1, <1>5, <2>1, <2>2 DEF FromBlocks
<1>8. EachOnce(new)
  <2>1. \A i, j \in 1 .. l : Alike(new[i], new[j]) => i = j
    BY <1>3, <1>4 DEF EachOnce, l
  <2>2. ASSUME NEW i \in 1 .. l, NEW j \in l + 1 .. Len(new)
        PROVE  ~Alike(new[i], new[j]) /\ ~Alike(new[j], new[i])
    <3>1. PICK k \in 1 .. n, c \in 1 .. Channels : ps[i] = Return(s, bs[k], c)
      BY <1>6
    <3>2. PICK d \in 1 .. Channels : new[j] = Return(s, b, d)
      BY <1>3
    <3>3. new[i] = Return(s, bs[k], c) /\ bs[k] \in BlockSet /\ Apart(bs[k], b)
      BY <1>2, <1>3, <3>1 DEF n
    <3> QED BY <3>2, <3>3, ApartReturns
  <2> QED BY <1>3, <1>5, <2>1, <2>2 DEF EachOnce
<1>9. clr \/ AllOf(s, new, more)
  <2> SUFFICES ASSUME AllOf(s, ps, bs) PROVE AllOf(s, new, more)
    BY <1>4
  <2>1. ASSUME NEW k \in 1 .. n, NEW chan \in 1 .. Channels, Keeps(s, more[k], chan)
        PROVE  \E i \in 1 .. Len(new) : new[i] = Return(s, more[k], chan)
    <3>1. more[k] = bs[k]
      BY <1>1
    <3>2. PICK i \in 1 .. l : ps[i] = Return(s, bs[k], chan)
      BY <2>1, <3>1 DEF AllOf, l, n
    <3> QED BY <1>3, <1>5, <3>1, <3>2
  <2>2. ASSUME NEW chan \in 1 .. Channels, Keeps(s, more[n + 1], chan)
        PROVE  \E i \in 1 .. Len(new) : new[i] = Return(s, more[n + 1], chan)
    BY <1>1, <1>3, <1>5, <2>2
  <2> QED BY <1>1, <1>5, <2>1, <2>2 DEF AllOf
<1>10. s.dense \/ InRows(new)
  BY <1>4, RowsOn
<1>11. Drawn(s, new, more, clr)
  BY <1>7, <1>8, <1>9, <1>10 DEF Drawn
<1> QED BY <1>11 DEF more

LEMMA DrawnNothing ==
  ASSUME NEW s, NEW bs, NEW clr \in BOOLEAN, clr \/ bs = <<>>
  PROVE  Drawn(s, <<>>, bs, clr)
<1>1. Len(<<>>) = 0 /\ Lasers \in Nat
  BY EmptySeq, RevolutionAssumption
<1>2. FromBlocks(s, <<>>, bs) /\ EachOnce(<<>>)
  BY <1>1 DEF FromBlocks, EachOnce
<1>3. clr \/ AllOf(s, <<>>, bs)
  BY <1>1 DEF AllOf
<1>4. InRows(<<>>)
  <2>1. Len(<<>>) = Lasers * 0 /\ 0 \in 0 .. Len(<<>>)
    BY <1>1
  <2> QED BY <1>1, <2>1 DEF InRows
<1> QED BY <1>2, <1>3, <1>4 DEF Drawn

-----------------------------------------------------------------------------
(* No two blocks of the sensor are in one place, nor is a firing of one in   *)
(* the place of a firing of another.                                         *)
LEMMA AtOnce ==
  ASSUME NEW s \in Setups, NEW p \in Nat, NEW i \in 1 .. BlocksPerPkt,
         NEW q \in Nat, NEW j \in 1 .. BlocksPerPkt, At(s, p, i) = At(s, q, j)
  PROVE  p = q /\ i = j
<1>1. BlocksPerPkt \in Nat /\ s.first \in Int
  BY RevolutionAssumption
<1>2. BlocksPerPkt * p \in Int /\ BlocksPerPkt * q \in Int
  BY <1>1
<1>3. BlocksPerPkt * p + (i - 1) = BlocksPerPkt * q + (j - 1)
  BY <1>1, <1>2 DEF At
<1>4. i - 1 \in 0 .. BlocksPerPkt - 1 /\ j - 1 \in 0 .. BlocksPerPkt - 1
  BY <1>1
<1>5. p = q /\ i - 1 = j - 1
  BY <1>1, <1>3, <1>4, OneWay
<1> QED BY <1>5

LEMMA TakenApart ==
  ASSUME NEW s \in Setups, NEW n \in Nat, NEW fl, NEW a, NEW b,
         a.pos \in Taken(s, n, fl), b.pos \in Taken(s, n, fl), a.pos # b.pos
  PROVE  Apart(a, b)
<1>1. ASSUME NEW x \in Taken(s, n, fl) PROVE \E k \in Int : x = s.first + 2 * k
  <2>1. PICK p \in 0 .. n - 1, i \in 1 .. BlocksPerPkt : x = At(s, p, i)
    BY DEF Taken
  <2>2. BlocksPerPkt * p + i - 1 \in Int
    BY RevolutionAssumption
  <2> QED BY <2>1, <2>2 DEF At
<1>2. PICK k \in Int : a.pos = s.first + 2 * k
  BY <1>1
<1>3. PICK l \in Int : b.pos = s.first + 2 * l
  BY <1>1
<1>4. s.first \in Int
  BY RevolutionAssumption
<1> QED BY <1>2, <1>3, <1>4 DEF Apart

LEMMA TakenGrows ==
  ASSUME NEW s, NEW n \in Nat, NEW fl \in SUBSET (0 .. n - 1), NEW p
  PROVE  /\ Taken(s, n, fl) \subseteq Taken(s, n + 1, fl \cup {n})
         /\ Taken(s, n, fl) \subseteq Taken(s, n, fl \ {p})
<1>1. (0 .. n - 1) \ fl \subseteq (0 .. (n + 1) - 1) \ (fl \cup {n})
  OBVIOUS
<1>2. (0 .. n - 1) \ fl \subseteq (0 .. n - 1) \ (fl \ {p})
  OBVIOUS
<1> QED BY <1>1, <1>2 DEF Taken

(* The blocks of a packet, in their places.                                  *)
LEMMA PacketBlocks ==
  ASSUME TypeOK, NEW p \in flight
  PROVE  /\ Blocks(p) \in Seq(BlockSet) /\ Len(Blocks(p)) = BlocksPerPkt
         /\ \A i \in 1 .. BlocksPerPkt :
              Blocks(p)[i].pos = At(setup, p, i) /\ Blocks(p)[i].calibrated = ready
<1>1. /\ p \in Nat /\ sent \in Nat /\ setup \in Setups /\ ready \in BOOLEAN
      /\ BlocksPerPkt \in Nat /\ Second \in Nat /\ Turn \in Nat /\ Turn > 0
      /\ setup.first \in 0 .. Turn - 1
  BY RevolutionAssumption DEF TypeOK
<1>2. PacketTs(p) \in Int
  BY <1>1 DEF PacketTs, HostTime, PacketTime, Start, LidarStart
<1>3. ASSUME NEW i \in 1 .. BlocksPerPkt
      PROVE  /\ At(setup, p, i) \in Nat /\ At(setup, p, i) % Turn \in 0 .. Turn - 1
             /\ PacketTs(p) + 2 * (i - 1) \in Int
  <2>1. BlocksPerPkt * p \in Nat
    BY <1>1
  <2>2. At(setup, p, i) \in Nat
    BY <1>1, <2>1 DEF At
  <2> QED BY <1>1, <1>2, <2>2, Dividing
<1>4. Blocks(p) = [i \in 1 .. BlocksPerPkt |->
                     [pos |-> At(setup, p, i), angle |-> At(setup, p, i) % Turn,
                      ts |-> PacketTs(p) + 2 * (i - 1), calibrated |-> ready]]
  BY DEF Blocks, At
<1>5. \A i \in 1 .. BlocksPerPkt : Blocks(p)[i] \in BlockSet
  BY <1>1, <1>3, <1>4 DEF BlockSet
<1>6. Blocks(p) \in [1 .. BlocksPerPkt -> BlockSet]
  BY <1>4, <1>5
<1>7. Blocks(p) \in Seq(BlockSet)
  BY <1>1, <1>6, SeqDef
<1>8. Len(Blocks(p)) = BlocksPerPkt
  BY <1>1, <1>6, <1>7, LenProperties
<1>9. ASSUME NEW i \in 1 .. BlocksPerPkt
      PROVE  Blocks(p)[i].pos = At(setup, p, i) /\ Blocks(p)[i].calibrated = ready
  BY <1>4
<1> QED BY <1>7, <1>8, <1>9

-----------------------------------------------------------------------------
DecoderInv ==
  /\ StampsOK /\ Rising(blocks) /\ Sweeping(blocks) /\ Drawn(setup, points, blocks, cleared)
FilledInv == \A i \in 1 .. Len(filled) : CloudOK(setup, filled[i])

LEMMA InvSplit == RevolutionsInv <=> TypeOK /\ PlacesOK /\ DecoderInv /\ FilledInv
BY DEF RevolutionsInv, DecoderInv, FilledInv

(* What a step leaves alone.                                                 *)
LEMMA DecoderKept == DecoderInv /\ UNCHANGED <<setup, decVars>> => DecoderInv'
BY DEF DecoderInv, StampsOK, decVars, Latest

LEMMA FilledKept == FilledInv /\ UNCHANGED <<setup, filled>> => FilledInv'
BY DEF FilledInv

LEMMA SendKeeps == RevolutionsInv /\ Send => RevolutionsInv'
<1> SUFFICES ASSUME RevolutionsInv, Send PROVE RevolutionsInv'
  OBVIOUS
<1>1. TypeOK /\ PlacesOK /\ DecoderInv /\ FilledInv
  BY InvSplit
<1>2. /\ sent \in Nat /\ flight \in SUBSET (0 .. sent - 1)
      /\ sent' = sent + 1 /\ flight' = flight \cup {sent}
      /\ UNCHANGED <<setup, ready, todo, decVars, filled>>
  BY <1>1 DEF Send, TypeOK
<1>3. TypeOK'
  BY <1>1, <1>2 DEF TypeOK, decVars
<1>4. PlacesOK'
  <2>1. Taken(setup, sent, flight) \subseteq Taken(setup', sent', flight')
    BY <1>2, TakenGrows
  <2> QED BY <1>1, <1>2, <2>1 DEF PlacesOK, decVars
<1>5. DecoderInv' /\ FilledInv'
  BY <1>1, <1>2, DecoderKept, FilledKept
<1> QED BY <1>3, <1>4, <1>5, InvSplit, PTL

LEMMA LoseKeeps == ASSUME NEW p \in flight PROVE RevolutionsInv /\ Lose(p) => RevolutionsInv'
<1> SUFFICES ASSUME RevolutionsInv, Lose(p) PROVE RevolutionsInv'
  OBVIOUS
<1>1. TypeOK /\ PlacesOK /\ DecoderInv /\ FilledInv
  BY InvSplit
<1>2. /\ sent \in Nat /\ flight \in SUBSET (0 .. sent - 1) /\ flight' = flight \ {p}
      /\ UNCHANGED <<setup, sent, ready, todo, decVars, filled>>
  BY <1>1 DEF Lose, TypeOK
<1>3. TypeOK'
  BY <1>1, <1>2 DEF TypeOK, decVars
<1>4. PlacesOK'
  <2>1. Taken(setup, sent, flight) \subseteq Taken(setup', sent', flight')
    BY <1>2, TakenGrows
  <2> QED BY <1>1, <1>2, <2>1 DEF PlacesOK, decVars
<1>5. DecoderInv' /\ FilledInv'
  BY <1>1, <1>2, DecoderKept, FilledKept
<1> QED BY <1>3, <1>4, <1>5, InvSplit, PTL

LEMMA DifopKeeps == RevolutionsInv /\ Difop => RevolutionsInv'
<1> SUFFICES ASSUME RevolutionsInv, Difop PROVE RevolutionsInv'
  OBVIOUS
<1>1. TypeOK /\ PlacesOK /\ DecoderInv /\ FilledInv
  BY InvSplit
<1>2. todo = <<>> /\ ready' = TRUE /\ UNCHANGED <<setup, sent, flight, todo, decVars, filled>>
  BY DEF Difop
<1>3. TypeOK'
  BY <1>1, <1>2 DEF TypeOK, decVars
<1>4. PlacesOK'
  <2>1. Len(todo') = 0
    BY <1>2
  <2>2. Taken(setup', sent', flight') = Taken(setup, sent, flight)
    BY <1>2
  <2> QED BY <1>1, <1>2, <2>1, <2>2 DEF PlacesOK, decVars
<1>5. DecoderInv' /\ FilledInv'
  BY <1>1, <1>2, DecoderKept, FilledKept
<1> QED BY <1>3, <1>4, <1>5, InvSplit, PTL

LEMMA PublishKeeps == ASSUME NEW subscribed PROVE RevolutionsInv /\ Publish(subscribed) => RevolutionsInv'
<1> SUFFICES ASSUME RevolutionsInv, Publish(subscribed) PROVE RevolutionsInv'
  OBVIOUS
<1>1. TypeOK /\ PlacesOK /\ DecoderInv /\ FilledInv
  BY InvSplit
<1>2. /\ filled # <<>> /\ filled' = Tail(filled)
      /\ UNCHANGED <<setup, sent, flight, ready, todo, decVars>>
  BY DEF Publish
<1>3. /\ filled' \in Seq(CloudSet) /\ Len(filled') = Len(filled) - 1 /\ Len(filled) \in Nat
      /\ \A i \in 1 .. Len(filled') : filled'[i] = filled[i + 1]
  BY <1>1, <1>2, HeadTailProperties, LenProperties DEF TypeOK
<1>4. TypeOK'
  BY <1>1, <1>2, <1>3 DEF TypeOK, decVars
<1>5. PlacesOK'
  <2>1. Taken(setup', sent', flight') = Taken(setup, sent, flight)
    BY <1>2
  <2> QED BY <1>1, <1>2, <2>1 DEF PlacesOK, decVars
<1>6. FilledInv'
  <2>1. \A i \in 1 .. Len(filled') : i + 1 \in 1 .. Len(filled)
    BY <1>3
  <2>2. \A i \in 1 .. Len(filled') : CloudOK(setup', filled'[i])
    BY <1>1, <1>2, <1>3, <2>1 DEF FilledInv
  <2> QED BY <2>2 DEF FilledInv
<1>7. DecoderInv'
  BY <1>1, <1>2, DecoderKept
<1> QED BY <1>4, <1>5, <1>6, <1>7, InvSplit, PTL

(* A packet that comes is one that has not come before.                      *)
LEMMA MsopKeeps ==
  ASSUME NEW p \in flight, NEW good \in 0 .. BlocksPerPkt
  PROVE  RevolutionsInv /\ Msop(p, good) => RevolutionsInv'
<1> SUFFICES ASSUME RevolutionsInv, Msop(p, good) PROVE RevolutionsInv'
  OBVIOUS
<1>1. TypeOK /\ PlacesOK /\ DecoderInv /\ FilledInv
  BY InvSplit
<1>2. /\ sent \in Nat /\ flight \in SUBSET (0 .. sent - 1) /\ flight' = flight \ {p}
      /\ UNCHANGED <<setup, sent, ready, prev, firstTs, lastTs, seq, blocks, filled>>
      /\ (points' = <<>> /\ cleared' = TRUE) \/ UNCHANGED <<points, cleared>>
      /\ todo' = <<>> \/ todo' = SubSeq(Blocks(p), 1, good)
      /\ setup \in Setups
  BY <1>1 DEF Msop, TypeOK
<1>3. /\ Blocks(p) \in Seq(BlockSet) /\ Len(Blocks(p)) = BlocksPerPkt
      /\ \A i \in 1 .. BlocksPerPkt :
           Blocks(p)[i].pos = At(setup, p, i) /\ Blocks(p)[i].calibrated = ready
  BY <1>1, PacketBlocks
<1>4. good \in Nat /\ good <= BlocksPerPkt /\ BlocksPerPkt \in Nat
  BY RevolutionAssumption
<1>5. /\ todo' \in Seq(BlockSet) /\ Len(todo') \in Nat /\ Len(todo') <= BlocksPerPkt
      /\ \A i \in 1 .. Len(todo') : todo'[i] = Blocks(p)[i]
  <2>1. CASE todo' = <<>>
    BY <1>4, <2>1
  <2>2. CASE todo' = SubSeq(Blocks(p), 1, good)
    <3>1. \A i \in 1 .. good : Blocks(p)[i] \in BlockSet
      BY <1>3, <1>4, ElementOfSeq
    <3>2. /\ SubSeq(Blocks(p), 1, good) \in Seq(BlockSet)
          /\ Len(SubSeq(Blocks(p), 1, good)) = IF 1 <= good THEN good - 1 + 1 ELSE 0
          /\ \A i \in 1 .. good - 1 + 1 : SubSeq(Blocks(p), 1, good)[i] = Blocks(p)[1 + i - 1]
      BY <1>4, <3>1, SubSeqProperties
    <3>3. Len(todo') = good
      BY <1>4, <2>2, <3>2
    <3>4. \A i \in 1 .. good : i \in 1 .. good - 1 + 1 /\ 1 + i - 1 = i
      BY <1>4
    <3>5. \A i \in 1 .. good : todo'[i] = Blocks(p)[i]
      BY <2>2, <3>2, <3>4
    <3> QED BY <1>4, <2>2, <3>2, <3>3, <3>5
  <2> QED BY <1>2, <2>1, <2>2
<1>6. \A i \in 1 .. Len(todo') : i \in 1 .. BlocksPerPkt
  BY <1>4, <1>5
<1>7. \A i \in 1 .. Len(todo') : todo'[i].pos = At(setup, p, i) /\ todo'[i].calibrated = ready
  BY <1>3, <1>5, <1>6
<1>8. p \in Nat /\ p \in 0 .. sent - 1
  BY <1>2
<1>9. points' \in Seq(PointSet) /\ cleared' \in BOOLEAN
  BY <1>1, <1>2, EmptySeq DEF TypeOK
<1>10. TypeOK'
  <2>1. flight' \in SUBSET (0 .. sent' - 1)
    BY <1>2
  <2> QED BY <1>1, <1>2, <1>5, <1>9, <2>1 DEF TypeOK
<1>11. PlacesOK'
  <2>1. Taken(setup, sent, flight) \subseteq Taken(setup', sent', flight')
    BY <1>2, TakenGrows
  <2>2. \A i \in 1 .. BlocksPerPkt : At(setup, p, i) \in Taken(setup', sent', flight')
    BY <1>2, <1>8 DEF Taken
  <2>3. ASSUME NEW i \in 1 .. BlocksPerPkt PROVE At(setup, p, i) \notin Taken(setup, sent, flight)
    <3> SUFFICES ASSUME At(setup, p, i) \in Taken(setup, sent, flight) PROVE FALSE
      OBVIOUS
    <3>1. PICK q \in (0 .. sent - 1) \ flight, j \in 1 .. BlocksPerPkt : At(setup, p, i) = At(setup, q, j)
      BY DEF Taken
    <3>2. q \in Nat /\ q # p
      OBVIOUS
    <3> QED BY <1>2, <1>8, <3>1, <3>2, AtOnce
  <2>4. \A i \in 1 .. Len(todo') : todo'[i].pos \in Taken(setup', sent', flight') /\ todo'[i].calibrated = ready'
    BY <1>2, <1>6, <1>7, <2>2
  <2>5. \A i \in 1 .. Len(blocks') : blocks'[i].pos \in Taken(setup', sent', flight')
    BY <1>1, <1>2, <2>1 DEF PlacesOK
  <2>6. \A i, j \in 1 .. Len(todo') : todo'[i].pos = todo'[j].pos => i = j
    BY <1>2, <1>6, <1>7, <1>8, AtOnce
  <2>7. \A i \in 1 .. Len(blocks'), j \in 1 .. Len(todo') : blocks'[i].pos # todo'[j].pos
    BY <1>1, <1>2, <1>6, <1>7, <2>3 DEF PlacesOK
  <2> QED BY <2>4, <2>5, <2>6, <2>7 DEF PlacesOK
<1>12. DecoderInv'
  <2>1. Rising(blocks') /\ Sweeping(blocks')
    BY <1>1, <1>2 DEF DecoderInv
  <2>2. Drawn(setup', points', blocks', cleared')
    BY <1>1, <1>2, DrawnNothing DEF DecoderInv
  <2>3. StampsOK'
    BY <1>1, <1>2 DEF DecoderInv, StampsOK, Latest
  <2> QED BY <2>1, <2>2, <2>3 DEF DecoderInv
<1>13. FilledInv'
  BY <1>1, <1>2, FilledKept
<1> QED BY <1>10, <1>11, <1>12, <1>13, InvSplit, PTL

-----------------------------------------------------------------------------
(* The next block to decode.                                                 *)
LEMMA InHand ==
  ASSUME TypeOK, PlacesOK, todo # <<>>
  PROVE  /\ Head(todo) = todo[1] /\ Head(todo) \in BlockSet /\ Head(todo).calibrated = ready
         /\ Head(todo).pos \in Taken(setup, sent, flight)
         /\ Tail(todo) \in Seq(BlockSet) /\ Len(Tail(todo)) = Len(todo) - 1 /\ Len(todo) \in Nat \ {0}
         /\ \A i \in 1 .. Len(Tail(todo)) : Tail(todo)[i] = todo[i + 1]
         /\ \A i \in 1 .. Len(blocks) : Apart(blocks[i], Head(todo))
<1>1. /\ Head(todo) = todo[1] /\ Head(todo) \in BlockSet
      /\ Tail(todo) \in Seq(BlockSet) /\ Len(Tail(todo)) = Len(todo) - 1 /\ Len(todo) \in Nat \ {0}
      /\ \A i \in 1 .. Len(Tail(todo)) : Tail(todo)[i] = todo[i + 1]
  BY HeadTailProperties, EmptySeq DEF TypeOK
<1>2. 1 \in 1 .. Len(todo)
  BY <1>1
<1>3. todo[1].pos \in Taken(setup, sent, flight) /\ todo[1].calibrated = ready
  BY <1>2 DEF PlacesOK
<1>4. \A i \in 1 .. Len(blocks) : Apart(blocks[i], todo[1])
  <2> SUFFICES ASSUME NEW i \in 1 .. Len(blocks) PROVE Apart(blocks[i], todo[1])
    OBVIOUS
  <2>1. blocks[i].pos \in Taken(setup, sent, flight) /\ blocks[i].pos # todo[1].pos
    BY <1>2 DEF PlacesOK
  <2>2. setup \in Setups /\ sent \in Nat
    BY DEF TypeOK
  <2> QED BY <1>3, <2>1, <2>2, TakenApart
<1> QED BY <1>1, <1>3, <1>4

LEMMA PlacesOn ==
  ASSUME TypeOK, PlacesOK, todo # <<>>, todo' = Tail(todo), UNCHANGED <<setup, sent, flight, ready>>,
         \A i \in 1 .. Len(blocks') :
           blocks'[i] = Head(todo) \/ \E j \in 1 .. Len(blocks) : blocks'[i] = blocks[j]
  PROVE  PlacesOK'
<1>1. /\ Head(todo) = todo[1] /\ Head(todo).pos \in Taken(setup, sent, flight)
      /\ Len(Tail(todo)) = Len(todo) - 1 /\ Len(todo) \in Nat \ {0}
      /\ \A i \in 1 .. Len(Tail(todo)) : Tail(todo)[i] = todo[i + 1]
  BY InHand
<1>2. 1 \in 1 .. Len(todo) /\ \A i \in 1 .. Len(todo') : i \in Int /\ i + 1 \in 1 .. Len(todo) /\ i + 1 # 1
  BY <1>1
<1>3. Taken(setup', sent', flight') = Taken(setup, sent, flight)
  OBVIOUS
<1>4. \A i \in 1 .. Len(todo') :
        todo'[i].pos \in Taken(setup', sent', flight') /\ todo'[i].calibrated = ready'
  BY <1>1, <1>2, <1>3 DEF PlacesOK
<1>5. \A i \in 1 .. Len(blocks') : blocks'[i].pos \in Taken(setup', sent', flight')
  BY <1>1, <1>3 DEF PlacesOK
<1>6. \A i, j \in 1 .. Len(todo') : todo'[i].pos = todo'[j].pos => i = j
  <2> SUFFICES ASSUME NEW i \in 1 .. Len(todo'), NEW j \in 1 .. Len(todo'), todo'[i].pos = todo'[j].pos
               PROVE  i = j
    OBVIOUS
  <2>1. todo[i + 1].pos = todo[j + 1].pos
    BY <1>1
  <2>2. i + 1 = j + 1
    BY <1>2, <2>1 DEF PlacesOK
  <2> QED BY <1>2, <2>2
<1>7. ASSUME NEW i \in 1 .. Len(blocks'), NEW j \in 1 .. Len(todo') PROVE blocks'[i].pos # todo'[j].pos
  <2>1. todo'[j] = todo[j + 1] /\ j + 1 \in 1 .. Len(todo) /\ j + 1 # 1
    BY <1>1, <1>2
  <2>2. CASE blocks'[i] = Head(todo)
    BY <1>1, <1>2, <2>1, <2>2 DEF PlacesOK
  <2>3. CASE \E k \in 1 .. Len(blocks) : blocks'[i] = blocks[k]
    BY <2>1, <2>3 DEF PlacesOK
  <2> QED BY <2>2, <2>3
<1> QED BY <1>4, <1>5, <1>6, <1>7 DEF PlacesOK

(* A revolution begins where the azimuth falls.                              *)
LEMMA Splitting ==
  ASSUME NEW b \in BlockSet, prev \in 0 .. Turn - 1
  PROVE  NewBlock(b.angle) <=> b.angle < prev
<1>1. b.angle \in 0 .. Turn - 1 /\ Turn \in Nat
  BY RevolutionAssumption DEF BlockSet
<1> QED BY <1>1 DEF NewBlock, SplitAngle

LEMMA DecodeKeeps == RevolutionsInv /\ Decode => RevolutionsInv'
<1> SUFFICES ASSUME RevolutionsInv, Decode PROVE RevolutionsInv'
  OBVIOUS
<1> DEFINE h == Head(todo)
<1>1. TypeOK /\ PlacesOK /\ DecoderInv /\ FilledInv
  BY InvSplit
<1>2. /\ todo # <<>> /\ ~NewBlock(h.angle)
      /\ points' = AfterChannels(points, h) /\ blocks' = Append(blocks, h)
      /\ todo' = Tail(todo) /\ prev' = h.angle /\ lastTs' = h.ts + 1
      /\ UNCHANGED <<setup, sent, flight, ready, firstTs, seq, cleared, filled>>
  BY DEF Decode
<1>3. /\ h \in BlockSet /\ h.calibrated = ready /\ Tail(todo) \in Seq(BlockSet)
      /\ \A i \in 1 .. Len(blocks) : Apart(blocks[i], h)
  BY <1>1, <1>2, InHand
<1>4. /\ setup \in Setups /\ points \in Seq(PointSet) /\ blocks \in Seq(BlockSet)
      /\ prev \in 0 .. Turn - 1 /\ cleared \in BOOLEAN /\ Len(blocks) \in Nat
  BY <1>1, LenProperties DEF TypeOK
<1> HIDE DEF h
<1>5. points' \in Seq(PointSet) /\ Extends(setup, h, Channels, points, points')
  BY <1>2, <1>3, <1>4, Looping
<1>6. /\ blocks' \in Seq(BlockSet) /\ blocks' # <<>> /\ Len(blocks') = Len(blocks) + 1
      /\ Latest(blocks') = h /\ \A i \in 1 .. Len(blocks) : blocks'[i] = blocks[i]
  <2>1. blocks' = Append(blocks, h)
    BY <1>2
  <2>2. /\ blocks' \in Seq(BlockSet) /\ blocks' # <<>> /\ Len(blocks') = Len(blocks) + 1
        /\ blocks'[Len(blocks) + 1] = h /\ \A i \in 1 .. Len(blocks) : blocks'[i] = blocks[i]
    BY <1>3, <1>4, <2>1, AppendProperties
  <2>3. Latest(blocks') = h
    BY <2>2 DEF Latest
  <2> QED BY <2>2, <2>3
<1>7. h.angle \in 0 .. Turn - 1 /\ h.ts \in Int /\ h.angle \in Int /\ prev \in Int
  BY <1>3, <1>4 DEF BlockSet
<1>8. TypeOK'
  BY <1>1, <1>2, <1>3, <1>5, <1>6, <1>7 DEF TypeOK
<1>9. PlacesOK'
  <2>1. \A i \in 1 .. Len(blocks') :
          blocks'[i] = Head(todo) \/ \E j \in 1 .. Len(blocks) : blocks'[i] = blocks[j]
    <3>1. \A i \in 1 .. Len(blocks) + 1 : i \in 1 .. Len(blocks) \/ i = Len(blocks) + 1
      BY <1>4
    <3> QED BY <1>6, <3>1 DEF Latest, h
  <2> QED BY <1>1, <1>2, <2>1, PlacesOn
<1>10. StampsOK'
  <2>1. prev' = Latest(blocks').angle /\ lastTs' = Latest(blocks').ts + 1
    BY <1>2, <1>6
  <2>2. firstTs' = blocks'[1].ts \/ (firstTs' = 0 /\ seq' = 0)
    <3>1. CASE blocks = <<>>
      BY <1>1, <1>2, <3>1 DEF DecoderInv, StampsOK
    <3>2. CASE blocks # <<>>
      <4>1. 1 \in 1 .. Len(blocks)
        BY <1>4, <3>2, EmptySeq
      <4> QED BY <1>1, <1>2, <1>6, <3>2, <4>1 DEF DecoderInv, StampsOK
    <3> QED BY <3>1, <3>2
  <2> QED BY <1>6, <2>1, <2>2 DEF StampsOK, Latest
<1>11. Rising(blocks') /\ Sweeping(blocks')
  <2>1. blocks # <<>> => Latest(blocks).angle <= h.angle
    <3>1. ~(h.angle < prev)
      BY <1>2, <1>3, <1>4, Splitting
    <3>2. blocks # <<>> => prev = Latest(blocks).angle
      BY <1>1 DEF DecoderInv, StampsOK
    <3> QED BY <1>7, <3>1, <3>2
  <2> QED BY <1>1, <1>2, <1>3, <1>4, <2>1, SweepOn DEF DecoderInv
<1>12. Drawn(setup', points', blocks', cleared')
  <2>1. Drawn(setup, points, blocks, cleared)
    BY <1>1 DEF DecoderInv
  <2>2. Drawn(setup, points', Append(blocks, h), cleared)
    BY <1>3, <1>4, <1>5, <2>1, Drawing
  <2> QED BY <1>2, <2>2
<1>13. DecoderInv'
  BY <1>10, <1>11, <1>12 DEF DecoderInv
<1>14. FilledInv'
  BY <1>1, <1>2, FilledKept
<1> QED BY <1>8, <1>9, <1>13, <1>14, InvSplit, PTL

(* The cloud that a split hands on.                                          *)
LEMMA Finishing ==
  ASSUME TypeOK, DecoderInv, points # <<>>, NEW b \in BlockSet, NewBlock(b.angle)
  PROVE  Cloud(b) \in CloudSet /\ CloudOK(setup, Cloud(b))
<1>1. /\ setup \in Setups /\ points \in Seq(PointSet) /\ blocks \in Seq(BlockSet) /\ seq \in Nat
      /\ firstTs \in Int /\ lastTs \in Int /\ cleared \in BOOLEAN /\ prev \in 0 .. Turn - 1
  BY DEF TypeOK
<1>2. setup.dense \in BOOLEAN /\ setup.tsFirst \in BOOLEAN /\ Lasers \in Nat \ {0}
  BY <1>1, RevolutionAssumption
<1> DEFINE height == IF setup.dense THEN 1 ELSE Lasers
<1>3. height \in Nat \ {0} /\ Len(points) \div height \in Nat
  <2>1. height \in Nat \ {0} /\ Len(points) \in Nat
    BY <1>1, <1>2, LenProperties
  <2> HIDE DEF height
  <2> QED BY <2>1
<1>4. CloudTs \in Int
  BY <1>1 DEF CloudTs
<1> DEFINE c == Cloud(b)
<1>5. c = [seq |-> seq, timestamp |-> CloudTs, dense |-> setup.dense, points |-> points,
           height |-> height, width |-> Len(points) \div height,
           blocks |-> blocks, next |-> b, cleared |-> cleared]
  BY DEF Cloud
<1> HIDE DEF height
<1>6. c \in CloudSet
  BY <1>1, <1>2, <1>3, <1>4, <1>5 DEF CloudSet
<1>7. /\ c.seq = seq /\ c.timestamp = CloudTs /\ c.dense = setup.dense /\ c.points = points
      /\ c.height = height /\ c.width = Len(points) \div height
      /\ c.blocks = blocks /\ c.next = b /\ c.cleared = cleared
  BY <1>5
<1> HIDE DEF c
<1>8. blocks # <<>> /\ prev = Latest(blocks).angle /\ lastTs = Latest(blocks).ts + 1
      /\ (firstTs = blocks[1].ts \/ (firstTs = 0 /\ seq = 0))
  BY DEF DecoderInv, StampsOK
<1>9. c.next.angle < Latest(c.blocks).angle
  BY <1>1, <1>7, <1>8, Splitting
<1>10. Rising(c.blocks) /\ Sweeping(c.blocks) /\ Drawn(setup, c.points, c.blocks, c.cleared)
  BY <1>7 DEF DecoderInv
<1>11. c.height = (IF setup.dense THEN 1 ELSE Lasers) /\ c.width = Len(c.points) \div c.height
  BY <1>7 DEF height
<1>12. IF setup.tsFirst THEN c.timestamp = c.blocks[1].ts \/ (c.timestamp = 0 /\ c.seq = 0)
                        ELSE c.timestamp = Latest(c.blocks).ts + 1
  BY <1>2, <1>7, <1>8 DEF CloudTs
<1>13. CloudOK(setup, c)
  BY <1>7, <1>8, <1>9, <1>10, <1>11, <1>12 DEF CloudOK
<1> QED BY <1>6, <1>13 DEF c

LEMMA DecodeSplitKeeps == RevolutionsInv /\ DecodeSplit => RevolutionsInv'
<1> SUFFICES ASSUME RevolutionsInv, DecodeSplit PROVE RevolutionsInv'
  OBVIOUS
<1> DEFINE h == Head(todo)
<1>1. TypeOK /\ PlacesOK /\ DecoderInv /\ FilledInv
  BY InvSplit
<1>2. /\ todo # <<>> /\ NewBlock(h.angle)
      /\ IF points = <<>> THEN UNCHANGED <<seq, filled>> ELSE Push(Cloud(h)) /\ seq' = seq + 1
      /\ points' = AfterChannels(<<>>, h) /\ blocks' = <<h>> /\ cleared' = FALSE
      /\ firstTs' = h.ts /\ todo' = Tail(todo) /\ prev' = h.angle /\ lastTs' = h.ts + 1
      /\ UNCHANGED <<setup, sent, flight, ready>>
  BY DEF DecodeSplit
<1>3. h \in BlockSet /\ h.calibrated = ready /\ Tail(todo) \in Seq(BlockSet)
  BY <1>1, <1>2, InHand
<1>4. setup \in Setups /\ seq \in Nat /\ filled \in Seq(CloudSet)
  BY <1>1 DEF TypeOK
<1> HIDE DEF h
<1>5. <<>> \in Seq(PointSet) /\ <<>> \in Seq(BlockSet) /\ Len(<<>>) = 0
  BY EmptySeq
<1>6. points' \in Seq(PointSet) /\ Extends(setup, h, Channels, <<>>, points')
  BY <1>2, <1>3, <1>4, <1>5, Looping
<1>7. blocks' \in Seq(BlockSet) /\ blocks' # <<>> /\ Len(blocks') = 1 /\ blocks'[1] = h
  BY <1>2, <1>3
<1>8. h.angle \in 0 .. Turn - 1 /\ h.ts \in Int
  BY <1>3 DEF BlockSet
<1>9. /\ seq' \in Nat /\ filled' \in Seq(CloudSet)
      /\ \A i \in 1 .. Len(filled') : CloudOK(setup, filled'[i])
  <2>1. CASE UNCHANGED <<seq, filled>>
    BY <1>1, <1>4, <2>1 DEF FilledInv
  <2>2. CASE points # <<>>
    <3>1. Push(Cloud(h)) /\ seq' = seq + 1
      BY <1>2, <2>2
    <3>2. Cloud(h) \in CloudSet /\ CloudOK(setup, Cloud(h))
      BY <1>1, <1>2, <1>3, <2>2, Finishing
    <3>3. filled' = filled \/ filled' = Append(filled, Cloud(h))
      BY <3>1 DEF Push
    <3>4. CASE filled' = filled
      BY <1>1, <1>4, <3>1, <3>4 DEF FilledInv
    <3>5. CASE filled' = Append(filled, Cloud(h))
      <4>1. /\ filled' \in Seq(CloudSet) /\ Len(filled') = Len(filled) + 1 /\ Len(filled) \in Nat
            /\ filled'[Len(filled) + 1] = Cloud(h)
            /\ \A i \in 1 .. Len(filled) : filled'[i] = filled[i]
        BY <1>4, <3>2, <3>5, AppendProperties, LenProperties
      <4>2. \A i \in 1 .. Len(filled) + 1 : i \in 1 .. Len(filled) \/ i = Len(filled) + 1
        BY <4>1
      <4>3. \A i \in 1 .. Len(filled) : CloudOK(setup, filled[i])
        BY <1>1 DEF FilledInv
      <4>4. \A i \in 1 .. Len(filled') : CloudOK(setup, filled'[i])
        BY <3>2, <4>1, <4>2, <4>3
      <4>5. seq' \in Nat
        BY <1>4, <3>1
      <4> QED BY <4>1, <4>4, <4>5
    <3> QED BY <3>3, <3>4, <3>5
  <2> QED BY <1>2, <2>1, <2>2
<1>10. TypeOK'
  <2>1. /\ setup' = setup /\ sent' = sent /\ flight' = flight /\ ready' = ready
        /\ todo' = Tail(todo) /\ prev' = h.angle /\ firstTs' = h.ts /\ lastTs' = h.ts + 1
    BY <1>2
  <2>2. cleared' \in BOOLEAN
    BY <1>2
  <2>3. /\ todo' \in Seq(BlockSet) /\ prev' \in 0 .. Turn - 1 /\ firstTs' \in Int /\ lastTs' \in Int
    BY <1>3, <1>8, <2>1
  <2> QED BY <1>1, <1>6, <1>7, <1>9, <2>1, <2>2, <2>3 DEF TypeOK
<1>11. PlacesOK'
  <2>1. \A i \in 1 .. Len(blocks') : blocks'[i] = Head(todo)
    BY <1>7 DEF h
  <2> QED BY <1>1, <1>2, <2>1, PlacesOn
<1>12. StampsOK'
  BY <1>2, <1>7 DEF StampsOK, Latest
<1>13. Rising(blocks') /\ Sweeping(blocks')
  BY <1>2, <1>3, SweepAnew
<1>14. Drawn(setup', points', blocks', cleared')
  <2>1. Drawn(setup, <<>>, <<>>, FALSE)
    BY DrawnNothing
  <2>2. Drawn(setup, points', Append(<<>>, h), FALSE)
    <3>1. \A i \in 1 .. Len(<<>>) : Apart(<<>>[i], h)
      BY <1>5
    <3> QED BY <1>3, <1>4, <1>5, <1>6, <2>1, <3>1, Drawing
  <2>3. Append(<<>>, h) = <<h>>
    OBVIOUS
  <2> QED BY <1>2, <2>2, <2>3
<1>15. DecoderInv'
  BY <1>12, <1>13, <1>14 DEF DecoderInv
<1>16. FilledInv'
  BY <1>2, <1>9 DEF FilledInv
<1> QED BY <1>10, <1>11, <1>15, <1>16, InvSplit, PTL

-----------------------------------------------------------------------------
(* What has just been published is a finished cloud, in full.                *)
ShownInv ==
  \A s \in Members(shown) :
    /\ s.cloud \in CloudSet /\ CloudOK(setup, s.cloud) /\ s.scan = Stamp(s.cloud.timestamp)
    /\ s.subscribed =>
         message = [width |-> s.cloud.height, height |-> s.cloud.width, rowStep |-> s.cloud.height,
                    dense |-> s.cloud.dense, stamp |-> Stamp(s.cloud.timestamp),
                    data |-> s.cloud.points]

LEMMA InitHolds == Init => RevolutionsInv /\ ShownInv
<1> SUFFICES ASSUME Init PROVE RevolutionsInv /\ ShownInv
  OBVIOUS
<1>1. /\ setup \in Setups /\ sent = 0 /\ flight = {} /\ ready = FALSE
      /\ todo = <<>> /\ prev = 0 /\ firstTs = 0 /\ lastTs = 0
      /\ points = <<>> /\ seq = 0 /\ blocks = <<>> /\ cleared = FALSE /\ filled = <<>> /\ shown = <<>>
  BY DEF Init, SplitAngle
<1>2. Len(<<>>) = 0 /\ Turn \in Nat \ {0} /\ \A S : <<>> \in Seq(S)
  BY RevolutionAssumption, EmptySeq
<1>3. TypeOK
  <2>1. ready \in BOOLEAN /\ cleared \in BOOLEAN /\ flight \in SUBSET (0 .. sent - 1)
    BY <1>1
  <2>2. /\ todo \in Seq(BlockSet) /\ points \in Seq(PointSet) /\ blocks \in Seq(BlockSet)
        /\ filled \in Seq(CloudSet)
    BY <1>1, <1>2
  <2>3. /\ setup \in Setups /\ sent \in Nat /\ prev \in 0 .. Turn - 1 /\ firstTs \in Int
        /\ lastTs \in Int /\ seq \in Nat
    BY <1>1, <1>2
  <2> QED BY <2>1, <2>2, <2>3 DEF TypeOK
<1>4. PlacesOK
  BY <1>1, <1>2 DEF PlacesOK
<1>5. DecoderInv
  <2>1. Drawn(setup, points, blocks, cleared)
    BY <1>1, DrawnNothing
  <2> QED BY <1>1, <1>2, <2>1 DEF DecoderInv, StampsOK, Rising, Sweeping
<1>6. FilledInv /\ ShownInv
  BY <1>1, <1>2 DEF FilledInv, ShownInv, Members
<1> QED BY <1>3, <1>4, <1>5, <1>6, InvSplit

LEMMA NextKeeps == RevolutionsInv /\ [Next]_vars => RevolutionsInv'
<1> SUFFICES ASSUME RevolutionsInv, [Next]_vars PROVE RevolutionsInv'
  OBVIOUS
<1>1. CASE Send
  BY <1>1, SendKeeps
<1>2. CASE Difop
  BY <1>2, DifopKeeps
<1>3. CASE Decode
  BY <1>3, DecodeKeeps
<1>4. CASE DecodeSplit
  BY <1>4, DecodeSplitKeeps
<1>5. CASE \E p \in flight : Lose(p) \/ \E good \in 0 .. BlocksPerPkt : Msop(p, good)
  BY <1>5, LoseKeeps, MsopKeeps
<1>6. CASE \E subscribed \in BOOLEAN : Publish(subscribed)
  BY <1>6, PublishKeeps
<1>7. CASE UNCHANGED vars
  <2>1. UNCHANGED <<setup, sent, flight, ready, todo, decVars, filled>>
    BY <1>7 DEF vars
  <2>2. TypeOK /\ PlacesOK /\ DecoderInv /\ FilledInv
    BY InvSplit
  <2>3. DecoderInv' /\ FilledInv'
    BY <2>1, <2>2, DecoderKept, FilledKept
  <2>4. Taken(setup', sent', flight') = Taken(setup, sent, flight)
    BY <2>1
  <2>5. TypeOK' /\ PlacesOK'
    BY <2>1, <2>2, <2>4 DEF TypeOK, PlacesOK, decVars
  <2> QED BY <2>3, <2>5, InvSplit, PTL
<1> QED BY <1>1, <1>2, <1>3, <1>4, <1>5, <1>6, <1>7 DEF Next

LEMMA ShownKeeps == RevolutionsInv /\ ShownInv /\ [Next]_vars => ShownInv'
<1> SUFFICES ASSUME RevolutionsInv, ShownInv, [Next]_vars PROVE ShownInv'
  OBVIOUS
<1>1. CASE shown' = <<>>
  BY <1>1 DEF ShownInv, Members
<1>2. CASE UNCHANGED vars
  <2>1. UNCHANGED <<setup, message, shown>>
    BY <1>2 DEF vars
  <2> QED BY <2>1 DEF ShownInv
<1>3. ASSUME NEW subscribed \in BOOLEAN, Publish(subscribed) PROVE ShownInv'
  <2> DEFINE c == Head(filled)
        s == [cloud |-> c, subscribed |-> subscribed, scan |-> ScanStamp(Convert(c))]
  <2>1. /\ filled # <<>> /\ setup' = setup /\ shown' = <<s>>
        /\ subscribed => message' = CloudMessage(message, Convert(c))
    BY <1>3 DEF Publish
  <2>2. c \in CloudSet /\ CloudOK(setup, c)
    <3>1. filled \in Seq(CloudSet) /\ filled # <<>>
      BY <2>1 DEF RevolutionsInv, TypeOK
    <3>2. Head(filled) = filled[1] /\ Head(filled) \in CloudSet /\ 1 \in 1 .. Len(filled)
      BY <3>1, HeadTailProperties, EmptySeq
    <3> QED BY <3>2 DEF RevolutionsInv
  <2>3. /\ Convert(c).width = c.width /\ Convert(c).height = c.height /\ Convert(c).dense = c.dense
        /\ Convert(c).timestamp = c.timestamp /\ Convert(c).points = c.points
    BY DEF Convert
  <2>4. s.cloud = c /\ s.subscribed = subscribed /\ s.scan = Stamp(c.timestamp)
    BY <2>3 DEF ScanStamp
  <2>5. subscribed =>
          message' = [width |-> c.height, height |-> c.width, rowStep |-> c.height,
                      dense |-> c.dense, stamp |-> Stamp(c.timestamp), data |-> c.points]
    BY <2>1, <2>3 DEF CloudMessage, Filled
  <2> HIDE DEF s, c
  <2>6. Members(shown') = {s}
    BY <2>1 DEF Members
  <2> QED BY <2>1, <2>2, <2>4, <2>5, <2>6 DEF ShownInv, Stamp
<1>4. CASE Next
  <2>1. shown' = <<>> \/ \E subscribed \in BOOLEAN : Publish(subscribed)
    BY <1>4 DEF Next, Send, Difop, Decode, DecodeSplit, Lose, Msop
  <2> QED BY <1>1, <1>3, <2>1
<1> QED BY <1>2, <1>4

(* In every reachable state the blocks decoded since the last split are one  *)
(* sweep of the sensor and the points are theirs, each place of a block is   *)
(* decoded once, and what is queued or was just published is a whole cloud   *)
(* (decoder_RS16.hpp, split_strategy.hpp, rs_driver_lidar_source.cpp).       *)
THEOREM RevolutionsInvariant == Spec => [](RevolutionsInv /\ ShownInv)
<1>1. Init => RevolutionsInv /\ ShownInv
  BY InitHolds
<1>2. RevolutionsInv /\ ShownInv /\ [Next]_vars => (RevolutionsInv /\ ShownInv)'
  BY NextKeeps, ShownKeeps
<1> QED BY <1>1, <1>2, PTL DEF Spec

-----------------------------------------------------------------------------
LEMMA CloudsTurn == RevolutionsInv => OneCloudPerTurn
<1> SUFFICES ASSUME RevolutionsInv PROVE OneCloudPerTurn
  OBVIOUS
<1>1. /\ blocks \in Seq(BlockSet) /\ Sweeping(blocks) /\ filled \in Seq(CloudSet)
      /\ \A i \in 1 .. Len(filled) : CloudOK(setup, filled[i])
  BY DEF RevolutionsInv, TypeOK
<1>2. ASSUME NEW c \in Members(filled)
      PROVE  /\ c.blocks \in Seq(BlockSet) /\ Sweeping(c.blocks) /\ c.next \in BlockSet
             /\ c.blocks # <<>> /\ c.next.angle < Latest(c.blocks).angle
  <2>1. PICK i \in 1 .. Len(filled) : c = filled[i]
    BY <1>1, LenProperties DEF Members
  <2>2. CloudOK(setup, c) /\ c \in CloudSet
    BY <1>1, <2>1, ElementOfSeq
  <2> QED BY <2>2 DEF CloudOK, CloudSet
<1>3. ASSUME NEW bs \in {c.blocks : c \in Members(filled)} \cup {blocks}
      PROVE  /\ Gaps(bs) \subseteq 1 .. Turn - 1 =>
                  \A a, b \in Members(bs) : TurnOf(a) = TurnOf(b)
             /\ Gaps(bs) \subseteq 1 - Turn .. Turn - 1 /\ (\A i, j \in Backs(bs) : i = j) =>
                  \A a, b \in Members(bs) : a.pos - b.pos < Turn
  <2>1. bs \in Seq(BlockSet) /\ Sweeping(bs)
    BY <1>1, <1>2
  <2> QED BY <2>1, SweepMeans
<1>4. ASSUME NEW c \in Members(filled), Gaps(Append(c.blocks, c.next)) \subseteq 1 .. Turn - 1
      PROVE  TurnOf(c.next) # TurnOf(c.blocks[Len(c.blocks)])
  <2> DEFINE bs == c.blocks  n == Len(bs)  a == bs[n]  b == c.next  more == Append(bs, b)
  <2>1. bs \in Seq(BlockSet) /\ bs # <<>> /\ b \in BlockSet /\ b.angle < a.angle
    BY <1>2 DEF Latest
  <2>2. n \in Nat /\ n >= 1 /\ n \in 1 .. n
    BY <2>1, EmptySeq
  <2>3. Len(more) = n + 1 /\ more[n] = a /\ more[n + 1] = b
    BY <2>1, <2>2, AppendProperties
  <2>4. a \in BlockSet
    BY <2>1, <2>2, ElementOfSeq
  <2>5. b.pos - a.pos \in 1 .. Turn - 1
    <3>1. n \in 1 .. Len(more) - 1
      BY <2>2, <2>3
    <3>2. more[n + 1].pos - more[n].pos \in Gaps(more)
      BY <3>1 DEF Gaps
    <3> QED BY <1>4, <2>3, <3>2
  <2> HIDE DEF a, b, more, n, bs
  <2>6. TurnOf(b) # TurnOf(a)
    <3> SUFFICES ASSUME TurnOf(b) = TurnOf(a) PROVE FALSE
      OBVIOUS
    <3>1. a.pos = Turn * TurnOf(a) + a.angle /\ a.angle \in 0 .. Turn - 1 /\ Turn * TurnOf(a) \in Int
      BY <2>4, Placing
    <3>2. b.pos = Turn * TurnOf(a) + b.angle /\ b.angle \in 0 .. Turn - 1
      BY <2>1, Placing
    <3>3. Turn \in Nat
      BY RevolutionAssumption
    <3> QED BY <2>1, <2>5, <3>1, <3>2, <3>3
  <2> QED BY <2>6 DEF a, b, n, bs
<1> QED BY <1>3, <1>4 DEF OneCloudPerTurn

LEMMA StampsTurn == RevolutionsInv /\ ShownInv => StampOfItsTurn
<1> SUFFICES ASSUME RevolutionsInv, ShownInv, NEW s \in Members(shown)
             PROVE  /\ s.subscribed => message.stamp = s.scan
                    /\ LET of == s.cloud.blocks  at == s.scan.sec * Second + s.scan.frac
                       IN  IF setup.tsFirst THEN at = of[1].ts \/ (at = 0 /\ s.cloud.seq = 0)
                                            ELSE at = of[Len(of)].ts + 1
  BY DEF StampOfItsTurn
<1>1. s.cloud \in CloudSet /\ CloudOK(setup, s.cloud) /\ s.scan = Stamp(s.cloud.timestamp)
  BY DEF ShownInv
<1>2. s.subscribed => message.stamp = s.scan
  BY DEF ShownInv
<1>3. s.cloud.timestamp \in Int
  BY <1>1 DEF CloudSet
<1>4. s.scan.sec * Second + s.scan.frac = s.cloud.timestamp
  BY <1>1, <1>3, Stamping
<1>5. IF setup.tsFirst
      THEN s.cloud.timestamp = s.cloud.blocks[1].ts \/ (s.cloud.timestamp = 0 /\ s.cloud.seq = 0)
      ELSE s.cloud.timestamp = s.cloud.blocks[Len(s.cloud.blocks)].ts + 1
  BY <1>1 DEF CloudOK, Latest
<1> QED BY <1>2, <1>4, <1>5

(* A cloud ends where a turn ends (split_strategy.hpp), whatever was lost,   *)
(* and sweeps less than a turn unless the packets go back twice.             *)
THEOREM SplitsAtTurns == Spec => []OneCloudPerTurn
BY RevolutionsInvariant, CloudsTurn, PTL

(* Message and scan carry the instant the settings ask for (cloudTs).        *)
THEOREM StampsItsTurn == Spec => []StampOfItsTurn
BY RevolutionsInvariant, StampsTurn, PTL

-----------------------------------------------------------------------------
(* The azimuth section, on the scale and off it.                             *)
LEMMA Sections ==
  ASSUME setup \in Setups, NEW angle \in Int
  PROVE  /\ WholeTurn => Within(setup, angle)
         /\ ~WholeTurn /\ angle \in 0 .. Turn - 1 => (Within(setup, angle) <=> angle \in Azimuths)
<1> DEFINE s == setup.start  e == setup.end
<1>1. Turn \in Nat /\ Turn > 0 /\ s \in 0 .. Turn /\ e \in 0 .. Turn
  BY RevolutionAssumption
<1> HIDE DEF s, e
<1>2. ASSUME NEW x \in 0 .. Turn PROVE x % Turn = IF x = Turn THEN 0 ELSE x
  <2>1. CASE x = Turn
    <3>1. Turn * 1 + 0 = Turn /\ 0 \in 0 .. Turn - 1
      BY <1>1
    <3>2. (Turn * 1 + 0) % Turn = 0
      BY <1>1, <3>1, Remainder
    <3> QED BY <2>1, <3>1, <3>2
  <2>2. CASE x # Turn
    <3>1. Turn * 0 + x = x /\ x \in 0 .. Turn - 1
      BY <1>1, <2>2
    <3>2. (Turn * 0 + x) % Turn = x
      BY <1>1, <3>1, Remainder
    <3> QED BY <2>2, <3>1, <3>2
  <2> QED BY <2>1, <2>2
<1>3. (e - s) % Turn = 0 <=> s = e \/ (s = 0 /\ e = Turn) \/ (s = Turn /\ e = 0)
  <2>1. CASE s <= e
    <3>1. e - s \in 0 .. Turn
      BY <1>1, <2>1
    <3>2. (e - s) % Turn = IF e - s = Turn THEN 0 ELSE e - s
      BY <1>2, <3>1
    <3> QED BY <1>1, <2>1, <3>1, <3>2
  <2>2. CASE e < s
    <3>1. Turn * (-1) + (e - s + Turn) = e - s /\ e - s + Turn \in 0 .. Turn - 1
      BY <1>1, <2>2
    <3>2. (Turn * (-1) + (e - s + Turn)) % Turn = e - s + Turn
      BY <1>1, <3>1, Remainder
    <3>3. (e - s) % Turn = e - s + Turn
      BY <3>1, <3>2
    <3> QED BY <1>1, <2>2, <3>3
  <2> QED BY <1>1, <2>1, <2>2
<1>4. s % Turn = (IF s = Turn THEN 0 ELSE s) /\ e % Turn = (IF e = Turn THEN 0 ELSE e)
  BY <1>1, <1>2
<1>5. WholeTurn <=> s = e \/ (s = 0 /\ e = Turn) \/ (s = Turn /\ e = 0)
  BY <1>1, <1>4 DEF WholeTurn, s, e
<1> DEFINE from == IF s = Turn THEN 0 ELSE s
           to   == IF e = Turn THEN 0 ELSE e
<1>6. Within(setup, angle) <=>
        \/ s = e \/ (s = 0 /\ e = Turn) \/ (s = Turn /\ e = 0)
        \/ from > to /\ (angle >= from \/ angle < to)
        \/ from <= to /\ angle >= from /\ angle < to
  BY <1>3, <1>4 DEF Within, Round, s, e
<1>7. ASSUME ~WholeTurn, angle \in 0 .. Turn - 1
      PROVE  Within(setup, angle) <=> angle \in Azimuths
  <2>1. Azimuths = IF s < e THEN s .. e - 1 ELSE (s .. Turn - 1) \cup (0 .. e - 1)
    BY <1>7 DEF Azimuths, s, e
  <2>2. angle \in Azimuths <=>
          IF s < e THEN s <= angle /\ angle < e ELSE s <= angle \/ angle < e
    BY <1>1, <1>7, <2>1
  <2> QED BY <1>1, <1>5, <1>6, <1>7, <2>2
<1> QED BY <1>5, <1>6, <1>7

(* A return on the scale is valid if and only if the settings ask for it.    *)
LEMMA Asking ==
  ASSUME setup \in Setups, NEW b \in BlockSet, NEW chan \in 1 .. Channels, NEW f,
         f = <<Return(setup, b, chan).fired, Return(setup, b, chan).laser>>, f \notin OffScale(b)
  PROVE  Return(setup, b, chan).valid <=> f \in Asked(b)
<1> DEFINE angle == b.angle + Firing(chan) + (IF b.calibrated THEN Calibration[LaserOf(chan)] ELSE 0)
<1>1. /\ Firing(chan) \in 0 .. 1 /\ LaserOf(chan) \in 1 .. Lasers
      /\ b.pos \in Nat /\ b.angle \in Int /\ b.calibrated \in BOOLEAN
      /\ Calibration[LaserOf(chan)] \in Int
  BY ChannelFacts, RevolutionAssumption DEF BlockSet
<1>2. f = <<b.pos + Firing(chan), LaserOf(chan)>> /\ f[1] = b.pos + Firing(chan) /\ f[2] = LaserOf(chan)
  BY DEF Return
<1>3. f \in Fired(b)
  BY <1>1, <1>2 DEF Fired
<1>4. f[1] - b.pos = Firing(chan)
  BY <1>1, <1>2
<1>5. Angle(b, f) = angle /\ angle \in Int
  BY <1>1, <1>2, <1>4 DEF Angle
<1>6. Return(setup, b, chan).valid <=>
        World[f[1] % Turn][f[2]] \in setup.near .. setup.far /\ Within(setup, angle)
  BY <1>2 DEF Return
<1> HIDE DEF angle
<1>7. f \in Asked(b) <=>
        World[f[1] % Turn][f[2]] \in setup.near .. setup.far /\ angle % Turn \in Azimuths
  BY <1>3, <1>5 DEF Asked
<1>8. Turn \in Nat /\ Turn > 0
  BY RevolutionAssumption
<1>9. CASE WholeTurn
  <2>1. angle % Turn \in Azimuths
    BY <1>5, <1>8, <1>9, Dividing DEF Azimuths
  <2>2. Within(setup, angle)
    BY <1>5, <1>9, Sections
  <2> QED BY <1>6, <1>7, <2>1, <2>2
<1>10. CASE ~WholeTurn
  <2>1. angle \in 0 .. Turn - 1
    BY <1>3, <1>5, <1>10 DEF OffScale
  <2>2. Turn * 0 + angle = angle
    BY <1>5, <1>8
  <2>3. angle % Turn = angle
    BY <1>8, <2>1, <2>2, Remainder
  <2>4. Within(setup, angle) <=> angle \in Azimuths
    BY <1>5, <1>10, <2>1, Sections
  <2> QED BY <1>6, <1>7, <2>3, <2>4
<1> QED BY <1>9, <1>10

(* Every return of a block comes through one of its channels.                *)
LEMMA ChannelOf ==
  ASSUME NEW s \in Setups, NEW b \in BlockSet, NEW f \in Fired(b)
  PROVE  \E chan \in 1 .. Channels : f = <<Return(s, b, chan).fired, Return(s, b, chan).laser>>
<1>1. PICK x \in 0 .. 1, laser \in 1 .. Lasers : f = <<b.pos + x, laser>>
  <2>1. b.pos \in Nat
    BY DEF BlockSet
  <2>2. PICK y \in {b.pos, b.pos + 1}, laser \in 1 .. Lasers : f = <<y, laser>>
    BY DEF Fired
  <2>3. \E x \in 0 .. 1 : y = b.pos + x
    BY <2>1
  <2> QED BY <2>2, <2>3
<1>2. Lasers \in Nat \ {0}
  BY RevolutionAssumption
<1> DEFINE chan == x * Lasers + laser
<1>3. chan \in 1 .. Channels /\ (chan > Lasers <=> x = 1)
  BY <1>2 DEF Channels
<1>4. Firing(chan) = x
  BY <1>3 DEF Firing
<1>5. LaserOf(chan) = laser
  BY <1>2, <1>4 DEF LaserOf
<1> HIDE DEF chan
<1>6. Return(s, b, chan).fired = b.pos + x /\ Return(s, b, chan).laser = laser
  BY <1>4, <1>5 DEF Return
<1> QED BY <1>1, <1>3, <1>6

(* The message of a finished cloud.                                          *)
LEMMA MessagesTurn == RevolutionsInv /\ ShownInv => MessageOfItsTurn
<1> SUFFICES ASSUME RevolutionsInv, ShownInv, NEW s \in Members(shown), s.subscribed
             PROVE
    LET data  == message.data
        valid == {i \in DOMAIN data : data[i].valid}
        off   == UNION {OffScale(b) : b \in Members(s.cloud.blocks)}
        given == {<<data[i].fired, data[i].laser>> : i \in valid} \ off
        asked == (UNION {Asked(b) : b \in Members(s.cloud.blocks)}) \ off
    IN  /\ Len(data) = message.width * message.height /\ message.rowStep = message.width
        /\ IF message.dense THEN valid = DOMAIN data
           ELSE \A i \in DOMAIN data :
                  /\ data[i].laser = ((i - 1) % Lasers) + 1 /\ message.width = Lasers
                  /\ data[i].fired = data[i - (data[i].laser - 1)].fired
        /\ \A i, j \in valid : data[i] = data[j] => i = j
        /\ given \subseteq asked
        /\ s.cloud.cleared \/ given = asked
  BY DEF MessageOfItsTurn
<1> DEFINE c == s.cloud  ps == c.points  bs == c.blocks  l == Len(ps)  n == Len(bs)
           valid == {i \in DOMAIN ps : ps[i].valid}
           off   == UNION {OffScale(b) : b \in Members(bs)}
           given == {<<ps[i].fired, ps[i].laser>> : i \in valid} \ off
           asked == (UNION {Asked(b) : b \in Members(bs)}) \ off
<1>1. /\ setup \in Setups /\ c \in CloudSet /\ CloudOK(setup, c)
      /\ message = [width |-> c.height, height |-> c.width, rowStep |-> c.height,
                    dense |-> c.dense, stamp |-> Stamp(c.timestamp), data |-> ps]
  BY DEF ShownInv, RevolutionsInv, TypeOK
<1>2. /\ message.data = ps /\ message.width = c.height /\ message.height = c.width
      /\ message.rowStep = c.height /\ message.dense = c.dense
  BY <1>1
<1>3. /\ ps \in Seq(PointSet) /\ bs \in Seq(BlockSet)
      /\ FromBlocks(setup, ps, bs) /\ EachOnce(ps) /\ (c.cleared \/ AllOf(setup, ps, bs))
      /\ (setup.dense \/ InRows(ps))
      /\ c.dense = setup.dense /\ c.height = (IF setup.dense THEN 1 ELSE Lasers)
      /\ c.width = Len(ps) \div c.height
  BY <1>1 DEF CloudSet, CloudOK, Drawn
<1> HIDE DEF c, ps, bs
<1>4. /\ l \in Nat /\ DOMAIN ps = 1 .. l /\ n \in Nat /\ DOMAIN bs = 1 .. n
      /\ \A i \in 1 .. l : ps[i] \in PointSet
      /\ \A k \in 1 .. n : bs[k] \in BlockSet
  BY <1>3, LenProperties, ElementOfSeq
<1>5. Lasers \in Nat /\ Lasers > 0 /\ setup.dense \in BOOLEAN
  BY <1>1, RevolutionAssumption
<1>6. l = c.height * c.width
  <2>1. CASE setup.dense
    <3>1. c.height = 1 /\ c.width = l \div 1
      BY <1>3, <2>1
    <3>2. \A k \in Nat : k \div 1 = k /\ 1 * k = k
      OBVIOUS
    <3>3. l \div 1 = l /\ 1 * l = l
      BY <1>4, <3>2
    <3> QED BY <3>1, <3>3
  <2>2. CASE ~setup.dense
    <3>1. c.height = Lasers /\ c.width = l \div Lasers
      BY <1>3, <2>2
    <3>2. PICK m \in 0 .. l : l = Lasers * m
      BY <1>3, <2>2 DEF InRows
    <3>3. Lasers * m + 0 = l /\ 0 \in 0 .. Lasers - 1 /\ m \in Int
      BY <1>4, <1>5, <3>2
    <3>4. (Lasers * m + 0) \div Lasers = m
      BY <1>5, <3>3, Remainder
    <3> QED BY <3>1, <3>2, <3>3, <3>4
  <2> QED BY <2>1, <2>2
<1>7. \A k \in 1 .. n : bs[k] \in Members(bs)
  BY <1>4 DEF Members
<1>8. \A b \in Members(bs) : \E k \in 1 .. n : b = bs[k]
  BY <1>4 DEF Members
<1> HIDE DEF l, n
<1>9. IF message.dense THEN valid = DOMAIN ps
      ELSE \A i \in DOMAIN ps :
             /\ ps[i].laser = ((i - 1) % Lasers) + 1 /\ message.width = Lasers
             /\ ps[i].fired = ps[i - (ps[i].laser - 1)].fired
  <2>1. CASE setup.dense
    <3>1. ASSUME NEW i \in 1 .. l PROVE ps[i].valid
      <4>1. PICK k \in 1 .. n, chan \in 1 .. Channels :
              ps[i] = Return(setup, bs[k], chan) /\ Keeps(setup, bs[k], chan)
        BY <1>3 DEF FromBlocks, l, n
      <4> QED BY <2>1, <4>1 DEF Keeps
    <3>2. message.dense
      BY <1>2, <1>3, <2>1
    <3> QED BY <1>4, <3>1, <3>2
  <2>2. CASE ~setup.dense
    <3>1. ~message.dense /\ message.width = Lasers
      BY <1>2, <1>3, <2>2
    <3>2. \A i \in 1 .. l : /\ ps[i].laser = ((i - 1) % Lasers) + 1
                            /\ ps[i].fired = ps[i - (ps[i].laser - 1)].fired
      BY <1>3, <2>2 DEF InRows, l
    <3> QED BY <1>4, <3>1, <3>2
  <2> QED BY <2>1, <2>2
<1>10. \A i, j \in valid : ps[i] = ps[j] => i = j
  <2>1. \A i, j \in 1 .. l : Alike(ps[i], ps[j]) => i = j
    BY <1>3 DEF EachOnce, l
  <2>2. \A i, j \in 1 .. l : ps[i] = ps[j] => Alike(ps[i], ps[j])
    BY DEF Alike
  <2> QED BY <1>4, <2>1, <2>2
<1>11. given \subseteq asked
  <2> SUFFICES ASSUME NEW f \in given PROVE f \in asked
    OBVIOUS
  <2>1. PICK i \in valid : f = <<ps[i].fired, ps[i].laser>>
    OBVIOUS
  <2>2. i \in 1 .. l /\ ps[i].valid /\ f \notin off
    BY <1>4
  <2>3. PICK k \in 1 .. n, chan \in 1 .. Channels : ps[i] = Return(setup, bs[k], chan)
    BY <1>3, <2>2 DEF FromBlocks, l, n
  <2>4. f \notin OffScale(bs[k])
    BY <1>7, <2>2
  <2>5. f \in Asked(bs[k])
    BY <1>1, <1>4, <2>1, <2>2, <2>3, <2>4, Asking
  <2> QED BY <1>7, <2>2, <2>5
<1>12. c.cleared \/ given = asked
  <2> SUFFICES ASSUME AllOf(setup, ps, bs), NEW f \in asked PROVE f \in given
    BY <1>3, <1>11
  <2>1. PICK b \in Members(bs) : f \in Asked(b)
    OBVIOUS
  <2>2. PICK k \in 1 .. n : b = bs[k]
    BY <1>8
  <2>3. b \in BlockSet /\ f \in Fired(b) /\ f \notin off /\ f \notin OffScale(b)
    BY <1>4, <2>1, <2>2 DEF Asked
  <2>4. PICK chan \in 1 .. Channels :
          f = <<Return(setup, b, chan).fired, Return(setup, b, chan).laser>>
    BY <1>1, <2>3, ChannelOf
  <2>5. Return(setup, b, chan).valid
    BY <1>1, <2>1, <2>3, <2>4, Asking
  <2>6. PICK i \in 1 .. l : ps[i] = Return(setup, b, chan)
    BY <2>2, <2>5 DEF AllOf, Keeps, l, n
  <2>7. i \in valid /\ f = <<ps[i].fired, ps[i].laser>>
    BY <1>4, <2>4, <2>5, <2>6
  <2> QED BY <2>3, <2>7
<1> HIDE DEF valid
<1>13. l = Len(message.data)
  BY <1>2 DEF l
<1> QED BY <1>2, <1>6, <1>9, <1>10, <1>11, <1>12, <1>13 DEF c, ps, bs, valid

(* What is published is exactly the asked part of its own revolution,        *)
(* whatever was published before it, for every sensor and every setting      *)
(* (decoder_RS16.hpp, section.hpp, ros2_point_cloud_publisher.cpp).          *)
THEOREM PublishesItsTurn == Spec => []MessageOfItsTurn
BY RevolutionsInvariant, MessagesTurn, PTL

=============================================================================
