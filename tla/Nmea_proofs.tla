----------------------------- MODULE Nmea_proofs -----------------------------
(***************************************************************************)
(* What the GPS node makes of NMEA sentences.  NmeaLink, for reports of    *)
(* any number and content, any buffer, delay and skew of the clocks: what  *)
(* is read of a datagram was sent, in its place and at its time.           *)
(* NmeaPipeline, for sentences of every quality and error estimate and for *)
(* runs of every length: what becomes of what was read.                    *)
(***************************************************************************)
EXTENDS NmeaLink, NmeaPipeline, SequenceTheorems, FiniteSetTheorems, WellFoundedInduction, TLAPS

(* A set of naturals has a least element.                                  *)
LEMMA LeastNatural ==
  ASSUME NEW S \in SUBSET Nat, S # {}
  PROVE  \E x \in S : \A y \in S : x <= y
<1> DEFINE R == {ss \in Nat \X Nat : ss[1] < ss[2]}
<1>1. IsWellFoundedOn(R, Nat)
  BY NatLessThanWellFounded, Zenon DEF OpToRel
<1> HIDE DEF R
<1>2. PICK x \in S : \A y \in S : ~(<<y, x>> \in R)
  BY <1>1, WFMin
<1>3. ASSUME NEW y \in S PROVE x <= y
  <2>1. <<y, x>> \notin R
    BY <1>2
  <2>2. x \in Nat /\ y \in Nat /\ ~(y < x)
    BY <2>1 DEF R
  <2> QED BY <2>2
<1> QED BY <1>3

(* What holds at the start and after every step holds all the way.         *)
LEMMA AllTheWay ==
  ASSUME NEW n \in Nat, NEW S, 0 \in S, \A i \in 0 .. n - 1 : i \in S => i + 1 \in S
  PROVE  \A i \in 0 .. n : i \in S
<1> DEFINE Bad == {i \in 0 .. n : i \notin S}
<1> SUFFICES ASSUME Bad # {} PROVE FALSE
  OBVIOUS
<1>1. PICK m \in Bad : \A i \in Bad : m <= i
  <2>1. Bad \in SUBSET Nat
    OBVIOUS
  <2> HIDE DEF Bad
  <2> QED BY <2>1, LeastNatural
<1>2. m \in 0 .. n /\ m # 0 /\ m \notin S
  OBVIOUS
<1>3. m - 1 \in 0 .. n - 1 /\ ~(m <= m - 1) /\ (m - 1) + 1 = m
  BY <1>2
<1>4. m - 1 \in S
  BY <1>1, <1>3
<1> QED BY <1>2, <1>3, <1>4

(* The least of a set of naturals is in it and under the others.           *)
LEMMA MinOf ==
  ASSUME NEW n \in Nat, NEW S \in SUBSET (1 .. n), S # {}
  PROVE  Min(S) \in S /\ \A y \in S : Min(S) <= y
<1>1. \E x \in S : \A y \in S : x <= y
  BY LeastNatural
<1> QED BY <1>1 DEF Min

(* The greatest of a finite set of naturals is in it and over the others.  *)
LEMMA MaxOf ==
  ASSUME NEW n \in Nat, NEW S \in SUBSET (1 .. n), S # {}
  PROVE  Max(S) \in S /\ \A y \in S : Max(S) >= y
<1> DEFINE Far == {n - x : x \in S}
<1>1. PICK z \in Far : \A y \in Far : z <= y
  <2>1. Far \in SUBSET Nat /\ Far # {}
    <3>1. \A x \in S : n - x \in Nat
      OBVIOUS
    <3> QED BY <3>1
  <2> HIDE DEF Far
  <2> QED BY <2>1, LeastNatural
<1>2. \E x \in S : \A y \in S : x >= y
  <2>1. PICK x \in S : z = n - x
    OBVIOUS
  <2>2. ASSUME NEW y \in S PROVE x >= y
    <3>1. n - x <= n - y
      BY <1>1, <2>1
    <3> QED BY <3>1
  <2> QED BY <2>2
<1> QED BY <1>2 DEF Max

-----------------------------------------------------------------------------
(* Searching.                                                              *)
Found(c, s, from, p) ==
  /\ p \in from .. Len(s) + 1
  /\ p <= Len(s) => s[p] = c
  /\ \A q \in from .. p - 1 : s[q] # c

(* find returns the first place of c, and the place past the end without one. *)
LEMMA FindFacts ==
  ASSUME NEW s \in Seq(Nat), NEW c, NEW from \in Nat \ {0}
  PROVE  /\ Find(c, s, from) \in 1 .. Len(s) + 1
         /\ from > Len(s) => Find(c, s, from) = Len(s) + 1
         /\ from <= Len(s) + 1 => Found(c, s, from, Find(c, s, from))
<1> DEFINE at == {p \in from .. Len(s) : s[p] = c}
<1>1. Len(s) \in Nat
  BY LenProperties
<1>2. CASE at = {}
  <2>1. Find(c, s, from) = Len(s) + 1
    BY <1>2 DEF Find
  <2> QED BY <1>1, <1>2, <2>1 DEF Found
<1>3. CASE at # {}
  <2>1. at \in SUBSET (1 .. Len(s))
    BY <1>1
  <2>2. Find(c, s, from) = Min(at)
    BY <1>3 DEF Find
  <2>3. Min(at) \in at /\ \A y \in at : Min(at) <= y
    <3> HIDE DEF at
    <3> QED BY <1>1, <1>3, <2>1, MinOf
  <2> DEFINE p == Min(at)
  <2>4. p \in from .. Len(s) /\ s[p] = c
    BY <2>3
  <2>5. \A q \in from .. p - 1 : s[q] # c
    <3> SUFFICES ASSUME NEW q \in from .. p - 1, s[q] = c PROVE FALSE
      OBVIOUS
    <3>1. q \in at /\ ~(p <= q)
      BY <1>1, <2>4
    <3> QED BY <2>3, <3>1
  <2> HIDE DEF p
  <2>6. Found(c, s, from, p)
    BY <1>1, <2>4, <2>5 DEF Found
  <2> QED BY <1>1, <2>2, <2>4, <2>6 DEF p
<1> QED BY <1>2, <1>3

(* There is only one first place.                                          *)
LEMMA FindIs ==
  ASSUME NEW s \in Seq(Nat), NEW c, NEW from \in Nat \ {0}, NEW p \in Nat, Found(c, s, from, p)
  PROVE  Find(c, s, from) = p
<1>1. Len(s) \in Nat /\ p \in from .. Len(s) + 1
  BY LenProperties DEF Found
<1>2. Found(c, s, from, Find(c, s, from)) /\ Find(c, s, from) \in 1 .. Len(s) + 1
  BY <1>1, FindFacts
<1> QED BY <1>1, <1>2 DEF Found

(* Trimming.                                                               *)
Inked(s, x, y) ==
  /\ x \in 1 .. Len(s) /\ y \in x .. Len(s) /\ s[x] \notin Blanks /\ s[y] \notin Blanks
  /\ \A p \in 1 .. x - 1 : s[p] \in Blanks
  /\ \A p \in y + 1 .. Len(s) : s[p] \in Blanks

(* Trimmed, a text is nothing or runs from its first to its last ink.      *)
LEMMA TrimFacts ==
  ASSUME NEW s \in Seq(Nat)
  PROVE  \/ Trim(s) = <<>> /\ \A p \in 1 .. Len(s) : s[p] \in Blanks
         \/ \E x, y \in 1 .. Len(s) : Inked(s, x, y) /\ Trim(s) = SubSeq(s, x, y)
<1> DEFINE ink == {i \in DOMAIN s : s[i] \notin Blanks}
<1>1. Len(s) \in Nat /\ DOMAIN s = 1 .. Len(s)
  BY LenProperties
<1>2. CASE ink = {}
  BY <1>1, <1>2 DEF Trim
<1>3. CASE ink # {}
  <2>1. ink \in SUBSET (1 .. Len(s))
    BY <1>1
  <2>2. Trim(s) = SubSeq(s, Min(ink), Max(ink))
    BY <1>3 DEF Trim
  <2>3. /\ Min(ink) \in ink /\ \A y \in ink : Min(ink) <= y
        /\ Max(ink) \in ink /\ \A y \in ink : Max(ink) >= y
    <3> HIDE DEF ink
    <3> QED BY <1>1, <1>3, <2>1, MinOf, MaxOf
  <2> DEFINE x == Min(ink)  y == Max(ink)
  <2>4. x \in 1 .. Len(s) /\ y \in x .. Len(s) /\ s[x] \notin Blanks /\ s[y] \notin Blanks
    BY <1>1, <2>3
  <2>5. ASSUME NEW p \in 1 .. x - 1 PROVE s[p] \in Blanks
    <3>1. p \in 1 .. Len(s) /\ ~(x <= p)
      BY <1>1, <2>4
    <3> QED BY <1>1, <2>3, <3>1
  <2>6. ASSUME NEW p \in y + 1 .. Len(s) PROVE s[p] \in Blanks
    <3>1. p \in 1 .. Len(s) /\ ~(y >= p)
      BY <1>1, <2>4
    <3> QED BY <1>1, <2>3, <3>1
  <2>7. Inked(s, x, y) /\ x \in 1 .. Len(s) /\ y \in 1 .. Len(s)
    BY <1>1, <2>4, <2>5, <2>6 DEF Inked
  <2> QED BY <2>2, <2>7
<1> QED BY <1>2, <1>3

(* The ends of the ink are unique.                                         *)
LEMMA TrimIs ==
  ASSUME NEW s \in Seq(Nat), NEW x, NEW y, Inked(s, x, y)
  PROVE  Trim(s) = SubSeq(s, x, y)
<1>1. Len(s) \in Nat /\ x \in 1 .. Len(s) /\ y \in x .. Len(s) /\ s[x] \notin Blanks
  BY LenProperties DEF Inked
<1>2. PICK u, v \in 1 .. Len(s) : Inked(s, u, v) /\ Trim(s) = SubSeq(s, u, v)
  BY <1>1, TrimFacts
<1>3. x = u
  BY <1>1, <1>2, SMTT(30) DEF Inked
<1>4. y = v
  BY <1>1, <1>2, SMTT(30) DEF Inked
<1> QED BY <1>2, <1>3, <1>4

-----------------------------------------------------------------------------
(* A function on the first naturals that takes a step from one to the next *)
(* exists.                                                                 *)
Steps(n, S) == [1 .. n -> [S -> S]]
StepsOf(f, n, S, first, step) ==
  f \in [0 .. n -> S] /\ f[0] = first /\ \A i \in 1 .. n : f[i] = step[i][f[i - 1]]

(* Such a function exists, for steps that stay in S.                       *)
LEMMA Recursion ==
  ASSUME NEW n \in Nat, NEW S, NEW first \in S, NEW step \in Steps(n, S)
  PROVE  \E f : StepsOf(f, n, S, first, step)
<1> USE DEF Steps, StepsOf
<1> DEFINE Taken(f, m) == f[0] = first /\ \A i \in 1 .. m : f[i] = step[i][f[i - 1]]
           Sofar == {m \in 0 .. n : \E f \in [0 .. m -> S] : Taken(f, m)}
<1>1. 0 \in Sofar
  <2> DEFINE f == [i \in 0 .. 0 |-> first]
  <2>1. f \in [0 .. 0 -> S] /\ Taken(f, 0)
    OBVIOUS
  <2>2. 0 \in 0 .. n
    OBVIOUS
  <2> HIDE DEF f, Taken
  <2> QED BY <2>1, <2>2
<1>2. ASSUME NEW m \in 0 .. n - 1, m \in Sofar PROVE m + 1 \in Sofar
  <2>1. PICK f \in [0 .. m -> S] : Taken(f, m)
    BY <1>2
  <2> DEFINE g == [i \in 0 .. m + 1 |-> IF i = m + 1 THEN step[m + 1][f[m]] ELSE f[i]]
  <2>2. m + 1 \in 1 .. n /\ m + 1 \in 0 .. n /\ m \in Nat /\ m \in 0 .. m
    OBVIOUS
  <2>3. step[m + 1][f[m]] \in S
    BY <2>2
  <2>4. \A i \in 0 .. m : g[i] = f[i] /\ f[i] \in S
    BY <2>2
  <2>5. g[m + 1] = step[m + 1][f[m]]
    BY <2>2
  <2>6. g \in [0 .. m + 1 -> S]
    BY <2>2, <2>3
  <2> HIDE DEF g
  <2>7. ASSUME NEW i \in 1 .. m + 1 PROVE g[i] = step[i][g[i - 1]]
    <3>1. CASE i = m + 1
      <4>1. i - 1 = m
        BY <2>2, <3>1
      <4> QED BY <2>2, <2>4, <2>5, <3>1, <4>1
    <3>2. CASE i # m + 1
      <4>1. i \in 1 .. m /\ i \in 0 .. m /\ i - 1 \in 0 .. m
        BY <2>2, <3>2
      <4>2. f[i] = step[i][f[i - 1]]
        BY <2>1, <4>1
      <4> QED BY <2>4, <4>1, <4>2
    <3> QED BY <3>1, <3>2
  <2>8. g[0] = first
    BY <2>1, <2>2, <2>4
  <2>9. Taken(g, m + 1)
    BY <2>7, <2>8
  <2> QED BY <2>2, <2>6, <2>9
<1>3. n \in Sofar
  <2>1. \A m \in 0 .. n : m \in Sofar
    <3> HIDE DEF Sofar
    <3> QED BY <1>1, <1>2, AllTheWay
  <2> QED BY <2>1
<1> QED BY <1>3

(* All of its values are where the steps stay.                             *)
LEMMA StepsStay ==
  ASSUME NEW n \in Nat, NEW S, NEW first \in S, NEW step \in Steps(n, S), NEW f,
         f = [i \in 0 .. n |-> f[i]], f[0] = first,
         \A i \in 1 .. n : f[i - 1] \in S => f[i] = step[i][f[i - 1]]
  PROVE  StepsOf(f, n, S, first, step)
<1> DEFINE OK == {i \in 0 .. n : f[i] \in S}
<1>1. 0 \in OK
  OBVIOUS
<1>2. ASSUME NEW i \in 0 .. n - 1, i \in OK PROVE i + 1 \in OK
  <2>1. i + 1 \in 1 .. n /\ i + 1 \in 0 .. n /\ (i + 1) - 1 = i
    OBVIOUS
  <2>2. step[i + 1][f[i]] \in S
    BY <1>2, <2>1 DEF Steps
  <2> QED BY <1>2, <2>1, <2>2
<1>3. \A i \in 0 .. n : f[i] \in S
  <2> HIDE DEF OK
  <2>1. \A i \in 0 .. n : i \in OK
    BY <1>1, <1>2, AllTheWay
  <2> QED BY <2>1 DEF OK
<1>4. \A i \in 1 .. n : i - 1 \in 0 .. n
  OBVIOUS
<1>5. f \in [0 .. n -> S]
  BY <1>3
<1> QED BY <1>3, <1>4, <1>5 DEF StepsOf

-----------------------------------------------------------------------------
(* Bits.                                                                   *)
LEMMA Powers ==
  /\ 2^0 = 1 /\ 2^1 = 2 /\ 2^2 = 4 /\ 2^3 = 8
  /\ 2^4 = 16 /\ 2^5 = 32 /\ 2^6 = 64 /\ 2^7 = 128
OBVIOUS

(* The bits of a byte by division.                                         *)
LEMMA EightBits ==
  ASSUME NEW n \in Nat
  PROVE  /\ Bit(n, 0) <=> n % 2 = 1
         /\ Bit(n, 1) <=> (n \div 2) % 2 = 1
         /\ Bit(n, 2) <=> (n \div 4) % 2 = 1
         /\ Bit(n, 3) <=> (n \div 8) % 2 = 1
         /\ Bit(n, 4) <=> (n \div 16) % 2 = 1
         /\ Bit(n, 5) <=> (n \div 32) % 2 = 1
         /\ Bit(n, 6) <=> (n \div 64) % 2 = 1
         /\ Bit(n, 7) <=> (n \div 128) % 2 = 1
BY Powers DEF Bit

(* A number is its half and its lowest bit.                                *)
LEMMA Halves ==
  ASSUME NEW a \in Nat, NEW c \in Nat, a \div 2 = c \div 2, (a % 2 = 1) <=> (c % 2 = 1)
  PROVE  a = c
<1>1. /\ a = (2 * (a \div 2)) + (a % 2) /\ c = (2 * (c \div 2)) + (c % 2)
      /\ a % 2 \in {0, 1} /\ c % 2 \in {0, 1}
  OBVIOUS
<1> QED BY <1>1

(* Bytes with the same bits are the same.                                  *)
LEMMA LowBits ==
  ASSUME NEW a \in 0 .. 255, NEW c \in 0 .. 255, \A b \in 0 .. 7 : Bit(a, b) <=> Bit(c, b)
  PROVE  a = c
<1>1. a \in Nat /\ c \in Nat
  OBVIOUS
<1>2. /\ (a % 2 = 1) <=> (c % 2 = 1)
      /\ ((a \div 2) % 2 = 1) <=> ((c \div 2) % 2 = 1)
      /\ ((a \div 4) % 2 = 1) <=> ((c \div 4) % 2 = 1)
      /\ ((a \div 8) % 2 = 1) <=> ((c \div 8) % 2 = 1)
      /\ ((a \div 16) % 2 = 1) <=> ((c \div 16) % 2 = 1)
      /\ ((a \div 32) % 2 = 1) <=> ((c \div 32) % 2 = 1)
      /\ ((a \div 64) % 2 = 1) <=> ((c \div 64) % 2 = 1)
      /\ ((a \div 128) % 2 = 1) <=> ((c \div 128) % 2 = 1)
  BY <1>1, EightBits
<1>3. \A n \in Nat :
        /\ (n \div 2) \div 2 = n \div 4 /\ (n \div 4) \div 2 = n \div 8
        /\ (n \div 8) \div 2 = n \div 16 /\ (n \div 16) \div 2 = n \div 32
        /\ (n \div 32) \div 2 = n \div 64 /\ (n \div 64) \div 2 = n \div 128
        /\ {n \div 2, n \div 4, n \div 8, n \div 16, n \div 32, n \div 64, n \div 128} \subseteq Nat
  OBVIOUS
<1>4. a \div 128 \in {0, 1} /\ c \div 128 \in {0, 1}
  OBVIOUS
<1>5. a \div 128 = c \div 128
  BY <1>2, <1>4
<1>6. a \div 64 = c \div 64
  BY <1>1, <1>2, <1>3, <1>5, Halves
<1>7. a \div 32 = c \div 32
  BY <1>1, <1>2, <1>3, <1>6, Halves
<1>8. a \div 16 = c \div 16
  BY <1>1, <1>2, <1>3, <1>7, Halves
<1>9. a \div 8 = c \div 8
  BY <1>1, <1>2, <1>3, <1>8, Halves
<1>10. a \div 4 = c \div 4
  BY <1>1, <1>2, <1>3, <1>9, Halves
<1>11. a \div 2 = c \div 2
  BY <1>1, <1>2, <1>3, <1>10, Halves
<1> QED BY <1>1, <1>2, <1>11, Halves

(* A checksum for every set of bits.                                       *)
LEMMA SomeByte ==
  ASSUME NEW B
  PROVE  \E n \in 0 .. 255 : BitsOf(n) = B \cap (0 .. 7)
<1> DEFINE x(b) == IF b \in B THEN 1 ELSE 0
           n == x(0) + 2 * x(1) + 4 * x(2) + 8 * x(3) + 16 * x(4) + 32 * x(5) + 64 * x(6) + 128 * x(7)
<1>1. \A b \in 0 .. 7 : x(b) \in {0, 1} /\ (x(b) = 1 <=> b \in B)
  OBVIOUS
<1> HIDE DEF x
<1>2. /\ x(0) \in {0, 1} /\ x(1) \in {0, 1} /\ x(2) \in {0, 1} /\ x(3) \in {0, 1}
      /\ x(4) \in {0, 1} /\ x(5) \in {0, 1} /\ x(6) \in {0, 1} /\ x(7) \in {0, 1}
  BY <1>1
<1>3. \A c0, c1, c2, c3, c4, c5, c6, c7 \in {0, 1} :
        LET k == c0 + 2 * c1 + 4 * c2 + 8 * c3 + 16 * c4 + 32 * c5 + 64 * c6 + 128 * c7 IN
        /\ k \in 0 .. 255 /\ k % 2 = c0 /\ (k \div 2) % 2 = c1 /\ (k \div 4) % 2 = c2
        /\ (k \div 8) % 2 = c3 /\ (k \div 16) % 2 = c4 /\ (k \div 32) % 2 = c5
        /\ (k \div 64) % 2 = c6 /\ (k \div 128) % 2 = c7
  OBVIOUS
<1>4. /\ n \in 0 .. 255 /\ n % 2 = x(0) /\ (n \div 2) % 2 = x(1) /\ (n \div 4) % 2 = x(2)
      /\ (n \div 8) % 2 = x(3) /\ (n \div 16) % 2 = x(4) /\ (n \div 32) % 2 = x(5)
      /\ (n \div 64) % 2 = x(6) /\ (n \div 128) % 2 = x(7)
  BY <1>2, <1>3
<1> HIDE DEF n
<1>5. n \in Nat
  BY <1>4
<1>6. ASSUME NEW b \in 0 .. 7 PROVE Bit(n, b) <=> b \in B
  <2>1. b \in {0, 1, 2, 3, 4, 5, 6, 7}
    OBVIOUS
  <2> QED BY <1>1, <1>4, <1>5, <2>1, EightBits
<1>7. BitsOf(n) = B \cap (0 .. 7)
  BY <1>6, SMTT(30) DEF BitsOf
<1> QED BY <1>4, <1>7

(* The checksum sent is the byte with the bits of the XOR.                 *)
LEMMA SumFacts ==
  ASSUME NEW s
  PROVE  Sum(s) \in 0 .. 255 /\ BitsOf(Sum(s)) = Xor(s)
<1>1. Xor(s) \cap (0 .. 7) = Xor(s)
  BY DEF Xor
<1>2. \E n \in 0 .. 255 : BitsOf(n) = Xor(s)
  BY <1>1, SomeByte, ZenonT(60)
<1> QED BY <1>2 DEF Sum

(* One character of a text changed changes the XOR of the text.            *)
LEMMA XorChange ==
  ASSUME NEW s \in Seq(Nat), NEW u \in Seq(Nat), Len(s) = Len(u), NEW p \in 1 .. Len(s),
         s[p] \in 0 .. 255, u[p] \in 0 .. 255, s[p] # u[p],
         \A q \in 1 .. Len(s) : q # p => s[q] = u[q]
  PROVE  Xor(s) # Xor(u)
<1>1. PICK b \in 0 .. 7 : ~(Bit(s[p], b) <=> Bit(u[p], b))
  BY LowBits, ZenonT(60)
<1> DEFINE N == Len(s)
           Of(v) == {i \in 1 .. N : Bit(v[i], b)}
           Odd(v) == Cardinality(Of(v)) % 2 = 1
<1>2. N \in Nat /\ DOMAIN s = 1 .. N /\ DOMAIN u = 1 .. N
  BY LenProperties
<1>3. (b \in Xor(s) <=> Odd(s)) /\ (b \in Xor(u) <=> Odd(u))
  BY <1>2 DEF Xor
<1>4. \A v : IsFiniteSet(Of(v)) /\ Cardinality(Of(v)) \in Nat
  <2>1. IsFiniteSet(1 .. N)
    BY <1>2, FS_Interval
  <2>2. \A v : Of(v) \subseteq 1 .. N
    OBVIOUS
  <2> HIDE DEF Of, N
  <2>3. \A v : IsFiniteSet(Of(v))
    BY <2>1, <2>2, FS_Subset
  <2> QED BY <2>3, FS_CardinalityType
<1>5. ASSUME NEW v, NEW w, p \notin Of(v), Of(w) = Of(v) \cup {p} PROVE Odd(v) # Odd(w)
  <2>1. Cardinality(Of(w)) = Cardinality(Of(v)) + 1
    <3> HIDE DEF Of
    <3> QED BY <1>4, <1>5, FS_AddElement, ZenonT(60)
  <2>2. \A c \in Nat : (c % 2 = 1) # ((c + 1) % 2 = 1)
    BY SMTT(30)
  <2> HIDE DEF Of
  <2> QED BY <1>4, <2>1, <2>2
<1>6. CASE Bit(u[p], b)
  <2>1. p \notin Of(s) /\ Of(u) = Of(s) \cup {p}
    BY <1>1, <1>6
  <2> QED BY <1>3, <1>5, <2>1, SMTT(30)
<1>7. CASE ~Bit(u[p], b)
  <2>1. p \notin Of(u) /\ Of(s) = Of(u) \cup {p}
    BY <1>1, <1>7
  <2> QED BY <1>3, <1>5, <2>1, ZenonT(60)
<1> QED BY <1>6, <1>7

(* A hexadecimal digit is read as it was written.                          *)
LEMMA HexFacts ==
  ASSUME NEW n \in 0 .. 15
  PROVE  HexText(n) \in HexDigits /\ HexText(n) \in Nat /\ HexValue(HexText(n)) = n
<1>1. CASE n < 10
  BY <1>1 DEF HexText, HexDigits, HexValue, Digits
<1>2. CASE n >= 10
  BY <1>2 DEF HexText, HexDigits, HexValue, Digits
<1> QED BY <1>1, <1>2

(* Hexadecimal digits are neither a star nor blank.                        *)
LEMMA NotHex ==
  /\ HexDigits \subseteq Nat /\ Star \notin HexDigits /\ HexDigits \cap Blanks = {}
  /\ \A c \in HexDigits : c \in 0 .. 255
BY DEF HexDigits, Digits, Star, Blanks, LF, CR

-----------------------------------------------------------------------------
(* The steps of a recursive function, once it is known to exist.           *)
LEMMA BodySteps ==
  ASSUME NEW report, report.fields \in Seq(Seq(Nat)), report.talker \in Nat, report.type \in Nat,
         NEW t, ClockText(t) \in Seq(Nat)
  PROVE  \E body \in [0 .. Len(report.fields) -> Seq(Nat)] :
           /\ body[0] = <<report.talker, report.type>>
           /\ \A i \in 1 .. Len(report.fields) :
                body[i] = body[i - 1] \o <<Comma>> \o FieldText(report.fields[i], ClockText(t))
           /\ Body(report, t) = body[Len(report.fields)]
<1> DEFINE n == Len(report.fields)
           first == <<report.talker, report.type>>
           F(i) == FieldText(report.fields[i], ClockText(t))
           G(i, v) == v \o <<Comma>> \o F(i)
           step == [i \in 1 .. n |-> [v \in Seq(Nat) |-> G(i, v)]]
           IsBody(f) == f = [i \in 0 .. n |-> IF i = 0 THEN first ELSE G(i, f[i - 1])]
           body == CHOOSE f : IsBody(f)
<1>1. n \in Nat /\ DOMAIN report.fields = 1 .. n
  BY LenProperties
<1>2. \A i \in 1 .. n : F(i) \in Seq(Nat)
  <2>1. \A i \in 1 .. n : report.fields[i] \in Seq(Nat)
    BY <1>1, ElementOfSeq
  <2> QED BY <2>1 DEF FieldText
<1>3. Body(report, t) = body[n]
  BY DEF Body
<1>4. first \in Seq(Nat) /\ <<Comma>> \in Seq(Nat)
  BY DEF Comma
<1>5. \A i \in 1 .. n, v \in Seq(Nat) : G(i, v) \in Seq(Nat)
  <2> HIDE DEF F
  <2> QED BY <1>2, <1>4, ConcatProperties
<1> HIDE DEF n, first, F, G
<1>6. PICK f : StepsOf(f, n, Seq(Nat), first, step)
  <2>1. step \in Steps(n, Seq(Nat))
    BY <1>5 DEF Steps
  <2> HIDE DEF step
  <2> QED BY <1>1, <1>4, <2>1, Recursion
<1>7. f \in [0 .. n -> Seq(Nat)] /\ f[0] = first
  BY <1>6 DEF StepsOf
<1>8. ASSUME NEW i \in 1 .. n PROVE f[i] = G(i, f[i - 1])
  <2>1. i - 1 \in 0 .. n
    BY <1>1
  <2>2. f[i - 1] \in Seq(Nat)
    BY <1>7, <2>1
  <2> QED BY <1>6, <2>2 DEF StepsOf
<1>9. IsBody(body)
  <2>1. IsBody(f)
    BY <1>7, <1>8
  <2> HIDE DEF IsBody
  <2> QED BY <2>1
<1> HIDE DEF body
<1>10. body[0] = first /\ \A i \in 1 .. n : body[i] = G(i, body[i - 1])
  BY <1>1, <1>9
<1>11. StepsOf(body, n, Seq(Nat), first, step)
  <2>1. body = [i \in 0 .. n |-> body[i]]
    BY <1>9
  <2>2. step \in Steps(n, Seq(Nat))
    BY <1>5 DEF Steps
  <2>3. \A i \in 1 .. n : body[i - 1] \in Seq(Nat) => body[i] = step[i][body[i - 1]]
    BY <1>10
  <2>4. 0 \in 0 .. n /\ body[0] = first
    BY <1>1, <1>10
  <2> HIDE DEF step
  <2> QED BY <1>1, <1>4, <2>1, <2>2, <2>3, <2>4, StepsStay
<1>12. body \in [0 .. n -> Seq(Nat)]
  BY <1>11 DEF StepsOf
<1> QED BY <1>3, <1>10, <1>12 DEF n, first, F, G

(* The same for the starts of the fields of a sentence ...                 *)
LEMMA FieldSteps ==
  ASSUME NEW s \in Seq(Nat), NEW n \in Nat
  PROVE  \E start \in [0 .. n -> Nat \ {0}] :
           /\ start[0] = 1
           /\ \A k \in 1 .. n : start[k] = Find(Comma, s, start[k - 1]) + 1
           /\ Field(s, n) = SubSeq(s, start[n], Find(Comma, s, start[n]) - 1)
<1> DEFINE G(v) == Find(Comma, s, v) + 1
           S == Nat \ {0}
           step == [k \in 1 .. n |-> [v \in S |-> G(v)]]
           IsStart(f) == f = [k \in 0 .. n |-> IF k = 0 THEN 1 ELSE G(f[k - 1])]
           start == CHOOSE f : IsStart(f)
<1>1. Field(s, n) = SubSeq(s, start[n], Find(Comma, s, start[n]) - 1)
  BY DEF Field
<1>2. 1 \in S /\ \A v \in S : G(v) \in S
  <2>1. ASSUME NEW v \in S PROVE G(v) \in S
    <3>1. Len(s) \in Nat /\ Find(Comma, s, v) \in 1 .. Len(s) + 1
      BY FindFacts, LenProperties
    <3> QED BY <3>1
  <2> QED BY <2>1
<1> HIDE DEF G, S
<1>3. step \in Steps(n, S)
  BY <1>2 DEF Steps
<1>4. PICK f : StepsOf(f, n, S, 1, step)
  <2> HIDE DEF step
  <2> QED BY <1>2, <1>3, Recursion
<1>5. IsStart(start)
  <2>1. f \in [0 .. n -> S] /\ f[0] = 1
    BY <1>4 DEF StepsOf
  <2>2. ASSUME NEW k \in 1 .. n PROVE f[k] = G(f[k - 1])
    <3>1. f[k - 1] \in S
      BY <2>1
    <3> QED BY <1>4, <3>1 DEF StepsOf
  <2>3. IsStart(f)
    BY <2>1, <2>2
  <2> HIDE DEF IsStart
  <2> QED BY <2>3
<1> HIDE DEF start
<1>6. start[0] = 1 /\ \A k \in 1 .. n : start[k] = G(start[k - 1])
  BY <1>5
<1>7. StepsOf(start, n, S, 1, step)
  <2>1. start = [k \in 0 .. n |-> start[k]]
    BY <1>5
  <2>2. \A k \in 1 .. n : start[k - 1] \in S => start[k] = step[k][start[k - 1]]
    BY <1>6
  <2> HIDE DEF step
  <2> QED BY <1>2, <1>3, <1>6, <2>1, <2>2, StepsStay
<1>8. start \in [0 .. n -> S]
  BY <1>7 DEF StepsOf
<1> QED BY <1>1, <1>6, <1>8 DEF G, S

(* ... and for the lines of a datagram.                                    *)
LEMMA LinesSteps ==
  ASSUME NEW reports, Len(reports) \in Nat, NEW t,
         \A i \in 1 .. Len(reports) : Sentence(reports[i], t) \in Seq(Nat)
  PROVE  /\ Lines(reports, t) \in [0 .. Len(reports) -> Seq(Nat)]
         /\ Lines(reports, t)[0] = <<>>
         /\ \A i \in 1 .. Len(reports) :
              Lines(reports, t)[i] = Lines(reports, t)[i - 1] \o Sentence(reports[i], t) \o <<CR, LF>>
<1> DEFINE n == Len(reports)
           G(i, v) == v \o Sentence(reports[i], t) \o <<CR, LF>>
           step == [i \in 1 .. n |-> [v \in Seq(Nat) |-> G(i, v)]]
           IsLines(f) == f = [i \in 0 .. n |-> IF i = 0 THEN <<>> ELSE G(i, f[i - 1])]
           lines == CHOOSE f : IsLines(f)
<1>1. n \in Nat
  OBVIOUS
<1>2. Lines(reports, t) = lines
  BY DEF Lines
<1>3. <<>> \in Seq(Nat) /\ <<CR, LF>> \in Seq(Nat)
  BY DEF CR, LF
<1>4. \A i \in 1 .. n, v \in Seq(Nat) : G(i, v) \in Seq(Nat)
  <2>1. ASSUME NEW i \in 1 .. n, NEW v \in Seq(Nat) PROVE G(i, v) \in Seq(Nat)
    <3>1. Sentence(reports[i], t) \in Seq(Nat)
      OBVIOUS
    <3> QED BY <1>3, <3>1, ConcatProperties
  <2> QED BY <2>1
<1> HIDE DEF n, G
<1>5. step \in Steps(n, Seq(Nat))
  BY <1>4 DEF Steps
<1>6. PICK f : StepsOf(f, n, Seq(Nat), <<>>, step)
  <2> HIDE DEF step
  <2> QED BY <1>1, <1>3, <1>5, Recursion
<1>7. IsLines(lines)
  <2>1. f \in [0 .. n -> Seq(Nat)] /\ f[0] = <<>>
    BY <1>6 DEF StepsOf
  <2>2. ASSUME NEW i \in 1 .. n PROVE f[i] = G(i, f[i - 1])
    <3>1. f[i - 1] \in Seq(Nat)
      BY <1>1, <2>1
    <3> QED BY <1>6, <3>1 DEF StepsOf
  <2>3. IsLines(f)
    BY <2>1, <2>2
  <2> HIDE DEF IsLines
  <2> QED BY <2>3
<1> HIDE DEF lines
<1>8. lines[0] = <<>> /\ \A i \in 1 .. n : lines[i] = G(i, lines[i - 1])
  BY <1>1, <1>7
<1>9. StepsOf(lines, n, Seq(Nat), <<>>, step)
  <2>1. lines = [i \in 0 .. n |-> lines[i]]
    BY <1>7
  <2>2. \A i \in 1 .. n : lines[i - 1] \in Seq(Nat) => lines[i] = step[i][lines[i - 1]]
    BY <1>8
  <2> HIDE DEF step
  <2> QED BY <1>3, <1>5, <1>8, <2>1, <2>2, <1>1, StepsStay
<1>10. lines \in [0 .. n -> Seq(Nat)]
  BY <1>9 DEF StepsOf
<1> QED BY <1>2, <1>8, <1>10 DEF n, G

-----------------------------------------------------------------------------
(* The text of a report.                                                   *)
LEMMA ClockSplit ==
  ASSUME NEW t \in Nat
  PROVE  /\ Hours(t) \in 0 .. 23 /\ Minutes(t) \in 0 .. 59 /\ Seconds(t) \in 0 .. 59
         /\ TimeOfDay(t) = (3600 * Hours(t)) + (60 * Minutes(t)) + Seconds(t)
<1> DEFINE tod == TimeOfDay(t)  q == tod \div 60
<1>1. tod \in Nat /\ tod < 86400
  BY DEF TimeOfDay, Day
<1> HIDE DEF tod
<1>2. q \in Nat /\ tod % 60 \in 0 .. 59 /\ tod = (60 * q) + (tod % 60) /\ tod \div 3600 = q \div 60
  BY <1>1
<1> HIDE DEF q
<1>3. q \div 60 \in 0 .. 23 /\ q % 60 \in 0 .. 59 /\ q = (60 * (q \div 60)) + (q % 60)
  BY <1>1, <1>2
<1>4. tod = (3600 * (q \div 60)) + (60 * (q % 60)) + (tod % 60)
  BY <1>1, <1>2, <1>3
<1>5. Hours(t) = q \div 60 /\ Minutes(t) = q % 60 /\ Seconds(t) = tod % 60
  BY <1>2 DEF Hours, Minutes, Seconds, tod, q
<1> QED BY <1>2, <1>3, <1>4, <1>5 DEF tod

(* Numbers under a hundred take two digits.                                *)
LEMMA TwoDigitsFacts ==
  ASSUME NEW n \in 0 .. 59
  PROVE  /\ TwoDigits(n) \in Seq(Digits) /\ Len(TwoDigits(n)) = 2
         /\ TwoDigits(n)[1] = 48 + (n \div 10) /\ TwoDigits(n)[2] = 48 + (n % 10)
<1>1. 48 + (n \div 10) \in Digits /\ 48 + (n % 10) \in Digits
  BY DEF Digits
<1> HIDE DEF Digits
<1> QED BY <1>1 DEF TwoDigits

(* A time of day is written as six digits.                                 *)
LEMMA ClockFacts ==
  ASSUME NEW t \in Nat
  PROVE  /\ ClockText(t) \in Seq(Digits) /\ Len(ClockText(t)) = 6
         /\ ClockText(t)[1] = 48 + (Hours(t) \div 10) /\ ClockText(t)[2] = 48 + (Hours(t) % 10)
         /\ ClockText(t)[3] = 48 + (Minutes(t) \div 10) /\ ClockText(t)[4] = 48 + (Minutes(t) % 10)
         /\ ClockText(t)[5] = 48 + (Seconds(t) \div 10) /\ ClockText(t)[6] = 48 + (Seconds(t) % 10)
<1> DEFINE hh == TwoDigits(Hours(t))  mm == TwoDigits(Minutes(t))  ss == TwoDigits(Seconds(t))
<1>1. Hours(t) \in 0 .. 59 /\ Minutes(t) \in 0 .. 59 /\ Seconds(t) \in 0 .. 59
  BY ClockSplit
<1>2. /\ hh \in Seq(Digits) /\ mm \in Seq(Digits) /\ ss \in Seq(Digits)
      /\ Len(hh) = 2 /\ Len(mm) = 2 /\ Len(ss) = 2
  BY <1>1, TwoDigitsFacts
<1>3. /\ hh[1] = 48 + (Hours(t) \div 10) /\ hh[2] = 48 + (Hours(t) % 10)
      /\ mm[1] = 48 + (Minutes(t) \div 10) /\ mm[2] = 48 + (Minutes(t) % 10)
      /\ ss[1] = 48 + (Seconds(t) \div 10) /\ ss[2] = 48 + (Seconds(t) % 10)
  BY <1>1, TwoDigitsFacts
<1>4. ClockText(t) = hh \o mm \o ss
  BY DEF ClockText
<1> HIDE DEF hh, mm, ss
<1>5. /\ hh \o mm \in Seq(Digits) /\ Len(hh \o mm) = Len(hh) + Len(mm)
      /\ \A i \in 1 .. Len(hh) + Len(mm) :
           (hh \o mm)[i] = IF i <= Len(hh) THEN hh[i] ELSE mm[i - Len(hh)]
  BY <1>2, ConcatProperties
<1> DEFINE hm == hh \o mm
<1>6. hm \in Seq(Digits) /\ Len(hm) = 4 /\ \A i \in 1 .. 4 : hm[i] = IF i <= 2 THEN hh[i] ELSE mm[i - 2]
  BY <1>2, <1>5
<1> HIDE DEF hm
<1>7. /\ hm \o ss \in Seq(Digits) /\ Len(hm \o ss) = Len(hm) + Len(ss)
      /\ \A i \in 1 .. Len(hm) + Len(ss) :
           (hm \o ss)[i] = IF i <= Len(hm) THEN hm[i] ELSE ss[i - Len(hm)]
  BY <1>2, <1>6, ConcatProperties
<1> DEFINE c == hm \o ss
<1>8. c \in Seq(Digits) /\ Len(c) = 6 /\ \A i \in 1 .. 6 : c[i] = IF i <= 4 THEN hm[i] ELSE ss[i - 4]
  BY <1>2, <1>6, <1>7, SMTT(30)
<1>9. ClockText(t) = c
  BY <1>4 DEF hm
<1> HIDE DEF c
<1>10. /\ c[1] = hh[1] /\ c[2] = hh[2] /\ c[3] = mm[1] /\ c[4] = mm[2]
       /\ c[5] = ss[1] /\ c[6] = ss[2]
  BY <1>6, <1>8
<1> QED BY <1>3, <1>8, <1>9, <1>10

(* Ordinary characters and texts of them.                                  *)
LEMMA OrdinaryFacts ==
  /\ Ordinary \subseteq Nat /\ Digits \subseteq Ordinary
  /\ \A s \in Seq(Ordinary) : s \in Seq(Nat) /\ Len(s) \in Nat
<1>1. Ordinary \subseteq Nat /\ Digits \subseteq Ordinary
  BY DEF Digits, Ordinary, Dollar, Comma, Star, LF
<1> QED BY <1>1, SeqMonotonic, LenProperties

(* What a well-formed report writes.                                       *)
LEMMA ReportFacts ==
  ASSUME NEW report, WellFormed(report), NEW t \in Nat
  PROVE  /\ report.talker \in Nat /\ report.talker > 255
         /\ report.type \in Nat /\ report.type > 255
         /\ report.fields \in Seq(Seq(Nat)) /\ Len(report.fields) \in Nat
         /\ DOMAIN report.fields = 1 .. Len(report.fields)
         /\ ClockText(t) \in Seq(Nat)
         /\ \A k \in 1 .. Len(report.fields) :
              FieldText(report.fields[k], ClockText(t)) \in Seq(Ordinary)
<1>1. report.fields \in Seq(Seq(Ordinary))
  BY DEF WellFormed
<1>2. Ordinary \subseteq Nat /\ Digits \subseteq Ordinary
  BY OrdinaryFacts
<1>3. Len(report.fields) \in Nat /\ DOMAIN report.fields = 1 .. Len(report.fields)
  BY <1>1, LenProperties
<1>4. \A k \in 1 .. Len(report.fields) : report.fields[k] \in Seq(Ordinary)
  BY <1>1, <1>3, ElementOfSeq
<1>5. ClockText(t) \in Seq(Ordinary)
  <2>1. ClockText(t) \in Seq(Digits)
    BY ClockFacts
  <2> QED BY <1>2, <2>1, SeqMonotonic
<1>6. Seq(Ordinary) \subseteq Seq(Nat)
  BY <1>2, SeqMonotonic
<1>7. report.fields \in Seq(Seq(Nat)) /\ ClockText(t) \in Seq(Nat)
  BY <1>1, <1>5, <1>6, SeqMonotonic
<1>8. {report.talker, report.type} \subseteq Nat \ (0 .. 255)
  BY DEF WellFormed
<1>9. report.talker \in Nat /\ report.talker > 255 /\ report.type \in Nat /\ report.type > 255
  BY <1>8
<1> QED BY <1>3, <1>4, <1>5, <1>7, <1>9 DEF FieldText

(* c is s, a comma and f.                                                  *)
Joined(c, s, f) ==
  /\ c \in Seq(Nat) /\ Len(c) = Len(s) + 1 + Len(f)
  /\ \A p \in 1 .. Len(s) : c[p] = s[p]
  /\ c[Len(s) + 1] = Comma
  /\ \A j \in 1 .. Len(f) : c[Len(s) + 1 + j] = f[j]

(* Appending a comma and a field joins them.                               *)
LEMMA AppendField ==
  ASSUME NEW s \in Seq(Nat), NEW f \in Seq(Nat)
  PROVE  Joined(s \o <<Comma>> \o f, s, f)
<1> DEFINE d == <<Comma>>  sd == s \o d
<1>1. d \in Seq(Nat) /\ Len(d) = 1 /\ d[1] = Comma /\ Len(s) \in Nat /\ Len(f) \in Nat
  BY LenProperties DEF Comma
<1> HIDE DEF d
<1>2. /\ sd \in Seq(Nat) /\ Len(sd) = Len(s) + Len(d)
      /\ \A i \in 1 .. Len(s) + Len(d) : sd[i] = IF i <= Len(s) THEN s[i] ELSE d[i - Len(s)]
  BY <1>1, ConcatProperties
<1> HIDE DEF sd
<1>3. /\ sd \o f \in Seq(Nat) /\ Len(sd \o f) = Len(sd) + Len(f)
      /\ \A i \in 1 .. Len(sd) + Len(f) :
           (sd \o f)[i] = IF i <= Len(sd) THEN sd[i] ELSE f[i - Len(sd)]
  <2>1. sd \in Seq(Nat)
    BY <1>2
  <2> QED BY <2>1, ConcatProperties
<1> DEFINE c == sd \o f
<1>4. /\ c \in Seq(Nat) /\ Len(c) = Len(sd) + Len(f)
      /\ \A i \in 1 .. Len(sd) + Len(f) :
           c[i] = IF i <= Len(sd) THEN sd[i] ELSE f[i - Len(sd)]
  BY <1>3
<1> HIDE DEF c
<1>5. Len(sd) = Len(s) + 1 /\ Len(c) = Len(s) + 1 + Len(f)
  BY <1>1, <1>2, <1>4
<1>6. ASSUME NEW i \in 1 .. Len(s) PROVE c[i] = s[i]
  <2>1. i \in 1 .. Len(s) + Len(d) /\ i \in 1 .. Len(sd) + Len(f) /\ i <= Len(sd)
    BY <1>1, <1>5
  <2> QED BY <1>2, <1>4, <2>1, SMTT(30)
<1>7. c[Len(s) + 1] = Comma
  <2>1. /\ (Len(s) + 1) - Len(s) = 1 /\ Len(s) + 1 \in 1 .. Len(sd) + Len(f)
        /\ Len(s) + 1 \in 1 .. Len(s) + Len(d) /\ ~(Len(s) + 1 <= Len(s)) /\ Len(s) + 1 <= Len(sd)
    BY <1>1, <1>5
  <2> QED BY <1>1, <1>2, <1>4, <2>1
<1>8. ASSUME NEW j \in 1 .. Len(f) PROVE c[Len(s) + 1 + j] = f[j]
  <2>1. /\ Len(s) + 1 + j \in 1 .. Len(sd) + Len(f) /\ (Len(s) + 1 + j) - Len(sd) = j
        /\ ~(Len(s) + 1 + j <= Len(sd))
    BY <1>1, <1>5
  <2> QED BY <1>4, <2>1
<1>9. Joined(c, s, f)
  BY <1>4, <1>5, <1>6, <1>7, <1>8 DEF Joined
<1> QED BY <1>9 DEF c, sd, d

(* s is the body of a sentence up to its m-th field, when the k-th ends at *)
(* e[k].                                                                   *)
Written(s, e, m, report, clock) ==
  /\ s \in Seq(Nat) /\ Len(s) = e[m] /\ e[0] = 2
  /\ s[1] = report.talker /\ s[2] = report.type
  /\ \A p \in 3 .. e[m] : s[p] \in Ordinary \cup {Comma}
  /\ \A k \in 0 .. m : e[k] \in 2 .. e[m]
  /\ \A k \in 1 .. m : LET f == FieldText(report.fields[k], clock) IN
       /\ f \in Seq(Ordinary) /\ Len(f) \in Nat /\ e[k] = e[k - 1] + 1 + Len(f)
       /\ s[e[k - 1] + 1] = Comma
       /\ \A j \in 1 .. Len(f) : s[e[k - 1] + 1 + j] = f[j]

(* One more field is written after the others.                             *)
LEMMA WriteField ==
  ASSUME NEW report, NEW clock, NEW e, NEW m \in Nat, NEW s, Written(s, e, m, report, clock),
         FieldText(report.fields[m + 1], clock) \in Seq(Ordinary),
         NEW c, Joined(c, s, FieldText(report.fields[m + 1], clock)), e[m + 1] = Len(c)
  PROVE  Written(c, e, m + 1, report, clock)
<1> DEFINE F(k) == FieldText(report.fields[k], clock)
           f == F(m + 1)
<1>1. s \in Seq(Nat) /\ Len(s) = e[m] /\ e[0] = 2 /\ e[m] \in Nat /\ e[m] >= 2
  <2>1. s \in Seq(Nat) /\ Len(s) = e[m] /\ 0 \in 0 .. m /\ e[0] = 2 /\ e[0] \in 2 .. e[m]
    BY DEF Written
  <2>2. Len(s) \in Nat
    BY <2>1, LenProperties
  <2> QED BY <2>1, <2>2
<1>2. /\ s[1] = report.talker /\ s[2] = report.type
      /\ \A p \in 3 .. e[m] : s[p] \in Ordinary \cup {Comma}
      /\ \A k \in 0 .. m : e[k] \in 2 .. e[m]
  BY DEF Written
<1>3. \A k \in 1 .. m :
        /\ F(k) \in Seq(Ordinary) /\ Len(F(k)) \in Nat /\ e[k] = e[k - 1] + 1 + Len(F(k))
        /\ s[e[k - 1] + 1] = Comma
        /\ \A j \in 1 .. Len(F(k)) : s[e[k - 1] + 1 + j] = F(k)[j]
  BY DEF Written
<1>4. f \in Seq(Ordinary) /\ f \in Seq(Nat) /\ Len(f) \in Nat
  BY OrdinaryFacts
<1>5. /\ c \in Seq(Nat) /\ e[m + 1] = Len(c) /\ Len(c) = e[m] + 1 + Len(f)
      /\ \A p \in 1 .. e[m] : c[p] = s[p]
      /\ c[e[m] + 1] = Comma
      /\ \A j \in 1 .. Len(f) : c[e[m] + 1 + j] = f[j]
  BY <1>1 DEF Joined
<1> HIDE DEF F, f
<1> DEFINE E == e[m]  n == Len(f)
<1>6. E \in Nat /\ E >= 2 /\ n \in Nat /\ e[m + 1] = E + 1 + n
  BY <1>1, <1>4, <1>5
<1> HIDE DEF E, n
<1>7. ASSUME NEW p \in 3 .. e[m + 1] PROVE c[p] \in Ordinary \cup {Comma}
  <2>1. CASE p <= E
    <3>1. p \in 3 .. E /\ p \in 1 .. E
      BY <1>6, <2>1
    <3> QED BY <1>2, <1>5, <3>1 DEF E
  <2>2. CASE p = E + 1
    BY <1>5, <2>2 DEF E
  <2>3. CASE p > E + 1
    <3> DEFINE j == p - (E + 1)
    <3>1. j \in 1 .. n /\ E + 1 + j = p
      BY <1>6, <2>3
    <3> HIDE DEF j
    <3>2. c[p] = f[j]
      BY <1>5, <3>1 DEF E, n
    <3> QED BY <1>4, <3>1, <3>2, ElementOfSeq DEF n
  <2> QED BY <1>6, <2>1, <2>2, <2>3
<1>8. ASSUME NEW k \in 0 .. m + 1 PROVE e[k] \in 2 .. e[m + 1]
  <2>1. CASE k = m + 1
    BY <1>6, <2>1
  <2>2. CASE k # m + 1
    <3>1. e[k] \in 2 .. E
      BY <1>2, <2>2 DEF E
    <3> QED BY <1>6, <3>1
  <2> QED BY <2>1, <2>2
<1>9. ASSUME NEW k \in 1 .. m + 1
      PROVE  /\ F(k) \in Seq(Ordinary) /\ Len(F(k)) \in Nat /\ e[k] = e[k - 1] + 1 + Len(F(k))
             /\ c[e[k - 1] + 1] = Comma
             /\ \A j \in 1 .. Len(F(k)) : c[e[k - 1] + 1 + j] = F(k)[j]
  <2>1. CASE k = m + 1
    <3>1. k - 1 = m
      BY <2>1
    <3> QED BY <1>4, <1>5, <2>1, <3>1 DEF f
  <2>2. CASE k # m + 1
    <3> DEFINE a == e[k - 1]  g == F(k)
    <3>1. k \in 1 .. m /\ k - 1 \in 0 .. m /\ k \in 0 .. m
      BY <2>2
    <3>2. a \in 2 .. e[m] /\ e[k] \in 2 .. e[m]
      BY <1>2, <3>1
    <3>3. /\ g \in Seq(Ordinary) /\ Len(g) \in Nat /\ e[k] = a + 1 + Len(g)
          /\ s[a + 1] = Comma
          /\ \A j \in 1 .. Len(g) : s[a + 1 + j] = g[j]
      BY <1>3, <3>1
    <3> HIDE DEF a, g
    <3>4. a + 1 \in 1 .. E /\ \A j \in 1 .. Len(g) : a + 1 + j \in 1 .. E
      <4>1. a \in 2 .. E /\ a + 1 + Len(g) \in 2 .. E /\ Len(g) \in Nat
        BY <3>2, <3>3 DEF E
      <4> QED BY <1>6, <4>1, SMTT(30)
    <3>5. c[a + 1] = Comma /\ \A j \in 1 .. Len(g) : c[a + 1 + j] = g[j]
      BY <1>5, <3>3, <3>4 DEF E
    <3> QED BY <3>3, <3>5 DEF a, g
  <2> QED BY <2>1, <2>2
<1>10. c[1] = report.talker /\ c[2] = report.type
  BY <1>1, <1>2, <1>5, SMTT(30)
<1> QED BY <1>1, <1>5, <1>7, <1>8, <1>9, <1>10 DEF Written, F

(* The body of a sentence has its fields at their places.                  *)
LEMMA BodyWritten ==
  ASSUME NEW report, WellFormed(report), NEW t \in Nat
  PROVE  \E e : Written(Body(report, t), e, Len(report.fields), report, ClockText(t))
<1> DEFINE n == Len(report.fields)
           F(i) == FieldText(report.fields[i], ClockText(t))
<1>1. /\ report.talker \in Nat /\ report.type \in Nat /\ report.fields \in Seq(Seq(Nat))
      /\ n \in Nat /\ ClockText(t) \in Seq(Nat) /\ \A k \in 1 .. n : F(k) \in Seq(Ordinary)
  BY ReportFacts
<1>2. PICK body \in [0 .. n -> Seq(Nat)] :
        /\ body[0] = <<report.talker, report.type>>
        /\ \A i \in 1 .. n : body[i] = body[i - 1] \o <<Comma>> \o F(i)
        /\ Body(report, t) = body[n]
  <2> HIDE DEF n
  <2> QED BY <1>1, BodySteps DEF n
<1> HIDE DEF n
<1> DEFINE e == [i \in 0 .. n |-> Len(body[i])]
           OK == {m \in 0 .. n : Written(body[m], e, m, report, ClockText(t))}
<1>3. 0 \in OK
  <2>1. 0 \in 0 .. n
    BY <1>1
  <2>2. 0 \in 0 .. n /\ body[0] \in Seq(Nat) /\ e[0] = Len(body[0])
    BY <2>1
  <2>3. Len(body[0]) = 2 /\ body[0][1] = report.talker /\ body[0][2] = report.type
    BY <1>2
  <2> HIDE DEF e
  <2>4. Written(body[0], e, 0, report, ClockText(t))
    BY <2>2, <2>3 DEF Written
  <2> QED BY <2>2, <2>4
<1>4. ASSUME NEW m \in 0 .. n - 1, m \in OK PROVE m + 1 \in OK
  <2>1. m \in Nat /\ m \in 0 .. n /\ m + 1 \in 0 .. n /\ m + 1 \in 1 .. n /\ (m + 1) - 1 = m
    BY <1>1
  <2>2. F(m + 1) \in Seq(Ordinary) /\ F(m + 1) \in Seq(Nat) /\ body[m] \in Seq(Nat)
    BY <1>1, <1>2, <2>1, OrdinaryFacts
  <2>3. body[m + 1] = body[m] \o <<Comma>> \o F(m + 1)
    BY <1>2, <2>1
  <2>4. Joined(body[m] \o <<Comma>> \o F(m + 1), body[m], F(m + 1))
    <3> HIDE DEF F
    <3> QED BY <2>2, AppendField
  <2>5. Joined(body[m + 1], body[m], F(m + 1))
    BY <2>3, <2>4, Zenon
  <2>6. e[m + 1] = Len(body[m + 1])
    BY <2>1
  <2>7. Written(body[m], e, m, report, ClockText(t))
    BY <1>4
  <2> HIDE DEF e
  <2>8. Written(body[m + 1], e, m + 1, report, ClockText(t))
    BY <2>1, <2>2, <2>5, <2>6, <2>7, WriteField
  <2> QED BY <2>1, <2>8
<1>5. n \in OK
  <2>1. \A m \in 0 .. n : m \in OK
    <3> HIDE DEF OK
    <3> QED BY <1>1, <1>3, <1>4, AllTheWay
  <2>2. n \in 0 .. n
    BY <1>1
  <2> QED BY <2>1, <2>2
<1>6. Written(Body(report, t), e, n, report, ClockText(t))
  BY <1>2, <1>5
<1> QED BY <1>6 DEF n

(* A field f after the comma at a + 1, up to z.                            *)
FieldAt(s, a, z, f) ==
  /\ f \in Seq(Ordinary) /\ Len(f) \in Nat /\ z = a + 1 + Len(f)
  /\ s[a + 1] = Comma
  /\ \A j \in 1 .. Len(f) : s[a + 1 + j] = f[j]

(* A sentence without its checksum: the k-th field ends at e[k].           *)
Addressed(s, e, report, clock) ==
  LET n == Len(report.fields) IN
  /\ s \in Seq(Nat) /\ n \in Nat /\ Len(s) = e[n] /\ e[0] = 3 /\ e[n] \in Nat
  /\ s[1] = Dollar /\ s[2] = report.talker /\ s[3] = report.type
  /\ \A p \in 4 .. e[n] : s[p] \in Ordinary \cup {Comma}
  /\ \A k \in 0 .. n : e[k] \in 3 .. e[n]
  /\ \A k \in 1 .. n : FieldAt(s, e[k - 1], e[k], FieldText(report.fields[k], clock))

(* A dollar in front moves everything by one.                              *)
LEMMA Dollared ==
  ASSUME NEW s \in Seq(Nat)
  PROVE  /\ <<Dollar>> \o s \in Seq(Nat) /\ Len(<<Dollar>> \o s) = Len(s) + 1
         /\ (<<Dollar>> \o s)[1] = Dollar
         /\ \A p \in 1 .. Len(s) : (<<Dollar>> \o s)[p + 1] = s[p]
<1> DEFINE d == <<Dollar>>
<1>1. d \in Seq(Nat) /\ Len(d) = 1 /\ d[1] = Dollar /\ Len(s) \in Nat
  BY LenProperties DEF Dollar
<1> HIDE DEF d
<1>2. /\ d \o s \in Seq(Nat) /\ Len(d \o s) = Len(d) + Len(s)
      /\ \A i \in 1 .. Len(d) + Len(s) : (d \o s)[i] = IF i <= Len(d) THEN d[i] ELSE s[i - Len(d)]
  BY <1>1, ConcatProperties
<1> DEFINE c == d \o s
<1>3. /\ c \in Seq(Nat) /\ Len(c) = Len(s) + 1
      /\ \A i \in 1 .. Len(s) + 1 : c[i] = IF i <= 1 THEN d[i] ELSE s[i - 1]
  BY <1>1, <1>2
<1> HIDE DEF c
<1>4. c[1] = Dollar
  BY <1>1, <1>3
<1>5. ASSUME NEW p \in 1 .. Len(s) PROVE c[p + 1] = s[p]
  <2>1. p + 1 \in 1 .. Len(s) + 1 /\ (p + 1) - 1 = p /\ ~(p + 1 <= 1)
    BY <1>1
  <2> QED BY <1>3, <2>1
<1> QED BY <1>3, <1>4, <1>5 DEF c, d

(* The text of a sentence before its checksum.                             *)
Opening(report, t) == <<Dollar>> \o Body(report, t)

(* So does the sentence from its dollar to its star.                       *)
LEMMA BodyAddressed ==
  ASSUME NEW report, WellFormed(report), NEW t \in Nat
  PROVE  /\ Body(report, t) \in Seq(Nat)
         /\ \E e : Addressed(Opening(report, t), e, report, ClockText(t))
<1> DEFINE n == Len(report.fields)  b == Body(report, t)  s == <<Dollar>> \o b
           F(i) == FieldText(report.fields[i], ClockText(t))
<1>1. n \in Nat
  BY ReportFacts
<1>2. PICK d : Written(b, d, n, report, ClockText(t))
  BY BodyWritten
<1>3. b \in Seq(Nat) /\ Len(b) = d[n] /\ d[n] \in Nat /\ d[0] = 2
      /\ b[1] = report.talker /\ b[2] = report.type
      /\ (\A p \in 3 .. d[n] : b[p] \in Ordinary \cup {Comma})
      /\ (\A k \in 0 .. n : d[k] \in 2 .. d[n])
  BY <1>2, LenProperties DEF Written
<1>4. \A k \in 1 .. n :
       /\ F(k) \in Seq(Ordinary) /\ Len(F(k)) \in Nat /\ d[k] = d[k - 1] + 1 + Len(F(k))
       /\ b[d[k - 1] + 1] = Comma
       /\ \A j \in 1 .. Len(F(k)) : b[d[k - 1] + 1 + j] = F(k)[j]
  BY <1>2 DEF Written
<1>5. /\ s \in Seq(Nat) /\ Len(s) = d[n] + 1 /\ s[1] = Dollar
      /\ \A p \in 1 .. d[n] : s[p + 1] = b[p]
  <2> HIDE DEF b
  <2> QED BY <1>3, Dollared
<1> HIDE DEF n, b, s, F
<1> DEFINE e == [k \in 0 .. n |-> d[k] + 1]  N == d[n]
<1>6. \A k \in 0 .. n : e[k] = d[k] + 1
  OBVIOUS
<1>7. 0 \in 0 .. n /\ n \in 0 .. n /\ N \in Nat /\ N >= 2 /\ e[n] = N + 1 /\ e[0] = 3
  <2>1. 0 \in 0 .. n /\ n \in 0 .. n
    BY <1>1
  <2>2. d[0] \in 2 .. d[n]
    BY <1>3, <2>1
  <2> QED BY <1>3, <1>6, <2>1, <2>2
<1> HIDE DEF e, N
<1>8. s[2] = report.talker /\ s[3] = report.type
  <2>1. 1 \in 1 .. N /\ 2 \in 1 .. N /\ 1 + 1 = 2 /\ 2 + 1 = 3
    BY <1>7
  <2> QED BY <1>3, <1>5, <2>1 DEF N
<1>9. ASSUME NEW p \in 4 .. e[n] PROVE s[p] \in Ordinary \cup {Comma}
  <2>1. p - 1 \in 3 .. N /\ p - 1 \in 1 .. N /\ (p - 1) + 1 = p
    BY <1>7
  <2> QED BY <1>3, <1>5, <2>1 DEF N
<1>10. ASSUME NEW k \in 0 .. n PROVE e[k] \in 3 .. e[n]
  <2>1. d[k] \in 2 .. N
    BY <1>3 DEF N
  <2> QED BY <1>6, <1>7, <2>1
<1>11. ASSUME NEW k \in 1 .. n
       PROVE  FieldAt(s, e[k - 1], e[k], F(k))
  <2> DEFINE a == d[k - 1]  f == F(k)
  <2>1. k - 1 \in 0 .. n /\ k \in 0 .. n
    BY <1>1
  <2>2. e[k - 1] = a + 1 /\ e[k] = d[k] + 1 /\ a \in 2 .. N /\ d[k] \in 2 .. N
    BY <1>3, <1>6, <2>1 DEF N
  <2>3. /\ f \in Seq(Ordinary) /\ Len(f) \in Nat /\ d[k] = a + 1 + Len(f) /\ b[a + 1] = Comma
        /\ \A j \in 1 .. Len(f) : b[a + 1 + j] = f[j]
    BY <1>4
  <2> HIDE DEF a, f
  <2>4. a + 1 \in 1 .. N /\ \A j \in 1 .. Len(f) : a + 1 + j \in 1 .. N
    BY <1>7, <2>2, <2>3
  <2>5. s[(a + 1) + 1] = Comma
    BY <1>5, <2>3, <2>4 DEF N
  <2>6. ASSUME NEW j \in 1 .. Len(f) PROVE s[(a + 1) + 1 + j] = f[j]
    <3>1. (a + 1) + 1 + j = (a + 1 + j) + 1
      BY <2>2, <2>3, <1>7
    <3> QED BY <1>5, <2>3, <2>4, <3>1 DEF N
  <2>7. e[k] = e[k - 1] + 1 + Len(f)
    BY <1>7, <2>2, <2>3
  <2> QED BY <2>2, <2>3, <2>5, <2>6, <2>7 DEF f, FieldAt
<1>12. Addressed(s, e, report, ClockText(t))
  BY <1>1, <1>5, <1>7, <1>8, <1>9, <1>10, <1>11 DEF Addressed, n, F, N
<1> QED BY <1>3, <1>12 DEF b, s, Opening

(* A text found in another is a part of it.                                *)
LEMMA SliceIs ==
  ASSUME NEW s \in Seq(Nat), NEW f \in Seq(Nat), NEW a \in Nat, a + Len(f) <= Len(s),
         \A j \in 1 .. Len(f) : s[a + j] = f[j]
  PROVE  SubSeq(s, a + 1, a + Len(f)) = f
<1> DEFINE n == Len(f)  c == SubSeq(s, a + 1, a + n)
<1>1. n \in Nat /\ Len(s) \in Nat
  BY LenProperties
<1>2. \A i \in a + 1 .. a + n : s[i] \in Nat
  <2>1. \A i \in a + 1 .. a + n : i \in 1 .. Len(s)
    BY <1>1
  <2> QED BY <2>1, ElementOfSeq
<1>3. a + 1 \in Int /\ a + n \in Int
  BY <1>1
<1> HIDE DEF n
<1>4. /\ c \in Seq(Nat) /\ Len(c) = IF a + 1 <= a + n THEN (a + n) - (a + 1) + 1 ELSE 0
      /\ \A i \in 1 .. (a + n) - (a + 1) + 1 : c[i] = s[a + 1 + i - 1]
  BY <1>2, <1>3, SubSeqProperties, SMTT(30)
<1> HIDE DEF c
<1>5. Len(c) = n
  BY <1>1, <1>4, SMTT(30)
<1>6. ASSUME NEW i \in 1 .. Len(c) PROVE c[i] = f[i]
  <2>1. i \in 1 .. (a + n) - (a + 1) + 1 /\ a + 1 + i - 1 = a + i /\ i \in 1 .. Len(f)
    BY <1>1, <1>5 DEF n
  <2> QED BY <1>4, <2>1
<1>7. c = f
  BY <1>4, <1>5, <1>6, SeqEqual DEF n
<1> QED BY <1>7 DEF c, n

(* A field has no comma.                                                   *)
LEMMA NoComma ==
  ASSUME NEW f \in Seq(Ordinary), NEW j \in 1 .. Len(f)
  PROVE  f[j] # Comma
<1>1. f[j] \in Ordinary
  BY ElementOfSeq
<1> QED BY <1>1 DEF Ordinary

(* Where the comma after a field is found.                                 *)
FieldStart(e, k) == IF k = 0 THEN 1 ELSE e[k - 1] + 2

(* The comma after a field, or the end of the text, is the next one.       *)
LEMMA FieldEnd ==
  ASSUME NEW report, NEW clock, WellFormed(report), NEW s, NEW e, Addressed(s, e, report, clock),
         NEW k \in 0 .. Len(report.fields)
  PROVE  /\ FieldStart(e, k) \in 1 .. e[k] + 1 /\ e[k] \in 3 .. Len(s)
         /\ Found(Comma, s, FieldStart(e, k), e[k] + 1)
<1> DEFINE n == Len(report.fields)  from == FieldStart(e, k)
           F(i) == FieldText(report.fields[i], clock)
<1>1. /\ s \in Seq(Nat) /\ n \in Nat /\ Len(s) = e[n] /\ e[0] = 3 /\ e[n] \in Nat
      /\ s[1] = Dollar /\ s[2] = report.talker /\ s[3] = report.type
      /\ \A i \in 0 .. n : e[i] \in 3 .. e[n]
  BY DEF Addressed, FieldAt
<1>2. \A i \in 1 .. n :
       /\ F(i) \in Seq(Ordinary) /\ Len(F(i)) \in Nat /\ e[i] = e[i - 1] + 1 + Len(F(i))
       /\ s[e[i - 1] + 1] = Comma
       /\ \A j \in 1 .. Len(F(i)) : s[e[i - 1] + 1 + j] = F(i)[j]
  BY DEF Addressed, FieldAt
<1>3. s[1] # Comma /\ s[2] # Comma /\ s[3] # Comma
  <2>1. report.talker > 255 /\ report.type > 255
    BY ReportFacts
  <2> QED BY <1>1, <2>1 DEF Dollar, Comma
<1>4. e[k] \in 3 .. Len(s)
  BY <1>1
<1> HIDE DEF n, F
<1>5. e[k] + 1 <= Len(s) => s[e[k] + 1] = Comma
  <2>1. k = n => e[k] = Len(s)
    BY <1>1
  <2>2. k # n => k + 1 \in 1 .. n /\ (k + 1) - 1 = k
    BY <1>1 DEF n
  <2>3. k # n => s[e[k] + 1] = Comma
    BY <1>2, <2>2
  <2> QED BY <1>1, <1>4, <2>1, <2>3
<1>6. from \in 1 .. e[k] + 1 /\ \A q \in from .. e[k] : s[q] # Comma
  <2>1. CASE k = 0
    <3>1. from = 1 /\ e[k] = 3
      BY <1>1, <2>1 DEF FieldStart
    <3>2. \A q \in 1 .. 3 : q = 1 \/ q = 2 \/ q = 3
      OBVIOUS
    <3> QED BY <1>3, <3>1, <3>2
  <2>2. CASE k # 0
    <3> DEFINE a == e[k - 1]  f == F(k)
    <3>1. k \in 1 .. n /\ k - 1 \in 0 .. n
      BY <1>1, <2>2 DEF n
    <3>2. from = a + 2
      BY <2>2 DEF FieldStart
    <3>3. a \in Nat /\ a >= 3
      BY <1>1, <3>1, SMTT(30)
    <3>4. /\ f \in Seq(Ordinary) /\ Len(f) \in Nat /\ e[k] = a + 1 + Len(f)
          /\ \A j \in 1 .. Len(f) : s[a + 1 + j] = f[j]
      BY <1>2, <3>1
    <3> HIDE DEF a, f, from
    <3>5. ASSUME NEW q \in a + 2 .. a + 1 + Len(f) PROVE s[q] # Comma
      <4> DEFINE j == q - (a + 1)
      <4>1. j \in 1 .. Len(f) /\ a + 1 + j = q
        BY <3>3, <3>4
      <4> HIDE DEF j
      <4>2. s[q] = f[j] /\ f[j] # Comma
        BY <3>4, <4>1, NoComma
      <4> QED BY <4>2
    <3> QED BY <3>2, <3>3, <3>4, <3>5
  <2> QED BY <2>1, <2>2
<1>7. e[k] + 1 \in from .. Len(s) + 1 /\ (e[k] + 1) - 1 = e[k]
  <2> DEFINE E == e[k]
  <2>1. E \in Nat /\ from \in 1 .. E + 1 /\ E <= Len(s) /\ Len(s) \in Nat
    BY <1>1, <1>4, <1>6
  <2> HIDE DEF E, from
  <2>2. E + 1 \in from .. Len(s) + 1 /\ (E + 1) - 1 = E
    BY <2>1
  <2> QED BY <2>2 DEF E
<1> QED BY <1>4, <1>5, <1>6, <1>7 DEF Found

(* What splitFields makes of a sentence is its fields, the missing ones    *)
(* empty.                                                                  *)
LEMMA FieldsWhole ==
  ASSUME NEW report, NEW clock, WellFormed(report), NEW s, NEW e, Addressed(s, e, report, clock),
         NEW i \in Places
  PROVE  Field(s, i) = FieldsOf(report, clock)[i]
<1> DEFINE n == Len(report.fields)  from(k) == FieldStart(e, k)  N == Len(s)
           F(k) == FieldText(report.fields[k], clock)
<1>1. /\ s \in Seq(Nat) /\ n \in Nat /\ N \in Nat /\ N = e[n]
      /\ s[1] = Dollar /\ s[2] = report.talker /\ s[3] = report.type
  BY LenProperties DEF Addressed, FieldAt
<1>2. i \in Nat /\ DOMAIN report.fields = 1 .. n
  BY ReportFacts DEF Places
<1>3. PICK start \in [0 .. i -> Nat \ {0}] :
        /\ start[0] = 1
        /\ \A k \in 1 .. i : start[k] = Find(Comma, s, start[k - 1]) + 1
        /\ Field(s, i) = SubSeq(s, start[i], Find(Comma, s, start[i]) - 1)
  BY <1>1, <1>2, FieldSteps
<1>4. \A k \in 0 .. n : Find(Comma, s, from(k)) = e[k] + 1 /\ e[k] \in 3 .. N
  <2> SUFFICES ASSUME NEW k \in 0 .. n PROVE Find(Comma, s, from(k)) = e[k] + 1 /\ e[k] \in 3 .. N
    OBVIOUS
  <2>1. from(k) \in 1 .. e[k] + 1 /\ e[k] \in 3 .. N /\ Found(Comma, s, from(k), e[k] + 1)
    BY FieldEnd
  <2> HIDE DEF from, N
  <2>2. from(k) \in Nat \ {0} /\ e[k] + 1 \in Nat
    BY <2>1
  <2> QED BY <1>1, <2>1, <2>2, FindIs
<1>5. \A v \in Nat \ {0} : v > N => Find(Comma, s, v) = N + 1
  BY <1>1, FindFacts
<1> HIDE DEF n, N
<1> DEFINE At(k) == IF k <= n THEN FieldStart(e, k) ELSE N + 2
           OK == {k \in 0 .. i : start[k] = At(k)}
<1>6. 0 \in OK
  BY <1>1, <1>2, <1>3 DEF FieldStart
<1>7. ASSUME NEW k \in 0 .. i - 1, k \in OK PROVE k + 1 \in OK
  <2>1. k + 1 \in 1 .. i /\ k + 1 \in 0 .. i /\ (k + 1) - 1 = k /\ k \in Nat
    BY <1>2
  <2>2. start[k + 1] = Find(Comma, s, At(k)) + 1
    BY <1>3, <1>7, <2>1
  <2>3. CASE k < n
    <3>1. k \in 0 .. n /\ k <= n /\ k + 1 <= n /\ k + 1 # 0
      BY <1>1, <2>1, <2>3
    <3>2. start[k + 1] = (e[k] + 1) + 1 /\ e[k] \in 3 .. N
      BY <1>4, <2>2, <3>1
    <3>3. At(k + 1) = e[k] + 2
      BY <2>1, <3>1 DEF FieldStart
    <3> HIDE DEF At
    <3>4. start[k + 1] = At(k + 1)
      BY <1>1, <3>2, <3>3
    <3> QED BY <2>1, <3>4
  <2>4. CASE k = n
    <3>1. k \in 0 .. n /\ k <= n /\ ~(k + 1 <= n)
      BY <1>1, <2>1, <2>4
    <3>2. start[k + 1] = (e[k] + 1) + 1 /\ e[k] = N
      BY <1>1, <1>4, <2>2, <2>4, <3>1
    <3>3. At(k + 1) = N + 2
      BY <3>1
    <3> HIDE DEF At
    <3>4. start[k + 1] = At(k + 1)
      BY <1>1, <3>2, <3>3
    <3> QED BY <2>1, <3>4
  <2>5. CASE k > n
    <3>1. ~(k <= n) /\ ~(k + 1 <= n) /\ N + 2 \in Nat \ {0} /\ N + 2 > N
      BY <1>1, <2>1, <2>5, SMTT(30)
    <3>2. start[k + 1] = (N + 1) + 1 /\ At(k + 1) = N + 2
      BY <1>5, <2>2, <3>1
    <3> HIDE DEF At
    <3>3. start[k + 1] = At(k + 1)
      BY <1>1, <3>2
    <3> QED BY <2>1, <3>3
  <2> QED BY <1>1, <2>1, <2>3, <2>4, <2>5
<1>8. start[i] = At(i)
  <2>1. \A k \in 0 .. i : k \in OK
    <3> HIDE DEF OK
    <3> QED BY <1>2, <1>6, <1>7, AllTheWay
  <2>2. i \in 0 .. i
    BY <1>2
  <2> QED BY <2>1, <2>2
<1>9. FieldsOf(report, clock)[i] =
        IF i = 0 THEN <<Dollar, report.talker, report.type>>
        ELSE IF i \in DOMAIN report.fields THEN F(i) ELSE <<>>
  BY DEF FieldsOf
<1>10. CASE i = 0
  <2>1. start[i] = 1 /\ Find(Comma, s, start[i]) = e[0] + 1 /\ e[0] = 3
    <3>1. 0 \in 0 .. n /\ FieldStart(e, 0) = 1
      BY <1>1 DEF FieldStart
    <3> QED BY <1>3, <1>4, <1>10, <3>1 DEF Addressed, FieldAt
  <2>2. Field(s, i) = SubSeq(s, 1, 3)
    BY <1>3, <2>1
  <2> DEFINE f == <<Dollar, report.talker, report.type>>
  <2>3. f \in Seq(Nat) /\ Len(f) = 3 /\ f[1] = Dollar /\ f[2] = report.talker /\ f[3] = report.type
    BY ReportFacts DEF Dollar
  <2>4. 3 <= N
    BY <1>1, <1>4
  <2> HIDE DEF f
  <2>5. \A j \in 1 .. Len(f) : s[0 + j] = f[j]
    <3>1. \A j \in 1 .. 3 : j = 1 \/ j = 2 \/ j = 3
      OBVIOUS
    <3>2. 0 + 1 = 1 /\ 0 + 2 = 2 /\ 0 + 3 = 3
      OBVIOUS
    <3> QED BY <1>1, <2>3, <3>1, <3>2
  <2>6. SubSeq(s, 0 + 1, 0 + Len(f)) = f
    <3>1. 0 + Len(f) <= Len(s)
      BY <1>1, <2>3, <2>4 DEF N
    <3> QED BY <1>1, <2>3, <2>5, <3>1, SliceIs
  <2>7. 0 + 1 = 1 /\ 0 + Len(f) = 3
    BY <2>3
  <2> QED BY <1>9, <1>10, <2>2, <2>6, <2>7 DEF f
<1>11. CASE i # 0 /\ i <= n
  <2> DEFINE a == e[i - 1]  f == F(i)
  <2>1. i \in 1 .. n /\ i \in 0 .. n /\ i - 1 \in 0 .. n
    BY <1>1, <1>2, <1>11
  <2>2. start[i] = a + 2 /\ Find(Comma, s, start[i]) = e[i] + 1 /\ e[i] \in 3 .. N /\ a \in 3 .. N
    BY <1>4, <1>8, <1>11, <2>1 DEF FieldStart
  <2>3. /\ f \in Seq(Ordinary) /\ Len(f) \in Nat /\ e[i] = a + 1 + Len(f)
        /\ \A j \in 1 .. Len(f) : s[a + 1 + j] = f[j]
    BY <2>1 DEF Addressed, FieldAt, n
  <2>4. f \in Seq(Nat)
    BY <2>3, OrdinaryFacts
  <2> HIDE DEF a, f
  <2>5. a + 1 \in Nat /\ (a + 1) + Len(f) <= N /\ (a + 1) + 1 = a + 2 /\ (e[i] + 1) - 1 = (a + 1) + Len(f)
    BY <1>1, <2>2, <2>3
  <2>6. SubSeq(s, (a + 1) + 1, (a + 1) + Len(f)) = f
    BY <1>1, <2>3, <2>4, <2>5, SliceIs DEF N
  <2>7. Field(s, i) = f
    BY <1>3, <2>2, <2>5, <2>6
  <2> QED BY <1>2, <1>9, <1>11, <2>1, <2>7 DEF f
<1>12. CASE i # 0 /\ i > n
  <2>1. start[i] = N + 2 /\ Find(Comma, s, N + 2) = N + 1
    BY <1>1, <1>2, <1>5, <1>8, <1>12, SMTT(30)
  <2>2. Find(Comma, s, start[i]) - 1 = N
    BY <1>1, <2>1
  <2>3. SubSeq(s, N + 2, N) = <<>>
    <3>1. N + 2 \in Int /\ N \in Int /\ N < N + 2
      BY <1>1
    <3> QED BY <3>1, SubSeqEmpty
  <2>4. Field(s, i) = <<>>
    BY <1>3, <2>1, <2>2, <2>3, Zenon
  <2>5. i \notin DOMAIN report.fields
    BY <1>1, <1>2, <1>12
  <2> QED BY <1>9, <1>12, <2>5, <2>4
<1> QED BY <1>1, <1>2, <1>10, <1>11, <1>12

(* c is the first m symbols of s.                                          *)
Beginning(c, s, m) ==
  c \in Seq(Nat) /\ Len(c) = m /\ m \in Nat /\ \A p \in 1 .. m : c[p] = s[p]

(* A prefix is a beginning.                                                *)
LEMMA BeginningIs ==
  ASSUME NEW s \in Seq(Nat), NEW m \in 0 .. Len(s)
  PROVE  Beginning(SubSeq(s, 1, m), s, m)
<1>1. \A p \in 1 .. m : s[p] \in Nat
  <2>1. \A p \in 1 .. m : p \in 1 .. Len(s)
    BY LenProperties
  <2> QED BY <2>1, ElementOfSeq
<1>2. 1 \in Int /\ m \in Int /\ m \in Nat
  BY LenProperties
<1>3. /\ SubSeq(s, 1, m) \in Seq(Nat) /\ Len(SubSeq(s, 1, m)) = IF 1 <= m THEN m - 1 + 1 ELSE 0
      /\ \A p \in 1 .. m - 1 + 1 : SubSeq(s, 1, m)[p] = s[1 + p - 1]
  BY <1>1, <1>2, SubSeqProperties
<1> DEFINE c == SubSeq(s, 1, m)
<1> HIDE DEF c
<1>4. m - 1 + 1 = m /\ \A p \in 1 .. m : 1 + p - 1 = p
  BY <1>2
<1>5. c \in Seq(Nat) /\ Len(c) = m /\ \A p \in 1 .. m : c[p] = s[p]
  <2>1. /\ c \in Seq(Nat) /\ Len(c) = IF 1 <= m THEN m - 1 + 1 ELSE 0
        /\ \A p \in 1 .. m - 1 + 1 : c[p] = s[1 + p - 1]
    BY <1>3 DEF c
  <2> QED BY <1>2, <1>4, <2>1
<1> QED BY <1>2, <1>5 DEF Beginning, c

(* What it makes of the beginning of one: the first field is cut at most.  *)
FieldBegun(g, report, clock) ==
  \/ g = <<>>
  \/ /\ 1 \in DOMAIN report.fields
     /\ \E j \in 0 .. Len(FieldText(report.fields[1], clock)) :
          g = SubSeq(FieldText(report.fields[1], clock), 1, j)

(* A sentence that is cut keeps its address and the start of its first field. *)
LEMMA FieldsCut ==
  ASSUME NEW report, NEW clock, WellFormed(report), NEW s, NEW e, Addressed(s, e, report, clock),
         NEW m \in 3 .. Len(s), NEW c, Beginning(c, s, m)
  PROVE  /\ Field(c, 0) = <<Dollar, report.talker, report.type>>
         /\ FieldBegun(Field(c, 1), report, clock)
<1> DEFINE n == Len(report.fields)  f == FieldText(report.fields[1], clock)
<1>1. /\ s \in Seq(Nat) /\ n \in Nat /\ Len(s) \in Nat /\ e[0] = 3
      /\ s[1] = Dollar /\ s[2] = report.talker /\ s[3] = report.type
  BY LenProperties DEF Addressed, FieldAt
<1>2. /\ c \in Seq(Nat) /\ Len(c) = m /\ m \in Nat /\ m >= 3 /\ m <= Len(s)
      /\ \A p \in 1 .. m : c[p] = s[p]
  BY <1>1 DEF Beginning
<1>3. c[1] # Comma /\ c[2] # Comma /\ c[3] # Comma
  <2>1. report.talker > 255 /\ report.type > 255
    BY ReportFacts
  <2>2. 1 \in 1 .. m /\ 2 \in 1 .. m /\ 3 \in 1 .. m
    BY <1>1
  <2> QED BY <1>1, <1>2, <2>1, <2>2, SMTT(30) DEF Dollar, Comma
<1> HIDE DEF n, f
<1>4. n # 0 => /\ 1 \in DOMAIN report.fields /\ f \in Seq(Ordinary) /\ f \in Seq(Nat)
               /\ Len(f) \in Nat /\ e[1] = 4 + Len(f)
               /\ e[1] \in 3 .. Len(s) /\ s[4] = Comma /\ \A j \in 1 .. Len(f) : s[4 + j] = f[j]
  <2> SUFFICES ASSUME n # 0
               PROVE  /\ 1 \in DOMAIN report.fields /\ f \in Seq(Ordinary) /\ f \in Seq(Nat)
                      /\ Len(f) \in Nat /\ e[1] = 4 + Len(f)
                      /\ e[1] \in 3 .. Len(s) /\ s[4] = Comma /\ \A j \in 1 .. Len(f) : s[4 + j] = f[j]
    OBVIOUS
  <2>1. 1 \in 1 .. n /\ 1 \in 0 .. n /\ 1 - 1 = 0 /\ 3 + 1 = 4
    BY <1>1
  <2>2. /\ f \in Seq(Ordinary) /\ Len(f) \in Nat /\ e[1] = e[0] + 1 + Len(f) /\ s[e[0] + 1] = Comma
        /\ \A j \in 1 .. Len(f) : s[e[0] + 1 + j] = f[j]
    BY <2>1, ZenonT(60) DEF Addressed, FieldAt, n, f
  <2>3. e[1] \in 3 .. Len(s)
    BY <2>1 DEF Addressed, FieldAt, n
  <2>4. 1 \in DOMAIN report.fields
    BY <2>1, ReportFacts DEF n
  <2>5. f \in Seq(Nat)
    BY <2>2, OrdinaryFacts
  <2> QED BY <1>1, <2>1, <2>2, <2>3, <2>4, <2>5
<1>5. n = 0 => Len(s) = 3
  BY <1>1 DEF Addressed, FieldAt, n
<1>6. Find(Comma, c, 1) = 4
  <2>1. Found(Comma, c, 1, 4)
    <3>1. 4 \in 1 .. Len(c) + 1
      BY <1>2
    <3>2. 4 <= Len(c) => c[4] = Comma
      <4>1. 4 <= Len(c) => 4 \in 1 .. m /\ n # 0
        BY <1>1, <1>2, <1>5, SMTT(30)
      <4> QED BY <1>2, <1>4, <4>1
    <3>3. \A q \in 1 .. 4 - 1 : q = 1 \/ q = 2 \/ q = 3
      OBVIOUS
    <3> QED BY <1>3, <3>1, <3>2, <3>3 DEF Found
  <2> QED BY <1>2, <2>1, FindIs
<1>7. Field(c, 0) = <<Dollar, report.talker, report.type>>
  <2>1. PICK start \in [0 .. 0 -> Nat \ {0}] :
          start[0] = 1 /\ Field(c, 0) = SubSeq(c, start[0], Find(Comma, c, start[0]) - 1)
    BY <1>2, FieldSteps
  <2>2. Field(c, 0) = SubSeq(c, 1, 3)
    <3>1. Find(Comma, c, start[0]) - 1 = 3
      BY <1>6, <2>1
    <3> QED BY <2>1, <3>1, Zenon
  <2> DEFINE g == <<Dollar, report.talker, report.type>>
  <2>3. g \in Seq(Nat) /\ Len(g) = 3 /\ g[1] = Dollar /\ g[2] = report.talker /\ g[3] = report.type
    BY ReportFacts DEF Dollar
  <2> HIDE DEF g
  <2>4. \A j \in 1 .. Len(g) : c[0 + j] = g[j]
    <3>1. \A j \in 1 .. 3 : j = 1 \/ j = 2 \/ j = 3
      OBVIOUS
    <3>2. 0 + 1 = 1 /\ 0 + 2 = 2 /\ 0 + 3 = 3 /\ 1 \in 1 .. m /\ 2 \in 1 .. m /\ 3 \in 1 .. m
      BY <1>2
    <3> QED BY <1>1, <1>2, <2>3, <3>1, <3>2
  <2>5. SubSeq(c, 0 + 1, 0 + Len(g)) = g
    <3>1. 0 + Len(g) <= Len(c)
      BY <1>2, <2>3
    <3> QED BY <1>2, <2>3, <2>4, <3>1, SliceIs
  <2>6. 0 + 1 = 1 /\ 0 + Len(g) = 3
    BY <2>3
  <2> QED BY <2>2, <2>5, <2>6 DEF g
<1>8. PICK start \in [0 .. 1 -> Nat \ {0}] :
        /\ start[0] = 1 /\ start[1] = Find(Comma, c, start[0]) + 1
        /\ Field(c, 1) = SubSeq(c, start[1], Find(Comma, c, start[1]) - 1)
  <2>1. PICK start \in [0 .. 1 -> Nat \ {0}] :
          /\ start[0] = 1 /\ \A k \in 1 .. 1 : start[k] = Find(Comma, c, start[k - 1]) + 1
          /\ Field(c, 1) = SubSeq(c, start[1], Find(Comma, c, start[1]) - 1)
    <3>1. 1 \in Nat /\ c \in Seq(Nat)
      BY <1>2
    <3> QED BY <3>1, FieldSteps, Zenon
  <2>2. 1 \in 1 .. 1 /\ 1 - 1 = 0
    OBVIOUS
  <2>3. start[1] = Find(Comma, c, start[0]) + 1
    BY <2>1, <2>2
  <2> QED BY <2>1, <2>3
<1>9. start[1] = 5
  BY <1>6, <1>8
<1>10. CASE m < 5
  <2>1. Find(Comma, c, 5) = m + 1
    BY <1>2, <1>10, FindFacts
  <2>2. Find(Comma, c, start[1]) - 1 = m
    BY <1>2, <1>9, <2>1
  <2>3. SubSeq(c, 5, m) = <<>>
    BY <1>2, <1>10, SubSeqEmpty
  <2>4. Field(c, 1) = <<>>
    BY <1>8, <1>9, <2>2, <2>3, Zenon
  <2> QED BY <1>7, <2>4 DEF FieldBegun
<1>11. CASE m >= 5
  <2>1. n # 0
    BY <1>1, <1>2, <1>5, <1>11, SMTT(30)
  <2>2. f \in Seq(Ordinary) /\ f \in Seq(Nat) /\ Len(f) \in Nat /\ e[1] = 4 + Len(f) /\ 1 \in DOMAIN report.fields
        /\ \A j \in 1 .. Len(f) : s[4 + j] = f[j]
    BY <1>4, <2>1
  <2> DEFINE j == IF m <= 4 + Len(f) THEN m - 4 ELSE Len(f)
  <2>3. j \in 0 .. Len(f) /\ 4 + j <= m /\ j \in Nat
    BY <1>2, <1>11, <2>2
  <2>4. Found(Comma, c, 5, 5 + j)
    <3>1. 5 + j \in 5 .. Len(c) + 1
      BY <1>2, <2>3
    <3>2. 5 + j <= Len(c) => c[5 + j] = Comma
      <4> SUFFICES ASSUME 5 + j <= Len(c) PROVE c[5 + j] = Comma
        OBVIOUS
      <4>1. j = Len(f) /\ 5 + j = e[1] + 1 /\ 5 + j \in 1 .. m /\ e[1] + 1 <= Len(s)
        <5> DEFINE L == Len(f)
        <5>1. L \in Nat /\ e[1] = 4 + L /\ 5 + j <= m /\ m \in Nat /\ m <= Len(s) /\ Len(s) \in Nat
          BY <1>1, <1>2, <2>2
        <5>2. j = IF m <= 4 + L THEN m - 4 ELSE L
          OBVIOUS
        <5> HIDE DEF j, L
        <5>3. j = L
          BY <5>1, <5>2
        <5>4. 5 + j = e[1] + 1 /\ 5 + j \in 1 .. m /\ e[1] + 1 <= Len(s)
          BY <5>1, <5>3
        <5> QED BY <5>3, <5>4 DEF L
      <4>2. 1 \in 0 .. Len(report.fields)
        BY <1>1, <2>1, SMTT(30) DEF n
      <4>3. Found(Comma, s, FieldStart(e, 1), e[1] + 1)
        BY <4>2, FieldEnd
      <4>4. s[e[1] + 1] = Comma
        BY <4>1, <4>3 DEF Found
      <4> QED BY <1>2, <4>1, <4>4
    <3>3. ASSUME NEW q \in 5 .. (5 + j) - 1 PROVE c[q] # Comma
      <4> DEFINE i == q - 4
      <4>1. i \in 1 .. Len(f) /\ 4 + i = q /\ q \in 1 .. m
        BY <1>2, <2>2, <2>3
      <4> HIDE DEF i
      <4>2. c[q] = f[i] /\ f[i] # Comma
        BY <1>2, <2>2, <4>1, NoComma
      <4> QED BY <4>2
    <3> HIDE DEF j
    <3> QED BY <3>1, <3>2, <3>3 DEF Found
  <2> HIDE DEF j
  <2>5. Find(Comma, c, 5) = 5 + j
    BY <1>2, <2>3, <2>4, FindIs, SMTT(30)
  <2>6. Find(Comma, c, start[1]) - 1 = 4 + j
    BY <1>9, <2>3, <2>5
  <2>7. Field(c, 1) = SubSeq(c, 5, 4 + j)
    BY <1>8, <1>9, <2>6, Zenon
  <2> DEFINE g == SubSeq(f, 1, j)
  <2>8. g \in Seq(Nat) /\ Len(g) = j /\ \A i \in 1 .. j : g[i] = f[i]
    <3>1. Beginning(SubSeq(f, 1, j), f, j)
      BY <2>2, <2>3, BeginningIs
    <3> QED BY <3>1 DEF Beginning
  <2> HIDE DEF g
  <2>9. SubSeq(c, 4 + 1, 4 + Len(g)) = g
    <3>1. 4 + Len(g) <= Len(c) /\ \A i \in 1 .. Len(g) : 4 + i \in 1 .. m /\ i \in 1 .. Len(f) /\ i \in 1 .. j
      <4>1. /\ Len(g) = j /\ Len(c) = m /\ m \in Nat /\ j \in Nat /\ 4 + j <= m /\ Len(f) \in Nat
            /\ j <= Len(f)
        BY <1>2, <2>2, <2>3, <2>8
      <4> QED BY <4>1
    <3>2. \A i \in 1 .. Len(g) : c[4 + i] = g[i]
      BY <1>2, <2>2, <2>8, <3>1
    <3> QED BY <1>2, <2>8, <3>1, <3>2, SliceIs
  <2>10. 4 + 1 = 5 /\ 4 + Len(g) = 4 + j
    BY <2>8
  <2>11. Field(c, 1) = g
    BY <2>7, <2>9, <2>10, Zenon
  <2>12. FieldBegun(Field(c, 1), report, clock)
    BY <2>2, <2>3, <2>11, Zenon DEF g, f, FieldBegun
  <2> QED BY <1>7, <2>12
<1> QED BY <1>2, <1>10, <1>11

-----------------------------------------------------------------------------
(* Sentences.  s is the beginning d and a checksum.                        *)
Sealed(s, d, n) ==
  /\ s \in Seq(Nat) /\ d \in Seq(Nat) /\ Len(d) \in Nat /\ Len(s) = Len(d) + 3
  /\ n \in 0 .. 255
  /\ \A p \in 1 .. Len(d) : s[p] = d[p]
  /\ s[Len(d) + 1] = Star
  /\ s[Len(d) + 2] = HexText(n \div 16) /\ s[Len(d) + 3] = HexText(n % 16)

(* A sentence is its opening, a star and its checksum.                     *)
LEMMA SentenceSealed ==
  ASSUME NEW report, WellFormed(report), NEW t \in Nat
  PROVE  Sealed(Sentence(report, t), Opening(report, t), Sum(Body(report, t)))
<1> DEFINE d == Opening(report, t)  n == Sum(Body(report, t))
           c == <<Star, HexText(n \div 16), HexText(n % 16)>>
<1>1. d \in Seq(Nat) /\ Len(d) \in Nat
  BY BodyAddressed, LenProperties DEF Addressed, FieldAt
<1>2. n \in 0 .. 255
  BY SumFacts
<1>3. Sentence(report, t) = d \o c
  BY DEF Sentence, Opening
<1> HIDE DEF d, n
<1>4. HexText(n \div 16) \in Nat /\ HexText(n % 16) \in Nat
  <2>1. n \div 16 \in 0 .. 15 /\ n % 16 \in 0 .. 15
    BY <1>2
  <2> QED BY <2>1, HexFacts
<1>5. /\ c \in Seq(Nat) /\ Len(c) = 3
      /\ c[1] = Star /\ c[2] = HexText(n \div 16) /\ c[3] = HexText(n % 16)
  BY <1>4 DEF Star
<1> HIDE DEF c
<1>6. /\ d \o c \in Seq(Nat) /\ Len(d \o c) = Len(d) + Len(c)
      /\ \A i \in 1 .. Len(d) + Len(c) : (d \o c)[i] = IF i <= Len(d) THEN d[i] ELSE c[i - Len(d)]
  BY <1>1, <1>5, ConcatProperties
<1> DEFINE s == d \o c
<1>7. /\ s \in Seq(Nat) /\ Len(s) = Len(d) + 3
      /\ \A i \in 1 .. Len(d) + 3 : s[i] = IF i <= Len(d) THEN d[i] ELSE c[i - Len(d)]
  BY <1>5, <1>6
<1> HIDE DEF s
<1> DEFINE N == Len(d)
<1>8. /\ N + 1 \in 1 .. N + 3 /\ ~(N + 1 <= N) /\ (N + 1) - N = 1
      /\ N + 2 \in 1 .. N + 3 /\ ~(N + 2 <= N) /\ (N + 2) - N = 2
      /\ N + 3 \in 1 .. N + 3 /\ ~(N + 3 <= N) /\ (N + 3) - N = 3
      /\ \A i \in 1 .. N : i \in 1 .. N + 3 /\ i <= N
  BY <1>1
<1>9. /\ s[N + 1] = c[1] /\ s[N + 2] = c[2] /\ s[N + 3] = c[3]
      /\ \A i \in 1 .. N : s[i] = d[i]
  BY <1>7, <1>8
<1>10. Sealed(s, d, n)
  BY <1>1, <1>2, <1>5, <1>7, <1>9 DEF Sealed
<1> QED BY <1>3, <1>10 DEF s, d, n

(* The two digits of a checksum say it.                                    *)
LEMMA HexByte ==
  ASSUME NEW n \in 0 .. 255
  PROVE  /\ {HexText(n \div 16), HexText(n % 16)} \subseteq HexDigits
         /\ 16 * HexValue(HexText(n \div 16)) + HexValue(HexText(n % 16)) = n
<1>1. n \div 16 \in 0 .. 15 /\ n % 16 \in 0 .. 15 /\ 16 * (n \div 16) + (n % 16) = n
  OBVIOUS
<1> QED BY <1>1, HexFacts

(* s is d and three more symbols, and those are a star and a checksum.     *)
Opened(s, d)  == s \in Seq(Nat) /\ Len(s) = Len(d) + 3 /\ \A p \in 1 .. Len(d) : s[p] = d[p]
Starred(s, d) == s[Len(d) + 1] = Star /\ {s[Len(d) + 2], s[Len(d) + 3]} \subseteq HexDigits

(* The parser reads the fields of a text that begins as a sentence does.   *)
LEMMA ReadsWhole ==
  ASSUME NEW report, WellFormed(report), NEW t \in Nat, NEW s, Opened(s, Opening(report, t)),
         NEW now
  PROVE  /\ ParseSentence(s, now) \subseteq Reading(FieldsOf(report, ClockText(t)), now)
         /\ Starred(s, Opening(report, t)) /\ report.talker \in Range(Talkers)
            => ParseSentence(s, now) = Reading(FieldsOf(report, ClockText(t)), now)
<1> DEFINE d == Opening(report, t)  clock == ClockText(t)
<1> SUFFICES /\ ParseSentence(s, now) \subseteq Reading(FieldsOf(report, ClockText(t)), now)
             /\ Starred(s, d) /\ report.talker \in Range(Talkers)
                => ParseSentence(s, now) = Reading(FieldsOf(report, ClockText(t)), now)
  OBVIOUS
<1>1. PICK e : Addressed(d, e, report, clock)
  BY BodyAddressed
<1>2. s \in Seq(Nat) /\ Len(s) = Len(d) + 3 /\ \A p \in 1 .. Len(d) : s[p] = d[p]
  BY DEF Opened
<1> HIDE DEF d
<1> DEFINE n == Len(s)  f == [i \in Places |-> Field(SubSeq(s, 1, n - 3), i)]
<1>3. d \in Seq(Nat) /\ Len(d) \in Nat /\ Len(d) >= 3 /\ d[1] = Dollar /\ d[2] = report.talker
  <2>1. d \in Seq(Nat) /\ d[1] = Dollar /\ d[2] = report.talker /\ Len(report.fields) \in Nat
    BY <1>1 DEF Addressed, FieldAt
  <2>2. Len(report.fields) \in 0 .. Len(report.fields)
    BY <2>1
  <2>3. e[Len(report.fields)] \in 3 .. e[Len(report.fields)] /\ Len(d) = e[Len(report.fields)]
    BY <1>1, <2>2 DEF Addressed, FieldAt
  <2> QED BY <2>1, <2>3, LenProperties
<1>4. SubSeq(s, 1, n - 3) = d
  <2>1. 0 + Len(d) <= Len(s) /\ 0 + 1 = 1 /\ 0 + Len(d) = n - 3
    BY <1>2, <1>3
  <2>2. \A j \in 1 .. Len(d) : s[0 + j] = d[j]
    <3>1. \A j \in 1 .. Len(d) : 0 + j = j
      OBVIOUS
    <3> QED BY <1>2, <3>1
  <2>3. SubSeq(s, 0 + 1, 0 + Len(d)) = d
    BY <1>2, <1>3, <2>1, <2>2, SliceIs
  <2> QED BY <2>1, <2>3
<1>5. f = FieldsOf(report, clock)
  <2>1. \A i \in Places : f[i] = FieldsOf(report, clock)[i]
    <3> HIDE DEF clock
    <3>1. \A i \in Places : Field(d, i) = FieldsOf(report, clock)[i]
      BY <1>1, FieldsWhole
    <3>2. \A i \in Places : f[i] = Field(SubSeq(s, 1, n - 3), i)
      OBVIOUS
    <3> HIDE DEF f
    <3> QED BY <1>4, <3>1, <3>2, Zenon
  <2>2. f = [i \in Places |-> f[i]] /\ FieldsOf(report, clock) = [i \in Places |-> FieldsOf(report, clock)[i]]
    BY DEF FieldsOf
  <2> HIDE DEF f
  <2> QED BY <2>1, <2>2
<1> HIDE DEF clock
<1>6. ParseSentence(s, now) =
        IF /\ n >= 5 /\ s[1] = Dollar /\ s[2] \in Range(Talkers)
           /\ s[n - 2] = Star /\ {s[n - 1], s[n]} \subseteq HexDigits
        THEN Reading(FieldsOf(report, clock), now) ELSE {}
  BY <1>5 DEF ParseSentence
<1>7. n >= 5 /\ s[1] = Dollar /\ s[2] = report.talker /\ n - 2 = Len(d) + 1 /\ n - 1 = Len(d) + 2
      /\ n = Len(d) + 3
  <2>1. 1 \in 1 .. Len(d) /\ 2 \in 1 .. Len(d)
    BY <1>3, SMTT(30)
  <2> QED BY <1>2, <1>3, <2>1, SMTT(30)
<1> HIDE DEF n
<1> QED BY <1>6, <1>7 DEF clock, Starred

(* l is s but for the symbol at g, which is a character.                   *)
OneOff(l, s, g) ==
  /\ Len(l) = Len(s) /\ \A q \in 1 .. Len(s) : q # g => l[q] = s[q]
  /\ g \in 1 .. Len(s) => l[g] \in 0 .. 255

(* A line as long as a sentence, with its words and its star, that the     *)
(* checksum accepts although one of its symbols may have changed, has the  *)
(* sentence's text.                                                        *)
LEMMA Caught ==
  ASSUME NEW report, WellFormed(report), NEW t \in Nat, NEW d, d = Opening(report, t),
         NEW s, Sealed(s, d, Sum(Body(report, t))),
         NEW l \in Seq(Nat), NEW h \in Nat, h \in 1 .. Len(s), OneOff(l, s, h),
         h # 1, h # 2, h # 3, h # Len(d) + 1, VerifyChecksum(l)
  PROVE  \A p \in 1 .. Len(d) : l[p] = d[p]
<1> DEFINE b == Body(report, t)  N == Len(d)  z == N + 1
<1>1. Len(l) = Len(s) /\ (\A q \in 1 .. Len(s) : q # h => l[q] = s[q]) /\ l[h] \in 0 .. 255
  BY DEF OneOff
<1> USE <1>1
<1>2. /\ s \in Seq(Nat) /\ d \in Seq(Nat) /\ N \in Nat /\ Len(s) = N + 3
      /\ Sum(b) \in 0 .. 255
      /\ \A p \in 1 .. N : s[p] = d[p]
      /\ s[N + 1] = Star
      /\ s[N + 2] = HexText(Sum(b) \div 16) /\ s[N + 3] = HexText(Sum(b) % 16)
  BY DEF Sealed
<1>3. /\ b \in Seq(Nat) /\ Len(b) \in Nat /\ N = Len(b) + 1
      /\ \A p \in 1 .. Len(b) : d[p + 1] = b[p]
  <2>1. b \in Seq(Nat)
    BY BodyAddressed
  <2> HIDE DEF b
  <2>2. d = <<Dollar>> \o b
    BY DEF b, Opening
  <2> QED BY <2>1, <2>2, Dollared, LenProperties
<1>4. PICK e : Addressed(d, e, report, ClockText(t))
  BY BodyAddressed
<1>5. N >= 3 /\ \A p \in 4 .. N : d[p] \in Ordinary \cup {Comma}
  <2>1. Len(report.fields) \in 0 .. Len(report.fields)
    BY ReportFacts
  <2>2. e[Len(report.fields)] \in 3 .. e[Len(report.fields)] /\ N = e[Len(report.fields)]
    BY <1>4, <2>1 DEF Addressed, FieldAt
  <2>3. \A p \in 4 .. e[Len(report.fields)] : d[p] \in Ordinary \cup {Comma}
    BY <1>4 DEF Addressed, FieldAt
  <2> QED BY <1>2, <2>2, <2>3
<1>6. DOMAIN l = 1 .. N + 3
  BY <1>2, LenProperties
<1> HIDE DEF N
<1>7. PICK star \in DOMAIN l :
        /\ l[star] = Star /\ \A i \in DOMAIN l \ {star} : l[i] # Star
        /\ {l[star + 1], l[star + 2]} \subseteq HexDigits
        /\ Xor(SubSeq(l, 2, star - 1)) = BitsOf(16 * HexValue(l[star + 1]) + HexValue(l[star + 2]))
  BY DEF VerifyChecksum
<1>8. star = N + 1
  <2>1. N + 1 \in DOMAIN l /\ N + 1 \in 1 .. Len(s)
    BY <1>2, <1>6
  <2>2. l[N + 1] = Star
    BY <1>2, <2>1 DEF N
  <2> QED BY <1>7, <2>1, <2>2
<1>9. SUFFICES ASSUME NEW p \in 1 .. N, l[p] # d[p] PROVE FALSE
  BY DEF N
<1>10. p = h /\ p \in 4 .. N
  <2>1. p \in 1 .. Len(s)
    BY <1>2
  <2>2. p = h
    BY <1>2, <1>9, <2>1
  <2>3. p # 1 /\ p # 2 /\ p # 3 /\ p \in Nat
    BY <1>2, <2>2
  <2> QED BY <1>2, <1>5, <2>2, <2>3
<1>11. l[N + 2] = s[N + 2] /\ l[N + 3] = s[N + 3]
  <2>1. N + 2 \in 1 .. Len(s) /\ N + 3 \in 1 .. Len(s) /\ N + 2 # h /\ N + 3 # h
    BY <1>2, <1>10
  <2> QED BY <2>1
<1>12. Xor(SubSeq(l, 2, N)) = Xor(b)
  <2>1. star + 1 = N + 2 /\ star + 2 = N + 3 /\ star - 1 = N
    BY <1>2, <1>8
  <2>2. 16 * HexValue(l[star + 1]) + HexValue(l[star + 2]) = Sum(b)
    <3>1. l[star + 1] = HexText(Sum(b) \div 16) /\ l[star + 2] = HexText(Sum(b) % 16)
      BY <1>2, <1>11, <2>1 DEF N
    <3> HIDE DEF b
    <3> QED BY <1>2, <3>1, HexByte
  <2>3. Xor(SubSeq(l, 2, N)) = BitsOf(Sum(b))
    BY <1>7, <2>1, <2>2
  <2> QED BY <2>3, SumFacts
<1> DEFINE c == SubSeq(l, 2, N)
<1>13. c \in Seq(Nat) /\ Len(c) = Len(b) /\ \A q \in 1 .. Len(b) : c[q] = l[q + 1]
  <2>1. \A q \in 2 .. N : l[q] \in Nat
    <3>1. \A q \in 2 .. N : q \in 1 .. Len(l)
      BY <1>2
    <3> QED BY <3>1, ElementOfSeq
  <2>2. 2 \in Int /\ N \in Int /\ 2 <= N
    BY <1>2, <1>5
  <2>3. /\ c \in Seq(Nat) /\ Len(c) = IF 2 <= N THEN N - 2 + 1 ELSE 0
        /\ \A q \in 1 .. N - 2 + 1 : c[q] = l[2 + q - 1]
    BY <2>1, <2>2, SubSeqProperties
  <2> HIDE DEF c
  <2>4. N - 2 + 1 = Len(b) /\ \A q \in 1 .. Len(b) : 2 + q - 1 = q + 1
    BY <1>3
  <2> QED BY <2>2, <2>3, <2>4
<1> HIDE DEF c, b
<1> DEFINE k == p - 1
<1>14. k \in 1 .. Len(b) /\ k + 1 = p
  BY <1>3, <1>10 DEF N
<1> HIDE DEF k
<1>15. c[k] = l[p] /\ b[k] = d[p]
  BY <1>3, <1>13, <1>14
<1>16. d[p] \in 0 .. 255 /\ l[p] \in 0 .. 255
  <2>1. Ordinary \cup {Comma} \subseteq 0 .. 255
    BY DEF Ordinary, Comma, Dollar, Star, LF
  <2>2. d[p] \in Ordinary \cup {Comma} /\ l[p] \in 0 .. 255
    BY <1>5, <1>10
  <2> QED BY <2>1, <2>2, ZenonT(60)
<1>17. \A q \in 1 .. Len(c) : q # k => c[q] = b[q]
  <2> SUFFICES ASSUME NEW q \in 1 .. Len(c), q # k PROVE c[q] = b[q]
    OBVIOUS
  <2>1. q + 1 \in 1 .. N /\ q + 1 \in 1 .. Len(s) /\ q + 1 # p /\ q \in 1 .. Len(b)
    <3>1. /\ Len(b) \in Nat /\ N = Len(b) + 1 /\ Len(s) = N + 3 /\ Len(c) = Len(b)
          /\ k \in Nat /\ k + 1 = p
      BY <1>2, <1>3, <1>13, <1>14 DEF N
    <3>2. q \in 1 .. Len(b)
      BY <3>1
    <3> QED BY <3>1, <3>2, SMTT(30)
  <2>2. l[q + 1] = d[q + 1]
    BY <1>2, <1>10, <2>1
  <2> QED BY <1>3, <1>13, <2>1, <2>2
<1>18. Xor(c) # Xor(b)
  BY <1>3, <1>9, <1>13, <1>14, <1>15, <1>16, <1>17, XorChange, ZenonT(60)
<1> QED BY <1>12, <1>18 DEF c

(* The opening is a dollar, two words and ordinary characters.             *)
LEMMA OpeningFacts ==
  ASSUME NEW report, WellFormed(report), NEW t \in Nat, NEW d, d = Opening(report, t)
  PROVE  /\ d \in Seq(Nat) /\ Len(d) \in Nat /\ Len(d) >= 3
         /\ d[1] = Dollar /\ d[2] = report.talker /\ d[3] = report.type
         /\ \A p \in 4 .. Len(d) : d[p] \in Ordinary \cup {Comma}
<1>1. PICK e : Addressed(d, e, report, ClockText(t))
  BY BodyAddressed
<1>2. Len(report.fields) \in 0 .. Len(report.fields)
  BY ReportFacts
<1>3. e[Len(report.fields)] \in 3 .. e[Len(report.fields)] /\ Len(d) = e[Len(report.fields)]
  BY <1>1, <1>2 DEF Addressed, FieldAt
<1>4. d \in Seq(Nat) /\ d[1] = Dollar /\ d[2] = report.talker /\ d[3] = report.type
      /\ \A p \in 4 .. e[Len(report.fields)] : d[p] \in Ordinary \cup {Comma}
  BY <1>1 DEF Addressed, FieldAt
<1> QED BY <1>3, <1>4, LenProperties

(* The symbols of a sentence, whose opening is N long.                     *)
Spelled(s, report, N) ==
  /\ s \in Seq(Nat) /\ N \in Nat /\ N >= 3 /\ Len(s) = N + 3
  /\ s[1] = Dollar /\ s[2] = report.talker /\ s[3] = report.type
  /\ \A p \in 4 .. N : s[p] \in Ordinary \cup {Comma}
  /\ s[N + 1] = Star /\ {s[N + 2], s[N + 3]} \subseteq HexDigits

(* The symbols of the sentence of a report.                                *)
LEMMA SentenceSpelled ==
  ASSUME NEW report, WellFormed(report), NEW t \in Nat
  PROVE  Spelled(Sentence(report, t), report, Len(Opening(report, t)))
<1> DEFINE s == Sentence(report, t)  d == Opening(report, t)  N == Len(d)  n == Sum(Body(report, t))
<1>1. /\ d \in Seq(Nat) /\ N \in Nat /\ N >= 3
      /\ d[1] = Dollar /\ d[2] = report.talker /\ d[3] = report.type
      /\ \A p \in 4 .. N : d[p] \in Ordinary \cup {Comma}
  <2> HIDE DEF d
  <2> QED BY OpeningFacts DEF d
<1>2. /\ s \in Seq(Nat) /\ Len(s) = N + 3 /\ n \in 0 .. 255
      /\ \A p \in 1 .. N : s[p] = d[p]
      /\ s[N + 1] = Star
      /\ s[N + 2] = HexText(n \div 16) /\ s[N + 3] = HexText(n % 16)
  BY SentenceSealed DEF Sealed
<1> HIDE DEF s, d, n
<1>3. {s[N + 2], s[N + 3]} \subseteq HexDigits
  BY <1>2, HexByte, ZenonT(60)
<1>4. 1 \in 1 .. N /\ 2 \in 1 .. N /\ 3 \in 1 .. N /\ \A p \in 4 .. N : p \in 1 .. N
  BY <1>1
<1> QED BY <1>1, <1>2, <1>3, <1>4 DEF Spelled, s, d

(* The driver accepts the sentences it supports, and reads their fields.   *)
LEMMA SentenceAccepted ==
  ASSUME NEW report, WellFormed(report), Supported(report), NEW t \in Nat, NEW now
  PROVE  OnText(Sentence(report, t), now) = Reading(FieldsOf(report, ClockText(t)), now)
<1> DEFINE s == Sentence(report, t)  d == Opening(report, t)  N == Len(d)  b == Body(report, t)
           n == Sum(b)
<1>1. Spelled(s, report, N)
  BY SentenceSpelled
<1>2. /\ d \in Seq(Nat) /\ n \in 0 .. 255 /\ \A p \in 1 .. N : s[p] = d[p]
      /\ s[N + 2] = HexText(n \div 16) /\ s[N + 3] = HexText(n % 16)
  BY SentenceSealed DEF Sealed
<1>3. b \in Seq(Nat) /\ N = Len(b) + 1 /\ Len(b) \in Nat /\ \A p \in 1 .. Len(b) : d[p + 1] = b[p]
  <2>1. b \in Seq(Nat)
    BY BodyAddressed
  <2> HIDE DEF b
  <2>2. d = <<Dollar>> \o b
    BY DEF b, Opening
  <2> QED BY <2>1, <2>2, Dollared, LenProperties
<1> HIDE DEF s, d, b, n
<1>4. /\ s \in Seq(Nat) /\ N \in Nat /\ N >= 3 /\ Len(s) = N + 3
      /\ s[1] = Dollar /\ s[2] = report.talker /\ s[3] = report.type
      /\ (\A p \in 4 .. N : s[p] \in Ordinary \cup {Comma})
      /\ s[N + 1] = Star /\ {s[N + 2], s[N + 3]} \subseteq HexDigits
  BY <1>1 DEF Spelled
<1> HIDE DEF N
<1>5. DOMAIN s = 1 .. N + 3
  BY <1>4, LenProperties
<1>6. ASSUME NEW i \in DOMAIN s \ {N + 1} PROVE s[i] # Star
  <2>1. i \in Nat /\ i >= 1 /\ i <= N + 3 /\ i # N + 1
    BY <1>4, <1>5
  <2>2. i = 1 \/ i = 2 \/ i = 3 \/ i \in 4 .. N \/ i = N + 2 \/ i = N + 3
    BY <1>4, <2>1
  <2>3. s[1] # Star /\ s[2] # Star /\ s[3] # Star
    <3>1. report.talker > 255 /\ report.type > 255
      BY ReportFacts
    <3> QED BY <1>4, <3>1, SMTT(30) DEF Dollar, Star
  <2>4. \A p \in 4 .. N : s[p] # Star
    <3>1. Star \notin Ordinary \cup {Comma}
      BY DEF Star, Ordinary, Comma
    <3> QED BY <1>4, <3>1
  <2>5. s[N + 2] # Star /\ s[N + 3] # Star
    BY <1>4, NotHex
  <2> QED BY <2>2, <2>3, <2>4, <2>5
<1>7. SubSeq(s, 2, N) = b
  <2>1. \A j \in 1 .. Len(b) : s[1 + j] = b[j]
    <3> SUFFICES ASSUME NEW j \in 1 .. Len(b) PROVE s[1 + j] = b[j]
      OBVIOUS
    <3>1. j + 1 \in 1 .. N /\ 1 + j = j + 1
      BY <1>3
    <3> QED BY <1>2, <1>3, <3>1
  <2>2. 1 + Len(b) <= Len(s) /\ 1 + 1 = 2 /\ 1 + Len(b) = N
    BY <1>3, <1>4
  <2>3. SubSeq(s, 1 + 1, 1 + Len(b)) = b
    BY <1>3, <1>4, <2>1, <2>2, SliceIs
  <2> QED BY <2>2, <2>3
<1>8. VerifyChecksum(s)
  <2> DEFINE star == N + 1
  <2>1. star + 1 = N + 2 /\ star + 2 = N + 3 /\ star - 1 = N /\ star \in DOMAIN s /\ Len(s) = star + 2
    BY <1>4, <1>5
  <2>2. 16 * HexValue(s[star + 1]) + HexValue(s[star + 2]) = n
    BY <1>2, <2>1, HexByte, ZenonT(60)
  <2>3. Xor(SubSeq(s, 2, star - 1)) = BitsOf(16 * HexValue(s[star + 1]) + HexValue(s[star + 2]))
    BY <1>7, <2>1, <2>2, SumFacts DEF n
  <2>4. s[star] = Star /\ (\A i \in DOMAIN s \ {star} : s[i] # Star)
        /\ {s[star + 1], s[star + 2]} \subseteq HexDigits /\ s[1] = Dollar
    BY <1>4, <1>6, <2>1
  <2> HIDE DEF star
  <2> QED BY <2>1, <2>3, <2>4 DEF VerifyChecksum
<1>9. ParseSentence(s, now) = Reading(FieldsOf(report, ClockText(t)), now)
  <2>1. report.talker \in Range(Talkers)
    BY DEF Supported
  <2>2. d = Opening(report, t)
    BY DEF d
  <2>3. Opened(s, d) /\ Starred(s, d)
    BY <1>2, <1>4 DEF Opened, Starred, N
  <2> QED BY <2>1, <2>2, <2>3, ReadsWhole
<1> QED BY <1>8, <1>9 DEF OnText, s

-----------------------------------------------------------------------------
(* Datagrams.  x is the text of the first m lines, line i of which ends at *)
(* e[i].                                                                   *)
Laid(x, e, m, reports, t) ==
  /\ x \in Seq(Nat) /\ Len(x) = e[m] /\ e[0] = 0
  /\ \A i, j \in 0 .. m : e[i] \in Nat /\ (i <= j => e[i] <= e[j])
  /\ \A i \in 1 .. m : LET s == Sentence(reports[i], t) IN
       /\ Len(s) \in Nat /\ e[i] = e[i - 1] + Len(s) + 2
       /\ \A p \in 1 .. Len(s) : x[e[i - 1] + p] = s[p]
       /\ x[e[i] - 1] = CR /\ x[e[i]] = LF
  /\ \A p \in 1 .. e[m] : \E i \in 1 .. m : p \in e[i - 1] + 1 .. e[i]

(* c is x, s and the end of a line.                                        *)
Ended(c, x, s) ==
  /\ c \in Seq(Nat) /\ Len(s) \in Nat /\ Len(c) = Len(x) + Len(s) + 2
  /\ \A p \in 1 .. Len(x) : c[p] = x[p]
  /\ \A p \in 1 .. Len(s) : c[Len(x) + p] = s[p]
  /\ c[Len(x) + Len(s) + 1] = CR /\ c[Len(x) + Len(s) + 2] = LF

(* Appending a line ends it with CR and LF.                                *)
LEMMA AppendLine ==
  ASSUME NEW x \in Seq(Nat), NEW s \in Seq(Nat)
  PROVE  Ended(x \o s \o <<CR, LF>>, x, s)
<1> DEFINE d == <<CR, LF>>  xs == x \o s
<1>1. d \in Seq(Nat) /\ Len(d) = 2 /\ d[1] = CR /\ d[2] = LF /\ Len(x) \in Nat /\ Len(s) \in Nat
  BY LenProperties DEF CR, LF
<1> HIDE DEF d
<1>2. /\ xs \in Seq(Nat) /\ Len(xs) = Len(x) + Len(s)
      /\ \A i \in 1 .. Len(x) + Len(s) : xs[i] = IF i <= Len(x) THEN x[i] ELSE s[i - Len(x)]
  BY ConcatProperties
<1> HIDE DEF xs
<1>3. /\ xs \o d \in Seq(Nat) /\ Len(xs \o d) = Len(xs) + Len(d)
      /\ \A i \in 1 .. Len(xs) + Len(d) :
           (xs \o d)[i] = IF i <= Len(xs) THEN xs[i] ELSE d[i - Len(xs)]
  <2>1. xs \in Seq(Nat)
    BY <1>2
  <2> QED BY <1>1, <2>1, ConcatProperties
<1> DEFINE c == xs \o d
<1>4. /\ c \in Seq(Nat) /\ Len(c) = Len(xs) + Len(d)
      /\ \A i \in 1 .. Len(xs) + Len(d) :
           c[i] = IF i <= Len(xs) THEN xs[i] ELSE d[i - Len(xs)]
  BY <1>3
<1> HIDE DEF c
<1> DEFINE X == Len(x)  S == Len(s)
<1>5. X \in Nat /\ S \in Nat /\ Len(xs) = X + S /\ Len(c) = X + S + 2
  BY <1>1, <1>2, <1>4
<1>6. ASSUME NEW i \in 1 .. X PROVE c[i] = x[i]
  <2>1. i \in 1 .. X + S /\ i \in 1 .. Len(xs) + Len(d) /\ i <= Len(xs)
    BY <1>1, <1>5
  <2> QED BY <1>2, <1>4, <2>1, SMTT(30)
<1>7. ASSUME NEW j \in 1 .. S PROVE c[X + j] = s[j]
  <2>1. /\ X + j \in 1 .. X + S /\ X + j \in 1 .. Len(xs) + Len(d) /\ X + j <= Len(xs)
        /\ ~(X + j <= X) /\ (X + j) - X = j
    BY <1>1, <1>5
  <2>2. c[X + j] = xs[X + j]
    BY <1>4, <2>1
  <2>3. xs[X + j] = s[j]
    BY <1>2, <2>1
  <2> QED BY <2>2, <2>3
<1>8. c[X + S + 1] = CR /\ c[X + S + 2] = LF
  <2>1. /\ X + S + 1 \in 1 .. Len(xs) + Len(d) /\ ~(X + S + 1 <= Len(xs)) /\ (X + S + 1) - Len(xs) = 1
        /\ X + S + 2 \in 1 .. Len(xs) + Len(d) /\ ~(X + S + 2 <= Len(xs)) /\ (X + S + 2) - Len(xs) = 2
    BY <1>1, <1>5
  <2> QED BY <1>1, <1>4, <2>1
<1>9. Ended(c, x, s)
  BY <1>1, <1>4, <1>5, <1>6, <1>7, <1>8 DEF Ended
<1> QED BY <1>9 DEF c, xs, d

(* One more line is laid after the others.                                 *)
LEMMA LayLine ==
  ASSUME NEW reports, NEW t, NEW e, NEW m \in Nat, NEW x, Laid(x, e, m, reports, t),
         NEW c, Ended(c, x, Sentence(reports[m + 1], t)), e[m + 1] = Len(c)
  PROVE  Laid(c, e, m + 1, reports, t)
<1> DEFINE S(i) == Sentence(reports[i], t)  s == S(m + 1)  X == e[m]  L == Len(s)
<1>1. /\ x \in Seq(Nat) /\ Len(x) = X /\ X \in Nat /\ e[0] = 0
      /\ \A i, j \in 0 .. m : e[i] \in Nat /\ (i <= j => e[i] <= e[j])
  <2>1. m \in 0 .. m
    OBVIOUS
  <2> QED BY <2>1 DEF Laid
<1>2. \A i \in 1 .. m :
       /\ Len(S(i)) \in Nat /\ e[i] = e[i - 1] + Len(S(i)) + 2
       /\ \A p \in 1 .. Len(S(i)) : x[e[i - 1] + p] = S(i)[p]
       /\ x[e[i] - 1] = CR /\ x[e[i]] = LF
  BY DEF Laid
<1>3. \A p \in 1 .. X : \E i \in 1 .. m : p \in e[i - 1] + 1 .. e[i]
  BY DEF Laid
<1>4. /\ c \in Seq(Nat) /\ L \in Nat /\ e[m + 1] = X + L + 2
      /\ \A p \in 1 .. X : c[p] = x[p]
      /\ \A p \in 1 .. L : c[X + p] = s[p]
      /\ c[X + L + 1] = CR /\ c[X + L + 2] = LF
  BY <1>1 DEF Ended
<1> HIDE DEF S, s, X, L
<1>5. ASSUME NEW i \in 0 .. m + 1, NEW j \in 0 .. m + 1
      PROVE  e[i] \in Nat /\ (i <= j => e[i] <= e[j])
  <2>1. \A k \in 0 .. m : e[k] \in Nat /\ e[k] <= X
    <3>1. m \in 0 .. m /\ \A k \in 0 .. m : k <= m
      OBVIOUS
    <3> QED BY <1>1, <3>1 DEF X
  <2>2. e[m + 1] \in Nat /\ X <= e[m + 1]
    BY <1>1, <1>4
  <2>3. CASE i \in 0 .. m /\ j \in 0 .. m
    BY <1>1, <2>3
  <2>4. CASE i = m + 1
    <3>1. i <= j => j = m + 1
      BY <2>4
    <3> QED BY <2>2, <2>4, <3>1
  <2>5. CASE i \in 0 .. m /\ j = m + 1
    <3>1. e[i] \in Nat /\ e[i] <= X
      BY <2>1, <2>5
    <3> QED BY <1>1, <2>2, <2>5, <3>1
  <2> QED BY <2>3, <2>4, <2>5
<1>6. ASSUME NEW i \in 1 .. m + 1
      PROVE  /\ Len(S(i)) \in Nat /\ e[i] = e[i - 1] + Len(S(i)) + 2
             /\ \A p \in 1 .. Len(S(i)) : c[e[i - 1] + p] = S(i)[p]
             /\ c[e[i] - 1] = CR /\ c[e[i]] = LF
  <2>1. CASE i = m + 1
    <3>1. i - 1 = m /\ e[i] - 1 = X + L + 1 /\ e[i] = X + L + 2
      BY <1>1, <1>4, <2>1, SMTT(30)
    <3> QED BY <1>4, <2>1, <3>1 DEF s, X, L
  <2>2. CASE i # m + 1
    <3> DEFINE a == e[i - 1]  z == e[i]  u == S(i)
    <3>1. i \in 1 .. m /\ i - 1 \in 0 .. m /\ i \in 0 .. m /\ m \in 0 .. m /\ i <= m
      BY <2>2
    <3>2. a \in Nat /\ z \in Nat /\ z <= X
      BY <1>1, <3>1 DEF X
    <3>3. /\ Len(u) \in Nat /\ z = a + Len(u) + 2
          /\ \A p \in 1 .. Len(u) : x[a + p] = u[p]
          /\ x[z - 1] = CR /\ x[z] = LF
      BY <1>2, <3>1
    <3> HIDE DEF a, z, u
    <3>4. z - 1 \in 1 .. X /\ z \in 1 .. X /\ \A p \in 1 .. Len(u) : a + p \in 1 .. X
      <4> DEFINE l == Len(u)
      <4>1. l \in Nat /\ z = a + l + 2 /\ a \in Nat /\ z <= X /\ X \in Nat
        BY <1>1, <3>2, <3>3
      <4> HIDE DEF l
      <4>2. z - 1 \in 1 .. X /\ z \in 1 .. X /\ \A p \in 1 .. l : a + p \in 1 .. X
        BY <4>1
      <4> QED BY <4>2 DEF l
    <3>5. /\ \A p \in 1 .. Len(u) : c[a + p] = u[p]
          /\ c[z - 1] = CR /\ c[z] = LF
      BY <1>4, <3>3, <3>4
    <3> QED BY <3>3, <3>5 DEF a, z, u
  <2> QED BY <2>1, <2>2
<1>7. ASSUME NEW p \in 1 .. e[m + 1] PROVE \E i \in 1 .. m + 1 : p \in e[i - 1] + 1 .. e[i]
  <2>1. CASE p <= X
    <3>1. p \in 1 .. X
      BY <1>1, <2>1
    <3>2. PICK i \in 1 .. m : p \in e[i - 1] + 1 .. e[i]
      BY <1>3, <3>1
    <3>3. i \in 1 .. m + 1
      OBVIOUS
    <3> QED BY <3>2, <3>3
  <2>2. CASE p > X
    <3>1. p \in X + 1 .. e[m + 1]
      BY <1>1, <1>4, <2>2
    <3>2. m + 1 \in 1 .. m + 1 /\ (m + 1) - 1 = m
      OBVIOUS
    <3>3. p \in e[(m + 1) - 1] + 1 .. e[m + 1]
      BY <3>1, <3>2 DEF X
    <3> QED BY <3>2, <3>3
  <2> QED BY <1>1, <1>4, <2>1, <2>2
<1>8. e[0] = 0 /\ c \in Seq(Nat) /\ Len(c) = e[m + 1]
  BY <1>1, <1>4
<1> QED BY <1>5, <1>6, <1>7, <1>8 DEF Laid, S

(* The text of a datagram has the sentences of its reports line by line.   *)
LEMMA TextLaid ==
  ASSUME NEW reports \in Datagrams, NEW t \in Nat
  PROVE  /\ Len(reports) \in Nat /\ DOMAIN reports = 1 .. Len(reports)
         /\ \A i \in 1 .. Len(reports) : WellFormed(reports[i])
         /\ Laid(Text(reports, t), Ends(reports, t), Len(reports), reports, t)
<1> DEFINE n == Len(reports)  S(i) == Sentence(reports[i], t)
           x == Lines(reports, t)  e == Ends(reports, t)
<1>1. reports \in Seq(ToSet(reports)) /\ \A report \in ToSet(reports) : WellFormed(report)
  BY ReportsAssumption
<1>2. n \in Nat /\ DOMAIN reports = 1 .. n
  BY <1>1, LenProperties
<1>3. \A i \in 1 .. n : WellFormed(reports[i])
  BY <1>1, <1>2, ElementOfSeq
<1>4. \A i \in 1 .. n : S(i) \in Seq(Nat)
  BY <1>3, SentenceSpelled DEF Spelled
<1>5. /\ x \in [0 .. n -> Seq(Nat)] /\ x[0] = <<>>
      /\ \A i \in 1 .. n : x[i] = x[i - 1] \o S(i) \o <<CR, LF>>
  <2> HIDE DEF n
  <2> QED BY <1>2, <1>4, LinesSteps DEF n
<1>6. Text(reports, t) = x[n] /\ e = [i \in 0 .. n |-> Len(x[i])]
  BY DEF Text, Ends
<1> HIDE DEF n, x, e
<1>7. \A i \in 0 .. n : e[i] = Len(x[i])
  BY <1>6
<1> DEFINE OK == {m \in 0 .. n : Laid(x[m], e, m, reports, t)}
<1>8. 0 \in OK
  <2>1. 0 \in 0 .. n
    BY <1>2
  <2>2. x[0] \in Seq(Nat) /\ Len(x[0]) = e[0] /\ e[0] = 0
    <3>1. Len(x[0]) = 0 /\ x[0] \in Seq(Nat)
      BY <1>5, EmptySeq
    <3> QED BY <1>7, <2>1, <3>1
  <2>3. \A i \in 0 .. 0 : e[i] = 0
    BY <2>2
  <2>4. Laid(x[0], e, 0, reports, t)
    BY <2>2, <2>3 DEF Laid
  <2> QED BY <2>1, <2>4
<1>9. ASSUME NEW m \in 0 .. n - 1, m \in OK PROVE m + 1 \in OK
  <2>1. m \in Nat /\ m \in 0 .. n /\ m + 1 \in 0 .. n /\ m + 1 \in 1 .. n /\ (m + 1) - 1 = m
    BY <1>2
  <2>2. x[m + 1] = x[m] \o S(m + 1) \o <<CR, LF>> /\ x[m] \in Seq(Nat) /\ S(m + 1) \in Seq(Nat)
    BY <1>4, <1>5, <2>1
  <2>3. Ended(x[m] \o S(m + 1) \o <<CR, LF>>, x[m], S(m + 1))
    <3> HIDE DEF S
    <3> QED BY <2>2, AppendLine
  <2>4. Ended(x[m + 1], x[m], S(m + 1))
    BY <2>2, <2>3, Zenon
  <2>5. e[m + 1] = Len(x[m + 1]) /\ Laid(x[m], e, m, reports, t)
    BY <1>7, <1>9, <2>1
  <2>6. Laid(x[m + 1], e, m + 1, reports, t)
    BY <2>1, <2>4, <2>5, LayLine
  <2> QED BY <2>1, <2>6
<1>10. n \in OK
  <2>1. \A m \in 0 .. n : m \in OK
    <3> HIDE DEF OK
    <3> QED BY <1>2, <1>8, <1>9, AllTheWay
  <2>2. n \in 0 .. n
    BY <1>2
  <2> QED BY <2>1, <2>2
<1> QED BY <1>2, <1>3, <1>6, <1>10 DEF n, e

(* A line of a datagram.                                                   *)
LineAt(x, a, z, s, N) ==
  /\ a \in Nat /\ z = a + N + 5 /\ z <= Len(x)
  /\ \A q \in 1 .. N + 3 : x[a + q] = s[q]
  /\ x[a + 1] = Dollar /\ x[z - 4] = Star /\ x[z - 1] = CR /\ x[z] = LF

(* A line of a datagram is the sentence of its report.                     *)
LEMMA LineText ==
  ASSUME NEW reports \in Datagrams, NEW t \in Nat, NEW x, x = Text(reports, t),
         NEW e, e = Ends(reports, t), NEW i \in 1 .. Len(reports)
  PROVE  /\ Spelled(Sentence(reports[i], t), reports[i], Len(Opening(reports[i], t)))
         /\ LineAt(x, e[i - 1], e[i], Sentence(reports[i], t), Len(Opening(reports[i], t)))
<1> DEFINE n == Len(reports)  s == Sentence(reports[i], t)  N == Len(Opening(reports[i], t))
           a == e[i - 1]  z == e[i]
<1>1. WellFormed(reports[i]) /\ Laid(x, e, n, reports, t) /\ n \in Nat
  BY TextLaid
<1>2. Spelled(s, reports[i], N)
  BY <1>1, SentenceSpelled
<1>3. /\ i - 1 \in 0 .. n /\ i \in 0 .. n /\ n \in 0 .. n /\ i <= n
  BY <1>1
<1>4. a \in Nat /\ z <= Len(x)
  BY <1>1, <1>3 DEF Laid
<1>5. /\ z = a + Len(s) + 2 /\ \A p \in 1 .. Len(s) : x[a + p] = s[p]
      /\ x[z - 1] = CR /\ x[z] = LF
  BY <1>1 DEF Laid
<1> HIDE DEF s, N, a, z
<1>6. N \in Nat /\ N >= 3 /\ Len(s) = N + 3 /\ s[1] = Dollar /\ s[N + 1] = Star
  BY <1>2 DEF Spelled
<1>7. /\ z = a + N + 5 /\ z - 4 = a + (N + 1)
      /\ 1 \in 1 .. Len(s) /\ N + 1 \in 1 .. Len(s)
  BY <1>4, <1>5, <1>6
<1>8. LineAt(x, a, z, s, N)
  BY <1>4, <1>5, <1>6, <1>7 DEF LineAt
<1> QED BY <1>2, <1>8 DEF s, N, a, z

(* Words, stars and line feeds are at their places.                        *)
Marked(x, a, z) ==
  \A p \in a + 1 .. z :
    /\ x[p] > 255 => p = a + 2 \/ p = a + 3
    /\ x[p] = Star => p = z - 4
    /\ x[p] = LF => p = z

(* In a line the words, the star and the line feed are at one place each.  *)
LEMMA Whereabouts ==
  ASSUME NEW reports \in Datagrams, NEW t \in Nat, NEW x, x = Text(reports, t),
         NEW e, e = Ends(reports, t), NEW i \in 1 .. Len(reports)
  PROVE  Marked(x, e[i - 1], e[i])
<1> DEFINE s == Sentence(reports[i], t)  N == Len(Opening(reports[i], t))  a == e[i - 1]  z == e[i]
<1> SUFFICES ASSUME NEW p \in a + 1 .. z
             PROVE  /\ x[p] > 255 => p = a + 2 \/ p = a + 3
                    /\ x[p] = Star => p = z - 4
                    /\ x[p] = LF => p = z
  BY DEF Marked
<1> DEFINE q == p - a
<1>1. Spelled(s, reports[i], N) /\ LineAt(x, a, z, s, N)
  BY LineText
<1>2. reports[i].talker > 255 /\ reports[i].type > 255 /\ p \in a + 1 .. z
  BY TextLaid, ReportFacts
<1> HIDE DEF s, N, a, z
<1>3. /\ N \in Nat /\ N >= 3 /\ s[1] = Dollar
      /\ (\A k \in 4 .. N : s[k] \in Ordinary \cup {Comma})
      /\ s[2] = reports[i].talker /\ s[3] = reports[i].type
      /\ s[N + 1] = Star /\ {s[N + 2], s[N + 3]} \subseteq HexDigits
  BY <1>1 DEF Spelled
<1>4. /\ a \in Nat /\ z = a + N + 5 /\ x[z - 1] = CR /\ x[z] = LF
      /\ \A k \in 1 .. N + 3 : x[a + k] = s[k]
  BY <1>1 DEF LineAt
<1>5. /\ q \in Nat /\ a + q = p /\ q >= 1 /\ q <= N + 5
  BY <1>2, <1>3, <1>4
<1> HIDE DEF q
<1>6. /\ q \in 1 .. N + 3 => x[p] = s[q]
      /\ q = N + 4 => x[p] = CR
      /\ q = N + 5 => p = z
  <2>1. q = N + 4 => p = z - 1
    BY <1>2, <1>3, <1>4, <1>5, SMTT(30)
  <2>2. q = N + 5 => p = z
    BY <1>2, <1>3, <1>4, <1>5
  <2> QED BY <1>4, <1>5, <2>1, <2>2
<1>7. CASE q = 1
  <2>1. x[p] = Dollar
    BY <1>3, <1>4, <1>5, <1>6, <1>7
  <2>2. Dollar # Star /\ Dollar # LF /\ ~(Dollar > 255)
    BY DEF Dollar, Star, LF
  <2> QED BY <2>1, <2>2
<1>8. CASE q = 2 \/ q = 3
  <2>1. x[p] > 255 /\ (p = a + 2 \/ p = a + 3)
    BY <1>2, <1>3, <1>5, <1>6, <1>8, SMTT(30)
  <2>2. ~(Star > 255) /\ ~(LF > 255)
    BY DEF Star, LF
  <2>3. x[p] # Star /\ x[p] # LF
    BY <2>1, <2>2
  <2> QED BY <2>1, <2>3
<1>9. CASE q \in 4 .. N
  <2>1. x[p] \in Ordinary \cup {Comma}
    BY <1>3, <1>6, <1>9
  <2>2. \A c \in Ordinary \cup {Comma} : ~(c > 255) /\ c # Star /\ c # LF
    BY DEF Ordinary, Comma, Dollar, Star, LF
  <2> QED BY <2>1, <2>2
<1>10. CASE q = N + 1
  <2>1. x[p] = Star /\ p = z - 4
    BY <1>3, <1>4, <1>5, <1>6, <1>10
  <2> QED BY <2>1 DEF Star, LF
<1>11. CASE q = N + 2 \/ q = N + 3
  <2>1. x[p] \in HexDigits
    BY <1>3, <1>6, <1>11, SMTT(30)
  <2>2. LF \notin HexDigits
    BY DEF LF, HexDigits, Digits
  <2>3. x[p] \in 0 .. 255 /\ x[p] # Star /\ x[p] # LF
    BY <2>1, <2>2, NotHex
  <2>4. \A c \in 0 .. 255 : ~(c > 255)
    OBVIOUS
  <2> QED BY <2>3, <2>4
<1>12. CASE q = N + 4
  <2>1. x[p] = CR
    BY <1>6, <1>12
  <2> QED BY <2>1 DEF CR, Star, LF
<1>13. CASE q = N + 5
  <2>1. x[p] = LF /\ p = z
    BY <1>4, <1>6, <1>13
  <2> QED BY <2>1 DEF Star, LF
<1>14. q = 1 \/ q = 2 \/ q = 3 \/ q \in 4 .. N \/ q = N + 1 \/ q = N + 2 \/ q = N + 3
         \/ q = N + 4 \/ q = N + 5
  BY <1>3, <1>5
<1> QED BY <1>7, <1>8, <1>9, <1>10, <1>11, <1>12, <1>13, <1>14

-----------------------------------------------------------------------------
(* Lines of what was received, w.  The line from a to before b is l, which *)
(* is at u .. v once it is trimmed.                                        *)
TrimmedLine(l, w, a, b, u, v) ==
  /\ a \in Nat /\ a >= 1 /\ u \in Nat /\ v \in Nat /\ b \in Nat
  /\ a <= u /\ u <= v /\ v < b /\ b <= Len(w) + 1
  /\ l \in Seq(Nat) /\ Len(l) = (v - u) + 1 /\ \A q \in 1 .. Len(l) : l[q] = w[(u - 1) + q]
  /\ w[u] \notin Blanks /\ w[v] \notin Blanks
  /\ \A p \in a .. u - 1 : w[p] \in Blanks
  /\ \A p \in v + 1 .. b - 1 : w[p] \in Blanks
  /\ \A p \in a .. b - 1 : w[p] # LF
  /\ b <= Len(w) => w[b] = LF

(* A line that is not blank is trimmed to its ink.                         *)
LEMMA LineTrimmed ==
  ASSUME NEW w \in Seq(Nat), NEW a \in Nat \ {0}, NEW b, b = Find(LF, w, a),
         NEW l, l = Trim(SubSeq(w, a, b - 1)), l # <<>>
  PROVE  \E u, v \in Nat : TrimmedLine(l, w, a, b, u, v)
<1> DEFINE s == SubSeq(w, a, b - 1)
<1>1. Len(w) \in Nat /\ b \in 1 .. Len(w) + 1 /\ (a > Len(w) => b = Len(w) + 1)
      /\ (a <= Len(w) + 1 => Found(LF, w, a, b))
  BY FindFacts, LenProperties
<1>2. /\ s \in Seq(Nat) /\ Len(s) = IF a <= b - 1 THEN (b - 1) - a + 1 ELSE 0
      /\ \A i \in 1 .. (b - 1) - a + 1 : s[i] = w[a + i - 1]
  <2>1. \A i \in a .. b - 1 : w[i] \in Nat
    <3>1. \A i \in a .. b - 1 : i \in 1 .. Len(w)
      BY <1>1
    <3> QED BY <3>1, ElementOfSeq
  <2>2. a \in Int /\ b - 1 \in Int
    BY <1>1
  <2> QED BY <2>1, <2>2, SubSeqProperties
<1>3. l = Trim(s)
  OBVIOUS
<1> HIDE DEF s
<1>4. PICK x, y \in 1 .. Len(s) : Inked(s, x, y) /\ l = SubSeq(s, x, y)
  BY <1>2, <1>3, TrimFacts
<1>5. Len(s) \in Nat /\ x \in 1 .. Len(s) /\ y \in 1 .. Len(s) /\ x <= y
  BY <1>2, <1>4, LenProperties DEF Inked
<1>6. a <= b - 1 /\ Len(s) = b - a /\ a <= Len(w)
  <2>1. Len(s) # 0 /\ Len(s) = IF a <= b - 1 THEN (b - 1) - a + 1 ELSE 0
    BY <1>2, <1>5
  <2>2. a <= b - 1 /\ Len(s) = (b - 1) - a + 1
    BY <2>1, Zenon
  <2> HIDE DEF s
  <2> QED BY <1>1, <2>2, SMTT(30)
<1>7. Found(LF, w, a, b)
  BY <1>1, <1>6
<1> DEFINE u == (a - 1) + x  v == (a - 1) + y
<1>8. u \in Nat /\ v \in Nat /\ a <= u /\ u <= v /\ v < b /\ b <= Len(w) + 1
  BY <1>1, <1>5, <1>6
<1>9. \A i \in 1 .. Len(s) : s[i] = w[(a - 1) + i]
  <2> SUFFICES ASSUME NEW i \in 1 .. Len(s) PROVE s[i] = w[(a - 1) + i]
    OBVIOUS
  <2>1. i \in 1 .. (b - 1) - a + 1 /\ a + i - 1 = (a - 1) + i
    BY <1>1, <1>6
  <2> QED BY <1>2, <2>1
<1>10. l \in Seq(Nat) /\ Len(l) = (y - x) + 1 /\ \A q \in 1 .. Len(l) : l[q] = s[(x - 1) + q]
  <2>1. \A i \in x .. y : s[i] \in Nat
    <3>1. \A i \in x .. y : i \in 1 .. Len(s)
      BY <1>5
    <3> QED BY <1>2, <3>1, ElementOfSeq
  <2>2. x \in Int /\ y \in Int /\ x <= y
    BY <1>5
  <2>3. /\ SubSeq(s, x, y) \in Seq(Nat) /\ Len(SubSeq(s, x, y)) = IF x <= y THEN y - x + 1 ELSE 0
        /\ \A i \in 1 .. y - x + 1 : SubSeq(s, x, y)[i] = s[x + i - 1]
    BY <2>1, <2>2, SubSeqProperties
  <2>4. /\ l \in Seq(Nat) /\ Len(l) = IF x <= y THEN y - x + 1 ELSE 0
        /\ \A i \in 1 .. y - x + 1 : l[i] = s[x + i - 1]
    BY <1>4, <2>3, Zenon
  <2>5. y - x + 1 = (y - x) + 1 /\ \A q \in 1 .. y - x + 1 : x + q - 1 = (x - 1) + q
    BY <2>2
  <2> QED BY <2>2, <2>4, <2>5
<1>11. Len(l) = (v - u) + 1 /\ \A q \in 1 .. Len(l) : l[q] = w[(u - 1) + q]
  <2>1. Len(l) = (v - u) + 1
    BY <1>5, <1>10
  <2>2. ASSUME NEW q \in 1 .. Len(l) PROVE l[q] = w[(u - 1) + q]
    <3>1. (x - 1) + q \in 1 .. Len(s) /\ (a - 1) + ((x - 1) + q) = (u - 1) + q
      BY <1>5, <1>10
    <3> QED BY <1>9, <1>10, <3>1
  <2> QED BY <2>1, <2>2
<1>12. s[x] \notin Blanks /\ s[y] \notin Blanks
       /\ (\A i \in 1 .. x - 1 : s[i] \in Blanks) /\ (\A i \in y + 1 .. Len(s) : s[i] \in Blanks)
  BY <1>4 DEF Inked
<1>13. w[u] \notin Blanks /\ w[v] \notin Blanks
  BY <1>5, <1>9, <1>12
<1> HIDE DEF u, v
<1>14. ASSUME NEW p \in a .. u - 1 PROVE w[p] \in Blanks
  <2> DEFINE i == p - (a - 1)
  <2>1. i \in 1 .. x - 1 /\ i \in 1 .. Len(s) /\ (a - 1) + i = p
    BY <1>5, <1>8 DEF u
  <2> HIDE DEF i
  <2> QED BY <1>9, <1>12, <2>1
<1>15. ASSUME NEW p \in v + 1 .. b - 1 PROVE w[p] \in Blanks
  <2> DEFINE i == p - (a - 1)
  <2>1. i \in y + 1 .. Len(s) /\ i \in 1 .. Len(s) /\ (a - 1) + i = p
    BY <1>1, <1>5, <1>6, <1>8 DEF v
  <2> HIDE DEF i
  <2> QED BY <1>9, <1>12, <2>1
<1>16. (\A p \in a .. b - 1 : w[p] # LF) /\ (b <= Len(w) => w[b] = LF)
  BY <1>7 DEF Found
<1>17. TrimmedLine(l, w, a, b, u, v)
  BY <1>1, <1>8, <1>10, <1>11, <1>13, <1>14, <1>15, <1>16 DEF TrimmedLine
<1> QED BY <1>8, <1>17

(* Talkers and types are past the characters.                              *)
LEMMA WordFacts ==
  /\ \A c \in Range(Talkers) : c > 255
  /\ Range(Types) = {Types.GGA, Types.RMC, Types.VTG, Types.GST, Types.HDT}
  /\ \A c \in Range(Types) : c > 255
<1>1. \A c \in Range(Talkers) : c > 255
  BY DEF Range, Talkers, Word
<1>2. Range(Types) = {Types.GGA, Types.RMC, Types.VTG, Types.GST, Types.HDT}
  BY DEF Range, Types
<1>3. \A c \in Range(Types) : c > 255
  BY <1>2 DEF Types, Word
<1> QED BY <1>1, <1>2, <1>3

(* The data of a sentence is of the type its address names.                *)
TypeOf(f) == ClampedSubstr(f[0], 2, Len(f[0]))

(* A sentence is read only if its type is known.                           *)
LEMMA ReadingKnown ==
  ASSUME NEW f, NEW now, Reading(f, now) # {}
  PROVE  \E c \in Range(Types) : TypeOf(f) = <<c>>
<1>1. \/ TypeOf(f) = <<Types.GGA>> \/ TypeOf(f) = <<Types.RMC>> \/ TypeOf(f) = <<Types.VTG>>
      \/ TypeOf(f) = <<Types.GST>> \/ TypeOf(f) = <<Types.HDT>>
  BY DEF Reading, TypeOf
<1> QED BY <1>1, WordFacts

(* The type is the one symbol after the first two.                         *)
LEMMA TypeIs ==
  ASSUME NEW f \in Seq(Nat), NEW c, ClampedSubstr(f, 2, Len(f)) = <<c>>
  PROVE  Len(f) = 3 /\ f[3] = c
<1> DEFINE n == Len(f)
<1>1. n \in Nat
  BY LenProperties
<1>2. Min({2 + n, n}) = n
  BY <1>1 DEF Min
<1>3. SubSeq(f, 3, n) = <<c>>
  BY <1>2 DEF ClampedSubstr
<1>4. /\ Len(SubSeq(f, 3, n)) = IF 3 <= n THEN n - 3 + 1 ELSE 0
      /\ \A i \in 1 .. n - 3 + 1 : SubSeq(f, 3, n)[i] = f[3 + i - 1]
  <2>1. \A i \in 3 .. n : f[i] \in Nat
    BY <1>1
  <2> QED BY <1>1, <2>1, SubSeqProperties
<1>5. Len(<<c>>) = 1 /\ <<c>>[1] = c
  OBVIOUS
<1> DEFINE g == SubSeq(f, 3, n)
<1>6. Len(g) = 1 /\ g[1] = c
  BY <1>3, <1>5
<1>7. Len(g) = IF 3 <= n THEN n - 3 + 1 ELSE 0
  BY <1>4
<1> HIDE DEF g, n
<1>8. n = 3
  <2>1. 1 = IF 3 <= n THEN n - 3 + 1 ELSE 0
    BY <1>6, <1>7, Zenon
  <2> QED BY <1>1, <2>1
<1>9. 1 \in 1 .. n - 3 + 1 /\ 3 + 1 - 1 = 3
  BY <1>8
<1>10. g[1] = f[3]
  BY <1>4, <1>9 DEF g, n
<1> QED BY <1>6, <1>8, <1>10 DEF n

(* The type is what follows the talker.                                    *)
LEMMA TypeAddressed ==
  ASSUME NEW x \in Nat, NEW y \in Nat, NEW c \in Nat
  PROVE  ClampedSubstr(<<x, y, c>>, 2, Len(<<x, y, c>>)) = <<c>>
<1> DEFINE f == <<x, y, c>>
<1>1. f \in Seq(Nat) /\ Len(f) = 3 /\ f[3] = c
  OBVIOUS
<1>2. Min({2 + 3, 3}) = 3
  BY DEF Min
<1>3. ClampedSubstr(f, 2, Len(f)) = SubSeq(f, 3, 3)
  BY <1>1, <1>2 DEF ClampedSubstr
<1> QED BY <1>3

(* What the parser accepts begins with a dollar sign and two words, and    *)
(* ends in a star and two digits.                                          *)
Addressee(l) ==
  /\ Len(l) >= 6 /\ l[1] = Dollar /\ l[2] > 255 /\ l[3] > 255
  /\ l[Len(l) - 2] = Star /\ {l[Len(l) - 1], l[Len(l)]} \subseteq HexDigits

(* A sentence that parses has a dollar, two words and a checksum.          *)
LEMMA ParsedWords ==
  ASSUME NEW l \in Seq(Nat), NEW now, ParseSentence(l, now) # {}
  PROVE  Addressee(l)
<1> DEFINE n == Len(l)  c == SubSeq(l, 1, n - 3)  f == [i \in Places |-> Field(c, i)]
<1>1. n \in Nat /\ n >= 5 /\ l[1] = Dollar /\ l[2] \in Range(Talkers)
      /\ l[n - 2] = Star /\ {l[n - 1], l[n]} \subseteq HexDigits
      /\ Reading(f, now) # {}
  BY LenProperties DEF ParseSentence
<1>2. PICK g \in Range(Types) : TypeOf(f) = <<g>>
  BY <1>1, ReadingKnown
<1>3. f[0] = Field(c, 0)
  BY DEF Places
<1>4. ClampedSubstr(Field(c, 0), 2, Len(Field(c, 0))) = <<g>>
  BY <1>2, <1>3 DEF TypeOf
<1>5. n - 3 \in 0 .. n
  BY <1>1
<1> HIDE DEF f, n
<1>6. Beginning(c, l, n - 3)
  BY <1>5, BeginningIs DEF n
<1> HIDE DEF c
<1>7. c \in Seq(Nat) /\ Len(c) = n - 3 /\ \A p \in 1 .. n - 3 : c[p] = l[p]
  BY <1>6 DEF Beginning
<1>8. Field(c, 0) = SubSeq(c, 1, Find(Comma, c, 1) - 1)
  <2>1. 0 \in Nat
    OBVIOUS
  <2>2. PICK start \in [0 .. 0 -> Nat \ {0}] :
          /\ start[0] = 1
          /\ Field(c, 0) = SubSeq(c, start[0], Find(Comma, c, start[0]) - 1)
    BY <1>7, <2>1, FieldSteps
  <2> QED BY <2>2
<1> DEFINE z == Find(Comma, c, 1)
<1>9. z \in 1 .. n - 2
  <2>1. Find(Comma, c, 1) \in 1 .. Len(c) + 1
    BY <1>7, FindFacts, SMTT(30)
  <2> QED BY <1>1, <1>7, <2>1
<1> HIDE DEF z
<1>10. z - 1 \in 0 .. Len(c)
  BY <1>1, <1>7, <1>9
<1>11. Beginning(Field(c, 0), c, z - 1)
  BY <1>7, <1>8, <1>10, BeginningIs DEF z
<1> DEFINE h == Field(c, 0)
<1>12. h \in Seq(Nat) /\ Len(h) = z - 1 /\ \A p \in 1 .. z - 1 : h[p] = c[p]
  BY <1>11 DEF Beginning
<1>13. Len(h) = 3 /\ h[3] = g
  <2> HIDE DEF h
  <2>1. ClampedSubstr(h, 2, Len(h)) = <<g>>
    BY <1>4 DEF h
  <2> QED BY <1>12, <2>1, TypeIs
<1> HIDE DEF h
<1>14. n >= 6 /\ 3 \in 1 .. z - 1 /\ 3 \in 1 .. n - 3
  <2>1. z - 1 = 3
    BY <1>12, <1>13, Zenon
  <2> QED BY <1>1, <1>9, <2>1
<1>15. l[3] = g
  BY <1>7, <1>12, <1>13, <1>14
<1> QED BY <1>1, <1>14, <1>15, WordFacts, ZenonT(60) DEF Addressee, n

(* y is x but for the symbol at h, if any, which is a character.           *)
Damaged(y, x, h) ==
  /\ y \in Seq(Nat) /\ Len(y) = Len(x) /\ h \in Nat
  /\ h # 0 => h \in 1 .. Len(x) /\ y[h] \in 0 .. 255
  /\ \A p \in 1 .. Len(x) : p # h => y[p] = x[p]

(* The line at u in l is the i-th with its first k symbols as they were    *)
(* sent, and all of them unless it is both hit and cut at m.               *)
FromLine(l, u, k, i, reports, t, e, h, m) ==
  /\ i \in 1 .. Len(reports) /\ u = e[i - 1] + 1
  /\ k \in 3 .. Len(Opening(reports[i], t)) /\ Len(l) = k + 3
  /\ \A q \in 1 .. k : l[q] = Opening(reports[i], t)[q]
  /\ \/ k = Len(Opening(reports[i], t)) /\ e[i] - 2 <= m
     \/ h \in e[i - 1] .. e[i] /\ h # 0 /\ m < e[i] - 2

(* A word is no character.                                                 *)
LEMMA NotWord == ASSUME NEW c, c > 255 PROVE c \notin 0 .. 255 /\ c # Star /\ c # LF
<1>1. Star \in 0 .. 255 /\ LF \in 0 .. 255
  BY DEF Star, LF
<1>2. \A g \in 0 .. 255 : ~(g > 255)
  OBVIOUS
<1> QED BY <1>1, <1>2

(* The symbols of w are those of x but for the one at h.                   *)
Kept(w, x, h, m) == \A p \in 1 .. m : IF p = h THEN w[p] \in 0 .. 255 ELSE w[p] = x[p]

(* In w, whose length is m, the line from a to before b has no ink after   *)
(* its only star at P and the two digits.                                  *)
Accepted(w, u, P, a, b, m) ==
  /\ u \in Nat /\ P \in Nat /\ a \in Nat /\ b \in Nat /\ m \in Nat
  /\ 1 <= a /\ a <= u /\ u + 3 <= P /\ P + 2 < b /\ b <= m + 1
  /\ w[P] = Star /\ w[P + 1] \in HexDigits /\ w[P + 2] \in HexDigits
  /\ \A p \in u .. P + 2 : p # P => w[p] # Star
  /\ \A p \in P + 3 .. b - 1 : w[p] \in Blanks
  /\ \A p \in a .. b - 1 : w[p] # LF
  /\ b <= m => w[b] = LF

(* Where the star of an accepted line can be: where it was, unless the     *)
(* damage made it and the line is cut before its own star.                 *)
LEMMA StarAt ==
  ASSUME NEW x, NEW w, NEW A \in Nat, NEW N \in Nat, N >= 3, NEW E, NEW s, LineAt(x, A, E, s, N),
         Marked(x, A, E), NEW h \in Nat, NEW m, Kept(w, x, h, m),
         NEW P, NEW a, NEW b, Accepted(w, A + 1, P, a, b, m)
  PROVE  \/ P = A + N + 1 /\ E - 2 <= m
         \/ P < A + N + 1 /\ h = P /\ m < E - 2
<1> DEFINE k == P - (A + 1)
<1>1. /\ P \in Nat /\ a \in Nat /\ b \in Nat /\ m \in Nat /\ k \in Nat /\ k >= 3
      /\ E = A + N + 5 /\ E \in Nat /\ 1 <= a /\ a <= A + 1 /\ P + 2 < b /\ b <= m + 1
      /\ P = A + k + 1 /\ P + 1 = A + k + 2 /\ P + 2 = A + k + 3 /\ P + 3 = A + k + 4
  BY DEF Accepted, LineAt
<1> HIDE DEF k
<1>2. /\ x[E - 4] = Star /\ x[E] = LF
      /\ \A p \in 1 .. m : p # h => w[p] = x[p]
      /\ w[A + k + 1] = Star /\ w[A + k + 2] \in HexDigits /\ w[A + k + 3] \in HexDigits
      /\ \A p \in A + 1 .. A + k + 3 : p # A + k + 1 => w[p] # Star
      /\ \A p \in A + k + 4 .. b - 1 : w[p] \in Blanks
      /\ \A p \in a .. b - 1 : w[p] # LF
      /\ b <= m => w[b] = LF
  BY <1>1 DEF Accepted, LineAt, Kept
<1> SUFFICES \/ k = N /\ E - 2 <= m
             \/ k < N /\ h = A + k + 1 /\ m < E - 2
  BY <1>1
<1>3. CASE k = N
  BY <1>1, <1>2, <1>3
<1>4. CASE k > N
  <2>1. w[E - 4] # Star
    <3>1. E - 4 \in A + 1 .. A + k + 3 /\ E - 4 # A + k + 1
      BY <1>1, <1>2, <1>4
    <3> QED BY <1>1, <1>2, <3>1
  <2>2. E - 4 \in 1 .. m
    BY <1>1, <1>2, <1>4
  <2>3. h = E - 4
    BY <1>1, <1>2, <2>1, <2>2
  <2>4. A + k + 1 \in 1 .. m /\ A + k + 1 # h
    BY <1>1, <1>2, <1>4, <2>3
  <2>5. x[A + k + 1] = Star
    BY <1>1, <1>2, <2>4
  <2>6. ~(A + k + 1 \in A + 1 .. E)
    <3>1. A + k + 1 # E - 4
      BY <1>1, <1>2, <1>4
    <3> QED BY <1>1, <1>2, <2>5, <3>1 DEF Marked
  <2>7. E \in a .. b - 1 /\ E \in 1 .. m /\ E # h
    BY <1>1, <1>2, <2>3, <2>6
  <2> QED BY <1>1, <1>2, <2>7
<1>5. CASE k < N
  <2>1. A + k + 1 \in 1 .. m /\ A + k + 1 \in A + 1 .. E /\ A + k + 1 # E - 4
    BY <1>1, <1>2, <1>5
  <2>2. x[A + k + 1] # Star
    BY <1>1, <1>2, <2>1 DEF Marked
  <2>3. h = A + k + 1
    BY <1>1, <1>2, <2>1, <2>2
  <2>4. ASSUME E - 2 <= m PROVE FALSE
    <3>1. E - 4 \in 1 .. m /\ E - 4 # h /\ E - 4 > A + k + 1
      BY <1>1, <1>2, <1>5, <2>3, <2>4
    <3>2. w[E - 4] = Star
      BY <1>1, <1>2, <3>1
    <3>3. Star \notin HexDigits /\ Star \notin Blanks
      BY NotHex DEF Blanks, Star, LF, CR
    <3>4. E - 4 # A + k + 2 /\ E - 4 # A + k + 3
      BY <1>1, <1>2, <3>2, <3>3
    <3>5. E - 4 \notin A + k + 4 .. b - 1
      BY <1>1, <1>2, <3>2, <3>3
    <3>6. b <= E - 4 /\ b <= m /\ b \in 1 .. m /\ b # h /\ b \in A + 1 .. E /\ b # E
      BY <1>1, <1>2, <2>3, <2>4, <3>1, <3>4, <3>5
    <3>7. x[b] = LF
      BY <1>1, <1>2, <3>6
    <3> QED BY <1>1, <1>2, <3>6, <3>7 DEF Marked
  <2> QED BY <1>1, <1>2, <1>5, <2>3, <2>4
<1> QED BY <1>1, <1>3, <1>4, <1>5

(* A sentence with one symbol off that the checksum accepts is off in its  *)
(* checksum only: what it opens with is as it was sent.                    *)
LEMMA WholeLine ==
  ASSUME NEW report, WellFormed(report), NEW t \in Nat, NEW l \in Seq(Nat), VerifyChecksum(l),
         NEW g \in Int, OneOff(l, Sentence(report, t), g), Addressee(l)
  PROVE  \A p \in 1 .. Len(Opening(report, t)) : l[p] = Opening(report, t)[p]
<1> DEFINE d == Opening(report, t)  s == Sentence(report, t)  N == Len(d)
<1>1. Sealed(s, d, Sum(Body(report, t))) /\ Spelled(s, report, N)
  BY SentenceSealed, SentenceSpelled
<1> HIDE DEF s
<1>2. /\ N \in Nat /\ N >= 3 /\ Len(s) = N + 3 /\ s[1] = Dollar
      /\ \A q \in 1 .. N : s[q] = d[q]
  BY <1>1 DEF Spelled, Sealed
<1>3. Len(l) = Len(s) /\ (\A q \in 1 .. Len(s) : q # g => l[q] = s[q])
      /\ (g \in 1 .. Len(s) => l[g] \in 0 .. 255)
  BY DEF OneOff, s
<1>4. l[1] = Dollar /\ l[2] > 255 /\ l[3] > 255 /\ l[Len(l) - 2] = Star
  BY DEF Addressee
<1> HIDE DEF d, N
<1>5. l[N + 1] = Star
  <2>1. Len(l) - 2 = N + 1
    BY <1>2, <1>3
  <2> QED BY <1>4, <2>1
<1>6. CASE g \in 4 .. N \/ g \in N + 2 .. N + 3
  <2>1. /\ g \in Nat /\ g # 1 /\ g # 2 /\ g # 3 /\ g # N + 1 /\ g \in 1 .. Len(s)
    BY <1>2, <1>6
  <2>2. l[g] \in 0 .. 255 /\ g # Len(d) + 1 /\ Len(l) = Len(s)
    BY <1>3, <2>1 DEF N
  <2>3. OneOff(l, s, g)
    BY DEF s
  <2>4. \A p \in 1 .. Len(d) : l[p] = d[p]
    BY <1>1, <2>1, <2>2, <2>3, Caught DEF d, s
  <2> QED BY <2>4 DEF d
<1>7. CASE ~(g \in 4 .. N \/ g \in N + 2 .. N + 3)
  <2>1. ASSUME NEW q \in 1 .. N PROVE l[q] = d[q]
    <3>1. q \in 1 .. Len(s) /\ 1 \in 1 .. N /\ q \in Nat
      BY <1>2
    <3>2. CASE q # g
      BY <1>2, <1>3, <3>1, <3>2
    <3>3. CASE q = g
      <4>1. q = 1 \/ q = 2 \/ q = 3
        BY <1>2, <1>7, <3>1, <3>3
      <4>2. l[q] \in 0 .. 255
        BY <1>3, <3>1, <3>3
      <4>3. q # 2 /\ q # 3
        BY <1>4, <4>2, NotWord, ZenonT(60)
      <4>4. q = 1
        BY <4>1, <4>3
      <4> QED BY <1>2, <1>4, <3>1, <4>4
    <3> QED BY <3>2, <3>3
  <2> QED BY <2>1 DEF d, N
<1> QED BY <1>6, <1>7

(* A line that is accepted and parsed is that of a report: whole, or both  *)
(* damaged and cut.                                                        *)
LEMMA Sound ==
  ASSUME NEW reports \in Datagrams, NEW t \in Nat, NEW x, x = Text(reports, t),
         NEW e, e = Ends(reports, t), NEW y, NEW h, Damaged(y, x, h),
         NEW m \in 0 .. Len(x), NEW w, Beginning(w, y, m),
         NEW l, NEW a, NEW b, NEW u, NEW v, TrimmedLine(l, w, a, b, u, v),
         VerifyChecksum(l), NEW now, ParseSentence(l, now) # {}
  PROVE  \E i, k \in Nat : FromLine(l, u, k, i, reports, t, e, h, m)
<1>1. /\ x \in Seq(Nat) /\ Len(x) \in Nat /\ m \in Nat /\ m <= Len(x) /\ h \in Nat
      /\ Len(w) = m
      /\ Kept(w, x, h, m)
  <2>1. x \in Seq(Nat) /\ Len(x) \in Nat
    BY TextLaid, LenProperties DEF Laid
  <2>2. m \in Nat /\ m <= Len(x) /\ \A p \in 1 .. m : p \in 1 .. Len(x)
    BY <2>1
  <2>3. h \in Nat /\ (h # 0 => h \in 1 .. Len(x) /\ y[h] \in 0 .. 255)
        /\ \A p \in 1 .. Len(x) : p # h => y[p] = x[p]
    BY DEF Damaged
  <2>4. Len(w) = m /\ \A p \in 1 .. m : w[p] = y[p]
    BY DEF Beginning
  <2>5. ASSUME NEW p \in 1 .. m PROVE IF p = h THEN w[p] \in 0 .. 255 ELSE w[p] = x[p]
    <3>1. p # 0 /\ p \in 1 .. Len(x)
      BY <2>2
    <3> QED BY <2>3, <2>4, <3>1, ZenonT(60)
  <2> QED BY <2>1, <2>2, <2>3, <2>4, <2>5 DEF Kept
<1>2. /\ l \in Seq(Nat) /\ u \in Nat /\ v \in Nat /\ a \in Nat /\ b \in Nat
      /\ 1 <= a /\ a <= u /\ u <= v /\ v < b /\ b <= m + 1
      /\ Len(l) = (v - u) + 1 /\ \A q \in 1 .. Len(l) : l[q] = w[(u - 1) + q]
      /\ \A p \in v + 1 .. b - 1 : w[p] \in Blanks
      /\ \A p \in a .. b - 1 : w[p] # LF
      /\ b <= m => w[b] = LF
  BY <1>1 DEF TrimmedLine
<1>3. /\ Len(l) \in Nat /\ Len(l) >= 6 /\ l[1] = Dollar /\ l[2] > 255 /\ l[3] > 255
      /\ l[Len(l) - 2] = Star /\ {l[Len(l) - 1], l[Len(l)]} \subseteq HexDigits
  BY <1>2, ParsedWords, LenProperties, ZenonT(60) DEF Addressee
<1> DEFINE k == Len(l) - 3  P == v - 2
<1>4. /\ k \in Nat /\ k >= 3 /\ v = u + k + 2 /\ P = u + k
  BY <1>2, <1>3
<1>5. /\ w[u + 1] > 255 /\ w[u + 2] > 255 /\ w[u] = Dollar
      /\ w[P] = Star /\ w[P + 1] \in HexDigits /\ w[P + 2] \in HexDigits
  <2>1. /\ 1 \in 1 .. Len(l) /\ 2 \in 1 .. Len(l) /\ 3 \in 1 .. Len(l)
        /\ k + 1 \in 1 .. Len(l) /\ k + 2 \in 1 .. Len(l) /\ k + 3 \in 1 .. Len(l)
    BY <1>3, SMTT(30)
  <2>2. /\ (u - 1) + 1 = u /\ (u - 1) + 2 = u + 1 /\ (u - 1) + 3 = u + 2
        /\ (u - 1) + (k + 1) = P /\ (u - 1) + (k + 2) = P + 1 /\ (u - 1) + (k + 3) = P + 2
        /\ Len(l) - 2 = k + 1 /\ Len(l) - 1 = k + 2 /\ Len(l) = k + 3
    BY <1>2, <1>4
  <2>3. l[k + 1] = Star /\ l[k + 2] \in HexDigits /\ l[k + 3] \in HexDigits
    BY <1>3, <2>2
  <2> QED BY <1>2, <1>3, <2>1, <2>2, <2>3, ZenonT(60)
<1>6. \A p \in u .. v : p # P => w[p] # Star
  <2>1. \A q \in 1 .. Len(l) : l[q] = Star => q = k + 1
    <3>1. PICK star \in {i \in DOMAIN l : l[i] = Star} :
            \A i \in DOMAIN l \ {star} : l[i] # Star
      BY DEF VerifyChecksum
    <3>2. DOMAIN l = 1 .. Len(l) /\ k + 1 \in 1 .. Len(l) /\ k + 1 = Len(l) - 2
      BY <1>2, <1>3, LenProperties
    <3>3. k + 1 = star
      BY <1>3, <3>1, <3>2
    <3> QED BY <3>1, <3>2, <3>3, ZenonT(60)
  <2>2. Len(l) = k + 3
    BY <1>3
  <2> HIDE DEF k, P
  <2> SUFFICES ASSUME NEW p \in u .. v, p # P, w[p] = Star PROVE FALSE
    OBVIOUS
  <2> DEFINE q == p - (u - 1)
  <2>3. u \in Nat /\ v \in Nat
    BY <1>2
  <2>4. q \in 1 .. k + 3 /\ (u - 1) + q = p /\ q # k + 1
    BY <1>4, <2>3
  <2>5. q \in 1 .. Len(l)
    BY <2>2, <2>4, Zenon
  <2> HIDE DEF q
  <2> QED BY <1>2, <2>1, <2>4, <2>5, ZenonT(60)
<1> HIDE DEF k, P
<1>7. /\ u + 1 # h /\ u + 2 # h /\ u + 1 \in 1 .. m /\ u + 2 \in 1 .. m
      /\ u + 1 \in 1 .. Len(x) /\ u + 2 \in 1 .. Len(x)
  <2>1. /\ u \in Nat /\ v \in Nat /\ b \in Nat /\ m \in Nat /\ 1 <= u /\ v < b /\ b <= m + 1
        /\ Len(x) \in Nat /\ m <= Len(x)
    BY <1>1, <1>2
  <2>2. /\ u + 1 \in 1 .. m /\ u + 2 \in 1 .. m
        /\ u + 1 \in 1 .. Len(x) /\ u + 2 \in 1 .. Len(x)
    BY <1>4, <2>1
  <2>3. w[u + 1] \notin 0 .. 255 /\ w[u + 2] \notin 0 .. 255
    BY <1>5, NotWord, ZenonT(60)
  <2> QED BY <1>1, <2>2, <2>3 DEF Kept
<1>8. x[u + 1] > 255 /\ x[u + 2] > 255
  <2>1. w[u + 1] = x[u + 1] /\ w[u + 2] = x[u + 2]
    BY <1>1, <1>7 DEF Kept
  <2> QED BY <1>5, <2>1
<1>9. PICK i \in 1 .. Len(reports) : u + 1 \in e[i - 1] + 1 .. e[i]
  <2>1. \A p \in 1 .. Len(x) : \E i \in 1 .. Len(reports) : p \in e[i - 1] + 1 .. e[i]
    BY TextLaid DEF Laid
  <2> QED BY <1>7, <2>1
<1> DEFINE s == Sentence(reports[i], t)  d == Opening(reports[i], t)  N == Len(d)
           A == e[i - 1]  E == e[i]
<1>10. Spelled(s, reports[i], N) /\ LineAt(x, A, E, s, N) /\ WellFormed(reports[i])
       /\ Marked(x, A, E)
  BY LineText, TextLaid, Whereabouts
<1>11. Sealed(s, d, Sum(Body(reports[i], t)))
  BY <1>10, SentenceSealed
<1>12. u + 1 \in A + 1 .. E
  BY <1>9
<1> HIDE DEF s, N, A, E
<1>13. /\ N \in Nat /\ N >= 3 /\ Len(s) = N + 3 /\ s \in Seq(Nat)
       /\ A \in Nat /\ E = A + N + 5 /\ E \in Nat
       /\ x[E - 4] = Star /\ x[E] = LF
       /\ \A q \in 1 .. N + 3 : x[A + q] = s[q]
  BY <1>10 DEF Spelled, LineAt
<1>14. u = A + 1
  <2>1. u \in Nat
    BY <1>2
  <2>2. u = A + 1 \/ u = A + 2
    <3>1. u + 1 = A + 2 \/ u + 1 = A + 3
      BY <1>8, <1>10, <1>12 DEF Marked
    <3> QED BY <1>13, <2>1, <3>1
  <2>3. ASSUME u = A + 2 PROVE FALSE
    <3>1. u + 2 \in A + 1 .. E /\ u + 2 # A + 2 /\ u + 2 # A + 3
      BY <1>13, <2>1, <2>3
    <3> QED BY <1>8, <1>10, <3>1 DEF Marked
  <2> QED BY <2>2, <2>3
<1>15. Accepted(w, A + 1, P, a, b, m)
  <2>1. /\ u \in Nat /\ P \in Nat /\ a \in Nat /\ b \in Nat /\ m \in Nat
        /\ 1 <= a /\ a <= u /\ u + 3 <= P /\ P + 2 = v /\ P + 3 = v + 1 /\ v < b /\ b <= m + 1
    <3>1. /\ u \in Nat /\ a \in Nat /\ b \in Nat /\ m \in Nat
          /\ 1 <= a /\ a <= u /\ v < b /\ b <= m + 1
      BY <1>1, <1>2
    <3> QED BY <1>4, <3>1
  <2>2. Accepted(w, u, P, a, b, m)
    BY <1>2, <1>5, <1>6, <2>1 DEF Accepted
  <2> QED BY <1>14, <2>2
<1>16. Len(l) = k + 3
  BY <1>3 DEF k
<1>17. A \in Nat /\ N \in Nat /\ N >= 3 /\ E = A + N + 5 /\ E \in Nat
  BY <1>13
<1>18. h \in Nat /\ k \in Nat /\ k >= 3 /\ P = A + k + 1
  <2>1. h \in Nat
    BY <1>1
  <2> QED BY <1>4, <1>17, <1>14, <2>1
<1>19. \/ k = N /\ E - 2 <= m
       \/ k < N /\ h = A + k + 1 /\ m < E - 2
  <2>1. \/ P = A + N + 1 /\ E - 2 <= m
        \/ P < A + N + 1 /\ h = P /\ m < E - 2
    BY <1>1, <1>10, <1>17, <1>15, <1>18, StarAt, SMTT(60)
  <2> QED BY <1>17, <1>18, <2>1
<1>20. \A q \in 1 .. k + 3 : A + q \in 1 .. m /\ l[q] = w[A + q]
  <2>1. A + k + 3 <= m
    <3>1. b \in Nat /\ m \in Nat /\ P \in Nat /\ P + 2 < b /\ b <= m + 1
      BY <1>15 DEF Accepted
    <3> QED BY <1>17, <1>18, <3>1
  <2>2. \A q \in 1 .. k + 3 : A + q \in 1 .. m /\ (u - 1) + q = A + q
    BY <1>1, <1>17, <1>14, <1>18, <2>1
  <2>3. \A q \in 1 .. k + 3 : l[q] = w[(u - 1) + q]
    BY <1>16, <1>2, Zenon
  <2> QED BY <2>2, <2>3
<1>21. \A q \in 1 .. k + 3 : q <= N + 3 =>
         IF A + q = h THEN l[q] \in 0 .. 255 ELSE l[q] = s[q]
  <2> SUFFICES ASSUME NEW q \in 1 .. k + 3, q <= N + 3
               PROVE  IF A + q = h THEN l[q] \in 0 .. 255 ELSE l[q] = s[q]
    OBVIOUS
  <2>1. q \in 1 .. N + 3
    BY <1>17, <1>18
  <2>2. A + q \in 1 .. m /\ l[q] = w[A + q] /\ x[A + q] = s[q]
    BY <1>13, <1>20, <2>1
  <2> QED BY <1>1, <2>2 DEF Kept
<1>22. \A q \in 1 .. N : s[q] = d[q]
  BY <1>11 DEF Sealed, N
<1>23. ASSUME k < N, h = A + k + 1, m < E - 2
       PROVE  FromLine(l, u, k, i, reports, t, e, h, m)
  <2>1. \A q \in 1 .. k : q \in 1 .. k + 3 /\ A + q # h /\ q <= N + 3 /\ q \in 1 .. N
    BY <1>17, <1>18, <1>23
  <2>2. \A q \in 1 .. k : l[q] = d[q]
    BY <1>21, <1>22, <2>1
  <2>3. h \in A .. E /\ h # 0 /\ k \in 3 .. N
    BY <1>17, <1>18, <1>23
  <2>4. h \in e[i - 1] .. e[i] /\ k \in 3 .. Len(Opening(reports[i], t)) /\ u = e[i - 1] + 1
    BY <1>14, <2>3 DEF A, E, N
  <2>5. m < e[i] - 2
    BY <1>23 DEF E
  <2> QED BY <1>16, <2>2, <2>3, <2>4, <2>5 DEF FromLine
<1>24. ASSUME k = N, E - 2 <= m
       PROVE  FromLine(l, u, k, i, reports, t, e, h, m)
  <2> DEFINE g == h - A
  <2>1. g \in Int /\ \A q \in 1 .. N + 3 : A + q = h <=> q = g
    BY <1>17, <1>18
  <2>2. Len(l) = Len(s) /\ Len(s) = N + 3
    BY <1>16, <1>13, <1>24
  <2>3. \A q \in 1 .. N + 3 : IF A + q = h THEN l[q] \in 0 .. 255 ELSE l[q] = s[q]
    <3>1. \A q \in 1 .. N + 3 : q \in 1 .. k + 3 /\ q <= N + 3
      BY <1>13, <1>24
    <3> QED BY <1>21, <3>1
  <2> HIDE DEF g
  <2>4. OneOff(l, s, g)
    BY <2>1, <2>2, <2>3 DEF OneOff
  <2>5. Addressee(l)
    BY <1>3 DEF Addressee
  <2>6. \A q \in 1 .. Len(d) : l[q] = d[q]
    <3> HIDE DEF d
    <3> QED BY <1>2, <1>10, <2>1, <2>4, <2>5, WholeLine, SMTT(30) DEF d, s
  <2>7. k = Len(Opening(reports[i], t)) /\ k \in 3 .. Len(Opening(reports[i], t))
        /\ u = e[i - 1] + 1 /\ e[i] - 2 <= m
    BY <1>14, <1>18, <1>24 DEF A, E, N
  <2>8. \A q \in 1 .. k : l[q] = d[q]
    BY <2>6, <2>7
  <2> QED BY <1>16, <2>7, <2>8 DEF FromLine
<1>25. \E ii, kk \in Nat : FromLine(l, u, kk, ii, reports, t, e, h, m)
  <2>1. i \in Nat /\ k \in Nat
    BY <1>9, <1>18
  <2>2. FromLine(l, u, k, i, reports, t, e, h, m)
    BY <1>19, <1>23, <1>24
  <2> QED BY <2>1, <2>2
<1> QED BY <1>25

-----------------------------------------------------------------------------
(* What is read.                                                           *)
LEMMA WholeSlice ==
  ASSUME NEW s \in Seq(Nat)
  PROVE  SubSeq(s, 1, Len(s)) = s
<1>1. Len(s) \in Nat
  BY LenProperties
<1>2. 0 + 1 = 1 /\ 0 + Len(s) = Len(s) /\ 0 + Len(s) <= Len(s) /\ \A j \in 1 .. Len(s) : 0 + j = j
  BY <1>1
<1>3. SubSeq(s, 0 + 1, 0 + Len(s)) = s
  BY <1>2, SliceIs
<1> QED BY <1>2, <1>3, Zenon

(* The time of day in the text of a clock.                                 *)
LEMMA ClockRead ==
  ASSUME NEW t \in Nat, NEW now
  PROVE  UtcTimeOfDay(ClockText(t), now) = {Graft(TimeOfDay(t), now)}
<1> DEFINE c == ClockText(t)  H == Hours(t)  M == Minutes(t)  S == Seconds(t)
<1>1. /\ c \in Seq(Digits) /\ Len(c) = 6
      /\ c[1] = 48 + (H \div 10) /\ c[2] = 48 + (H % 10)
      /\ c[3] = 48 + (M \div 10) /\ c[4] = 48 + (M % 10)
      /\ c[5] = 48 + (S \div 10) /\ c[6] = 48 + (S % 10)
  BY ClockFacts
<1>2. /\ H \in 0 .. 23 /\ M \in 0 .. 59 /\ S \in 0 .. 59
      /\ TimeOfDay(t) = (3600 * H) + (60 * M) + S
  BY ClockSplit
<1> HIDE DEF c, H, M, S
<1>3. c \in Seq(Nat) /\ DOMAIN c = 1 .. 6 /\ (\A i \in 1 .. 6 : c[i] \in Digits)
  <2>1. Digits \subseteq Nat
    BY OrdinaryFacts
  <2>2. c \in Seq(Nat)
    BY <1>1, <2>1, SeqMonotonic
  <2> QED BY <1>1, <2>2, LenProperties, ElementOfSeq
<1>4. \A g \in Digits : g \notin Blanks
  BY DEF Digits, Blanks, LF, CR
<1>5. Inked(c, 1, 6)
  <2>1. c[1] \notin Blanks /\ c[6] \notin Blanks
    BY <1>3, <1>4
  <2> QED BY <1>1, <2>1 DEF Inked
<1>6. SubSeq(c, 1, 6) = c
  BY <1>1, <1>3, WholeSlice
<1>7. Trim(c) = c
  BY <1>3, <1>5, <1>6, TrimIs
<1>8. AllDigits(SubSeq(c, 1, 6))
  <2>1. c # <<>>
    BY <1>1
  <2>2. ToSet(c) \subseteq Digits
    BY <1>3 DEF ToSet
  <2> QED BY <1>6, <2>1, <2>2 DEF AllDigits
<1> DEFINE Two(i) == 10 * (c[i] - 48) + c[i + 1] - 48
<1>9. Len(c) >= 6
  BY <1>1
<1>10. UtcTimeOfDay(c, now) = {Graft(3600 * Two(1) + 60 * Two(3) + Two(5), now)}
  BY <1>7, <1>8, <1>9 DEF UtcTimeOfDay
<1>11. Two(1) = H /\ Two(3) = M /\ Two(5) = S
  <2>1. \A n \in Nat : (10 * ((48 + (n \div 10)) - 48)) + (48 + (n % 10)) - 48 = n
    OBVIOUS
  <2>2. /\ Two(1) = (10 * ((48 + (H \div 10)) - 48)) + (48 + (H % 10)) - 48
        /\ Two(3) = (10 * ((48 + (M \div 10)) - 48)) + (48 + (M % 10)) - 48
        /\ Two(5) = (10 * ((48 + (S \div 10)) - 48)) + (48 + (S % 10)) - 48
    BY <1>1
  <2>3. H \in Nat /\ M \in Nat /\ S \in Nat
    BY <1>2
  <2> HIDE DEF Two
  <2> QED BY <2>1, <2>2, <2>3
<1> HIDE DEF Two
<1>12. 3600 * Two(1) + 60 * Two(3) + Two(5) = TimeOfDay(t)
  BY <1>2, <1>11
<1> QED BY <1>10, <1>12 DEF c

(* A field of fewer than six symbols is no time.                           *)
LEMMA ShortRead ==
  ASSUME NEW g \in Seq(Nat), Len(g) < 6, NEW now
  PROVE  UtcTimeOfDay(g, now) = {}
<1>1. Len(g) \in Nat
  BY LenProperties
<1>2. Len(Trim(g)) < 6
  <2>1. CASE Trim(g) = <<>>
    BY <2>1
  <2>2. ASSUME NEW x \in 1 .. Len(g), NEW y \in 1 .. Len(g), Trim(g) = SubSeq(g, x, y)
        PROVE  Len(Trim(g)) < 6
    <3>1. \A i \in x .. y : g[i] \in Nat
      BY <1>1, ElementOfSeq
    <3>2. x \in Int /\ y \in Int
      BY <1>1
    <3>3. Len(SubSeq(g, x, y)) = IF x <= y THEN y - x + 1 ELSE 0
      BY <3>1, <3>2, SubSeqProperties
    <3>4. (IF x <= y THEN y - x + 1 ELSE 0) < 6
      BY <1>1
    <3> QED BY <2>2, <3>3, <3>4, Zenon
  <2> QED BY <2>1, <2>2, TrimFacts
<1>3. ~(Len(Trim(g)) >= 6)
  <2>1. Len(Trim(g)) \in Int
    BY <1>2
  <2> QED BY <1>2
<1> QED BY <1>3 DEF UtcTimeOfDay

(* The first field, whole or cut, gives the time of day of its sending or  *)
(* none.                                                                   *)
LEMMA TimeRead ==
  ASSUME NEW report, WellFormed(report), report.type \in TimedType, NEW t \in Nat, NEW now,
         NEW g, FieldBegun(g, report, ClockText(t))
  PROVE  UtcTimeOfDay(g, now) \in {{}, {Graft(TimeOfDay(t), now)}}
<1>1. <<>> \in Seq(Nat) /\ Len(<<>>) = 0
  OBVIOUS
<1>2. CASE g = <<>>
  <2>1. g \in Seq(Nat) /\ Len(g) = 0
    BY <1>1, <1>2, Zenon
  <2>2. Len(g) < 6
    BY <2>1
  <2> QED BY <2>1, <2>2, ShortRead
<1>3. CASE g # <<>>
  <2> DEFINE f == FieldText(report.fields[1], ClockText(t))
  <2>1. PICK j \in 0 .. Len(f) : g = SubSeq(f, 1, j)
    BY <1>3 DEF FieldBegun
  <2>2. f = ClockText(t) \/ f = <<>>
    <3>1. 1 \in DOMAIN report.fields
      BY <1>3 DEF FieldBegun
    <3>2. report.fields[1] \in {Time, <<>>}
      <4>1. report.fields # <<>>
        BY <3>1, ReportFacts, SMTT(30)
      <4> QED BY <4>1 DEF WellFormed
    <3> QED BY <3>2 DEF FieldText
  <2>3. f \in Seq(Nat) /\ Len(f) \in Nat /\ (f = ClockText(t) => Len(f) = 6)
    BY <1>1, <2>2, ReportFacts, ClockFacts, LenProperties, ZenonT(60)
  <2> HIDE DEF f
  <2>4. Beginning(g, f, j)
    BY <2>1, <2>3, BeginningIs
  <2>5. g \in Seq(Nat) /\ Len(g) = j /\ j \in Nat /\ j <= Len(f)
    BY <2>3, <2>4 DEF Beginning
  <2>6. CASE j < 6
    <3>1. Len(g) < 6
      BY <2>5, <2>6
    <3> QED BY <2>5, <3>1, ShortRead
  <2>7. CASE ~(j < 6)
    <3>1. f # <<>>
      <4>1. Len(f) # 0
        BY <2>3, <2>5, <2>7
      <4> QED BY <1>1, <4>1
    <3>2. f = ClockText(t) /\ Len(f) = 6
      BY <2>2, <2>3, <3>1
    <3>3. j = 6
      BY <2>5, <2>7, <3>2
    <3>4. g = f
      BY <2>1, <2>3, <3>2, <3>3, WholeSlice
    <3> QED BY <3>2, <3>4, ClockRead
  <2> QED BY <2>6, <2>7
<1> QED BY <1>2, <1>3

(* The time of a sentence is that of its first field.                      *)
LEMMA ReadingDated ==
  ASSUME NEW f, NEW now, NEW data \in Reading(f, now), Timed(data)
  PROVE  /\ data.utc = UtcTimeOfDay(f[1], now)
         /\ \E c \in TimedType : TypeOf(f) = <<c>>
<1>1. PICK c \in Range(Types) : TypeOf(f) = <<c>>
  BY ReadingKnown
<1>2. c \in {Types.GGA, Types.RMC, Types.VTG, Types.GST, Types.HDT}
  BY WordFacts
<1>3. CASE TypeOf(f) = <<Types.GGA>>
  <2>1. data = Gga(f, now)
    BY <1>3 DEF Reading, TypeOf, Types, Word
  <2> QED BY <1>3, <2>1 DEF Gga, TimedType
<1>4. CASE TypeOf(f) = <<Types.RMC>>
  <2>1. data = Rmc(f, now)
    BY <1>4 DEF Reading, TypeOf, Types, Word
  <2> QED BY <1>4, <2>1 DEF Rmc, TimedType
<1>5. CASE TypeOf(f) = <<Types.GST>>
  <2>1. data = Gst(f, now)
    BY <1>5 DEF Reading, TypeOf, Types, Word
  <2> QED BY <1>5, <2>1 DEF Gst, TimedType
<1>6. CASE TypeOf(f) = <<Types.VTG>>
  <2>1. data = Vtg(f)
    BY <1>6 DEF Reading, TypeOf, Types, Word
  <2> QED BY <2>1 DEF Vtg, Timed
<1>7. CASE TypeOf(f) = <<Types.HDT>>
  <2>1. data = Hdt(f)
    BY <1>7 DEF Reading, TypeOf, Types, Word
  <2> QED BY <2>1 DEF Hdt, Timed
<1> QED BY <1>1, <1>2, <1>3, <1>4, <1>5, <1>6, <1>7

(* A time of day survives the graft on a date.                             *)
LEMMA GraftedTime ==
  ASSUME NEW t \in Nat, NEW now \in Nat
  PROVE  TimeOfDay(Graft(TimeOfDay(t), now)) = TimeOfDay(t)
<1> DEFINE tod == t % 86400  q == now \div 86400
<1>1. tod \in Nat /\ tod < 86400 /\ q \in Nat
  OBVIOUS
<1> HIDE DEF tod, q
<1>2. ((q * 86400) + tod) % 86400 = tod
  BY <1>1
<1> QED BY <1>2 DEF TimeOfDay, Graft, Midnight, Day, tod, q

(* The data that differ from r by their time only.                         *)
Timestamped(r, U) == [r EXCEPT !.utc = U]
Retimed(data, r, V, U) ==
  /\ r = [x \in DOMAIN r |-> r[x]] /\ "utc" \in DOMAIN r /\ r.utc = V
  /\ data = [r EXCEPT !.utc = U]

(* Taking the date off the time of a sentence.                             *)
LEMMA DateTaken ==
  ASSUME NEW r, NEW U, NEW data, Retimed(data, r, {}, U)
  PROVE  /\ U = {} => Undated(data) = r
         /\ \A x : U = {x} => Undated(data) = Timestamped(r, {TimeOfDay(x)})
<1>1. /\ r = [x \in DOMAIN r |-> r[x]] /\ "utc" \in DOMAIN r /\ r.utc = {}
      /\ data = [r EXCEPT !.utc = U]
  BY DEF Retimed
<1> USE <1>1
<1>2. /\ DOMAIN data = DOMAIN r /\ data.utc = U /\ Timed(data)
      /\ \A k \in DOMAIN r : k # "utc" => data[k] = r[k]
  BY DEF Timed
<1>3. Undated(data) = [k \in DOMAIN r |-> IF k = "utc" THEN {TimeOfDay(x) : x \in U} ELSE r[k]]
  BY <1>2 DEF Undated
<1>4. CASE U = {}
  <2>1. {TimeOfDay(x) : x \in U} = {}
    BY <1>4
  <2>2. Undated(data) = [k \in DOMAIN r |-> r[k]]
    BY <1>3, <2>1
  <2> QED BY <1>4, <2>2
<1>5. ASSUME NEW x, U = {x} PROVE Undated(data) = Timestamped(r, {TimeOfDay(x)})
  <2>1. {TimeOfDay(y) : y \in U} = {TimeOfDay(x)}
    BY <1>5
  <2>2. Undated(data) = [k \in DOMAIN r |-> IF k = "utc" THEN {TimeOfDay(x)} ELSE r[k]]
    BY <1>3, <2>1
  <2> QED BY <2>2 DEF Timestamped
<1> QED BY <1>4, <1>5

(* What is read, type by type.                                             *)
LEMMA ReadingOf ==
  ASSUME NEW f, NEW now
  PROVE  /\ TypeOf(f) = <<Types.GGA>> => Reading(f, now) = {Gga(f, now)}
         /\ TypeOf(f) = <<Types.RMC>> => Reading(f, now) = {Rmc(f, now)}
         /\ TypeOf(f) = <<Types.VTG>> => Reading(f, now) = {Vtg(f)}
         /\ TypeOf(f) = <<Types.GST>> => Reading(f, now) = {Gst(f, now)}
         /\ TypeOf(f) = <<Types.HDT>> => Reading(f, now) = {Hdt(f)}
<1>1. TypeOf(f) = <<Types.GGA>> => Reading(f, now) = {Gga(f, now)}
  BY DEF Reading, TypeOf, Types, Word
<1>2. TypeOf(f) = <<Types.RMC>> => Reading(f, now) = {Rmc(f, now)}
  BY DEF Reading, TypeOf, Types, Word
<1>3. TypeOf(f) = <<Types.VTG>> => Reading(f, now) = {Vtg(f)}
  BY DEF Reading, TypeOf, Types, Word
<1>4. TypeOf(f) = <<Types.GST>> => Reading(f, now) = {Gst(f, now)}
  BY DEF Reading, TypeOf, Types, Word
<1>5. TypeOf(f) = <<Types.HDT>> => Reading(f, now) = {Hdt(f)}
  BY DEF Reading, TypeOf, Types, Word
<1> QED BY <1>1, <1>2, <1>3, <1>4, <1>5

Agree(f, g) == \A i \in 2 .. 11 : f[i] = g[i]
ReadAlike(data, r, f, g, now, c) ==
  /\ c \in TimedType => Retimed(data, r, UtcTimeOfDay(g[1], 0), UtcTimeOfDay(f[1], now))
  /\ c \notin TimedType => "utc" \notin DOMAIN r /\ (f[1] = g[1] => data = r)

(* Fields that differ by their time only read as data that do.             *)
LEMMA TimedReading ==
  ASSUME NEW f, NEW g, NEW now, NEW c \in Range(Types), TypeOf(f) = <<c>>, TypeOf(g) = <<c>>,
         NEW r, Reading(g, 0) = {r}, NEW data \in Reading(f, now), Agree(f, g)
  PROVE  ReadAlike(data, r, f, g, now, c)
<1> USE DEF ReadAlike
<1>1. c \in {Types.GGA, Types.RMC, Types.VTG, Types.GST, Types.HDT}
  BY WordFacts
<1>2. /\ f[2] = g[2] /\ f[3] = g[3] /\ f[4] = g[4] /\ f[5] = g[5] /\ f[6] = g[6] /\ f[7] = g[7]
      /\ f[8] = g[8] /\ f[9] = g[9] /\ f[10] = g[10] /\ f[11] = g[11]
  BY DEF Agree
<1>3. CASE c = Types.GGA
  <2>1. r = Gga(g, 0) /\ data = Gga(f, now)
    BY <1>3, ReadingOf
  <2>2. data = [r EXCEPT !.utc = UtcTimeOfDay(f[1], now)]
    BY <1>2, <2>1 DEF Gga
  <2>3. r = [x \in DOMAIN r |-> r[x]] /\ "utc" \in DOMAIN r /\ r.utc = UtcTimeOfDay(g[1], 0)
    BY <2>1 DEF Gga
  <2>4. Retimed(data, r, UtcTimeOfDay(g[1], 0), UtcTimeOfDay(f[1], now))
    BY <2>2, <2>3 DEF Retimed
  <2>5. c \in TimedType
    BY <1>3 DEF TimedType
  <2> QED BY <2>3, <2>4, <2>5
<1>4. CASE c = Types.RMC
  <2>1. r = Rmc(g, 0) /\ data = Rmc(f, now)
    BY <1>4, ReadingOf
  <2>2. data = [r EXCEPT !.utc = UtcTimeOfDay(f[1], now)]
    BY <1>2, <2>1 DEF Rmc
  <2>3. r = [x \in DOMAIN r |-> r[x]] /\ "utc" \in DOMAIN r /\ r.utc = UtcTimeOfDay(g[1], 0)
    BY <2>1 DEF Rmc
  <2>4. Retimed(data, r, UtcTimeOfDay(g[1], 0), UtcTimeOfDay(f[1], now))
    BY <2>2, <2>3 DEF Retimed
  <2>5. c \in TimedType
    BY <1>4 DEF TimedType
  <2> QED BY <2>3, <2>4, <2>5
<1>5. CASE c = Types.GST
  <2>1. r = Gst(g, 0) /\ data = Gst(f, now)
    BY <1>5, ReadingOf
  <2>2. data = [r EXCEPT !.utc = UtcTimeOfDay(f[1], now)]
    BY <1>2, <2>1 DEF Gst
  <2>3. r = [x \in DOMAIN r |-> r[x]] /\ "utc" \in DOMAIN r /\ r.utc = UtcTimeOfDay(g[1], 0)
    BY <2>1 DEF Gst
  <2>4. Retimed(data, r, UtcTimeOfDay(g[1], 0), UtcTimeOfDay(f[1], now))
    BY <2>2, <2>3 DEF Retimed
  <2>5. c \in TimedType
    BY <1>5 DEF TimedType
  <2> QED BY <2>3, <2>4, <2>5
<1>6. CASE c = Types.VTG
  <2>1. r = Vtg(g) /\ data = Vtg(f)
    BY <1>6, ReadingOf
  <2>2. c \notin TimedType
    BY <1>6 DEF TimedType, Types, Word
  <2>3. f[1] = g[1] => data = r
    BY <1>2, <2>1 DEF Vtg
  <2> QED BY <2>1, <2>2, <2>3 DEF Vtg
<1>7. CASE c = Types.HDT
  <2>1. r = Hdt(g) /\ data = Hdt(f)
    BY <1>7, ReadingOf
  <2>2. c \notin TimedType
    BY <1>7 DEF TimedType, Types, Word
  <2>3. f[1] = g[1] => data = r
    BY <2>1 DEF Hdt
  <2> QED BY <2>1, <2>2, <2>3 DEF Hdt
<1> QED BY <1>1, <1>3, <1>4, <1>5, <1>6, <1>7

(* The sentence of a report, read and undated, is what the report means.   *)
LEMMA DataMeant ==
  ASSUME NEW report, WellFormed(report), Supported(report),
         Reading(FieldsOf(report, <<>>), 0) = {report.data},
         NEW t \in Nat, NEW now \in Nat, NEW data \in Reading(FieldsOf(report, ClockText(t)), now)
  PROVE  Undated(data) = Meant(report, t)
<1> DEFINE f == FieldsOf(report, ClockText(t))  g == FieldsOf(report, <<>>)
           n == Len(report.fields)  r == report.data  c == report.type
           U == UtcTimeOfDay(f[1], now)
<1>1. /\ n \in Nat /\ DOMAIN report.fields = 1 .. n /\ c \in Nat /\ report.talker \in Nat
      /\ c \in Range(Types)
  BY ReportFacts DEF Supported
<1>2. /\ \A i \in 1 .. n : report.fields[i] = Time => i = 1 /\ c \in TimedType
      /\ c \in TimedType /\ 1 \in 1 .. n => report.fields[1] \in {Time, <<>>}
  <2>1. 1 \in 1 .. n => report.fields # <<>>
    BY <1>1
  <2> QED BY <1>1, <2>1 DEF WellFormed
<1>3. \A i \in Places :
        /\ i = 0 => f[i] = <<Dollar, report.talker, c>> /\ g[i] = <<Dollar, report.talker, c>>
        /\ i # 0 /\ i \in 1 .. n => /\ f[i] = FieldText(report.fields[i], ClockText(t))
                                    /\ g[i] = FieldText(report.fields[i], <<>>)
        /\ i # 0 /\ i \notin 1 .. n => f[i] = <<>> /\ g[i] = <<>>
  BY <1>1 DEF FieldsOf
<1>4. TypeOf(f) = <<c>> /\ TypeOf(g) = <<c>>
  <2>1. 0 \in Places /\ Dollar \in Nat
    BY DEF Places, Dollar
  <2>2. f[0] = <<Dollar, report.talker, c>> /\ g[0] = <<Dollar, report.talker, c>>
    BY <1>3, <2>1
  <2>3. LET h == <<Dollar, report.talker, c>> IN ClampedSubstr(h, 2, Len(h)) = <<c>>
    BY <1>1, <2>1, TypeAddressed
  <2> QED BY <2>2, <2>3 DEF TypeOf
<1>5. Agree(f, g)
  <2> SUFFICES ASSUME NEW i \in 2 .. 11 PROVE f[i] = g[i]
    BY DEF Agree
  <2>1. i \in Places /\ i # 0 /\ i # 1
    BY DEF Places
  <2>2. CASE i \in 1 .. n
    <3>1. report.fields[i] # Time
      BY <1>2, <2>1, <2>2
    <3>2. f[i] = report.fields[i] /\ g[i] = report.fields[i]
      BY <1>3, <2>1, <2>2, <3>1 DEF FieldText
    <3> QED BY <3>2
  <2>3. CASE i \notin 1 .. n
    BY <1>3, <2>1, <2>3
  <2> QED BY <2>2, <2>3
<1>6. Time \in ToSet(report.fields) <=> 1 \in 1 .. n /\ report.fields[1] = Time
  BY <1>1, <1>2 DEF ToSet
<1>7. 1 \in Places
  BY DEF Places
<1> HIDE DEF f, g, n, r, c, U
<1>8. Reading(g, 0) = {r} /\ data \in Reading(f, now)
  BY DEF f, g, r
<1>9. /\ c \in TimedType =>
           Retimed(data, r, UtcTimeOfDay(g[1], 0), UtcTimeOfDay(f[1], now))
      /\ c \notin TimedType => /\ "utc" \notin DOMAIN r
                               /\ f[1] = g[1] => data = r
  <2>1. ReadAlike(data, r, f, g, now, c)
    BY <1>1, <1>4, <1>5, <1>8, TimedReading
  <2> QED BY <2>1 DEF ReadAlike
<1>10. Meant(report, t) = IF "utc" \in DOMAIN r /\ Time \in ToSet(report.fields)
                          THEN [r EXCEPT !.utc = {TimeOfDay(t)}] ELSE r
  BY DEF Meant, Timed, r
<1>11. CASE c \in TimedType
  <2>1. \A x : UtcTimeOfDay(<<>>, x) = {}
    <3>1. <<>> \in Seq(Nat) /\ Len(<<>>) < 6
      OBVIOUS
    <3> QED BY <3>1, ShortRead
  <2>2. g[1] = <<>>
    BY <1>2, <1>3, <1>7, <1>11 DEF FieldText
  <2>3. Retimed(data, r, {}, U)
    BY <1>9, <1>11, <2>1, <2>2, Zenon DEF U
  <2>4. /\ (Time \in ToSet(report.fields) => U = {Graft(TimeOfDay(t), now)})
        /\ (Time \notin ToSet(report.fields) => U = {})
    <3>1. CASE Time \in ToSet(report.fields)
      <4>1. f[1] = ClockText(t)
        BY <1>3, <1>6, <1>7, <3>1 DEF FieldText
      <4>2. U = {Graft(TimeOfDay(t), now)}
        BY <4>1, ClockRead DEF U
      <4> QED BY <3>1, <4>2
    <3>2. CASE Time \notin ToSet(report.fields)
      <4>1. f[1] = <<>>
        BY <1>2, <1>3, <1>6, <1>7, <1>11, <3>2 DEF FieldText
      <4>2. U = {}
        BY <2>1, <4>1 DEF U
      <4> QED BY <3>2, <4>2
    <3> QED BY <3>1, <3>2
  <2>5. /\ U = {} => Undated(data) = r
        /\ \A x : U = {x} => Undated(data) = Timestamped(r, {TimeOfDay(x)})
    BY <2>3, DateTaken
  <2>6. TimeOfDay(Graft(TimeOfDay(t), now)) = TimeOfDay(t)
    BY GraftedTime
  <2>7. "utc" \in DOMAIN r
    BY <2>3 DEF Retimed
  <2>8. Meant(report, t) =
          IF Time \in ToSet(report.fields) THEN Timestamped(r, {TimeOfDay(t)}) ELSE r
    BY <1>10, <2>7 DEF Timestamped
  <2> QED BY <2>4, <2>5, <2>6, <2>8
<1>12. CASE c \notin TimedType
  <2>1. Time \notin ToSet(report.fields)
    BY <1>2, <1>6, <1>12
  <2>2. f[1] = g[1]
    BY <1>3, <1>6, <1>7, <2>1 DEF FieldText
  <2>3. data = r /\ "utc" \notin DOMAIN r
    BY <1>9, <1>12, <2>2
  <2> QED BY <1>10, <2>1, <2>3 DEF Undated, Timed
<1> QED BY <1>11, <1>12

(* w is the first m symbols of the text y of a datagram, damaged at h.     *)
Got(w, reports, t, y, h, m) ==
  /\ reports \in Datagrams /\ t \in Nat /\ Damaged(y, Text(reports, t), h)
  /\ m \in 0 .. Len(Text(reports, t)) /\ Beginning(w, y, m)

DatedAs(data, t, now) ==
  Timed(data) /\ data.utc # {} => data.utc = {Graft(TimeOfDay(t), now)}

HitAndCut(e, i, h, m) == h \in e[i - 1] .. e[i] /\ h # 0 /\ m < e[i] - 2

(* The data of the i-th line.                                              *)
DataOfLine(data, reports, t, now, e, i, m) ==
  /\ Supported(reports[i]) /\ e[i] - 2 <= m
  /\ data \in Reading(FieldsOf(reports[i], ClockText(t)), now)

(* A sentence read from the beginning of a report has its address and its  *)
(* time, or none.                                                          *)
LEMMA ReadBegun ==
  ASSUME NEW report, WellFormed(report), NEW t \in Nat, NEW k \in 3 .. Len(Opening(report, t)),
         NEW l \in Seq(Nat), Len(l) = k + 3, \A q \in 1 .. k : l[q] = Opening(report, t)[q],
         NEW now, NEW data \in ParseSentence(l, now)
  PROVE  /\ DatedAs(data, t, now)
         /\ report.talker \in Range(Talkers) /\ report.type \in Range(Types)
<1> DEFINE d == Opening(report, t)  clock == ClockText(t)  c == SubSeq(l, 1, Len(l) - 3)
           f == [i \in Places |-> Field(c, i)]
<1>1. d \in Seq(Nat) /\ Len(d) \in Nat /\ Len(d) >= 3 /\ d[2] = report.talker
  BY OpeningFacts
<1>2. l[2] \in Range(Talkers) /\ data \in Reading(f, now)
  BY DEF ParseSentence
<1>3. PICK e : Addressed(d, e, report, clock)
  BY BodyAddressed
<1> HIDE DEF d, clock
<1>4. k \in Nat /\ k >= 3 /\ k <= Len(d) /\ (\A q \in 1 .. k : l[q] = d[q])
  BY <1>1 DEF d
<1>5. c = SubSeq(l, 1, k)
  <2>1. Len(l) - 3 = k
    BY <1>4
  <2> QED BY <2>1
<1> HIDE DEF c
<1>6. Beginning(c, l, k)
  <2>1. k \in 0 .. Len(l)
    BY <1>4
  <2> QED BY <1>5, <2>1, BeginningIs
<1>7. Beginning(c, d, k)
  BY <1>4, <1>6 DEF Beginning
<1>8. k \in 3 .. Len(d)
  BY <1>1, <1>4
<1>9. Field(c, 0) = <<Dollar, report.talker, report.type>> /\ FieldBegun(Field(c, 1), report, clock)
  BY <1>3, <1>7, <1>8, FieldsCut
<1>10. f[0] = Field(c, 0) /\ f[1] = Field(c, 1)
  BY DEF Places
<1> HIDE DEF f
<1>11. TypeOf(f) = <<report.type>>
  <2>1. Dollar \in Nat /\ report.talker \in Nat /\ report.type \in Nat
    BY ReportFacts DEF Dollar
  <2>2. LET g == <<Dollar, report.talker, report.type>>
        IN  ClampedSubstr(g, 2, Len(g)) = <<report.type>>
    BY <2>1, TypeAddressed
  <2> QED BY <1>9, <1>10, <2>2 DEF TypeOf
<1>12. report.talker \in Range(Talkers)
  <2>1. 2 \in 1 .. k
    BY <1>4
  <2> QED BY <1>1, <1>2, <1>4, <2>1
<1>13. report.type \in Range(Types)
  <2>1. PICK g \in Range(Types) : TypeOf(f) = <<g>>
    BY <1>2, ReadingKnown
  <2>2. <<report.type>>[1] = <<g>>[1]
    BY <1>11, <2>1
  <2> QED BY <2>2
<1>14. DatedAs(data, t, now)
  <2> SUFFICES ASSUME Timed(data), data.utc # {} PROVE data.utc = {Graft(TimeOfDay(t), now)}
    BY DEF DatedAs
  <2>1. data.utc = UtcTimeOfDay(f[1], now) /\ \E g \in TimedType : TypeOf(f) = <<g>>
    BY <1>2, ReadingDated
  <2>2. report.type \in TimedType
    <3>1. PICK g \in TimedType : TypeOf(f) = <<g>>
      BY <2>1
    <3>2. <<report.type>>[1] = <<g>>[1]
      BY <1>11, <3>1
    <3> QED BY <3>2
  <2>3. UtcTimeOfDay(f[1], now) \in {{}, {Graft(TimeOfDay(t), now)}}
    BY <1>9, <1>10, <2>2, TimeRead DEF clock
  <2> QED BY <2>1, <2>3
<1> QED BY <1>12, <1>13, <1>14

(* What is read out of a line is of a report: of a line both damaged and cut, *)
(* or of the whole sentence.                                               *)
LEMMA DataSound ==
  ASSUME NEW w, NEW reports, NEW t, NEW y, NEW h, NEW m, Got(w, reports, t, y, h, m),
         NEW l, NEW a, NEW b, NEW u, NEW v, TrimmedLine(l, w, a, b, u, v),
         NEW now, NEW data \in OnText(l, now)
  PROVE  \E i \in 1 .. Len(reports) : LET e == Ends(reports, t) IN
           /\ u = e[i - 1] + 1 /\ DatedAs(data, t, now)
           /\ HitAndCut(e, i, h, m) \/ DataOfLine(data, reports, t, now, e, i, m)
<1> DEFINE x == Text(reports, t)  e == Ends(reports, t)
<1>1. reports \in Datagrams /\ t \in Nat /\ Damaged(y, x, h) /\ m \in 0 .. Len(x) /\ Beginning(w, y, m)
  BY DEF Got
<1>2. VerifyChecksum(l) /\ data \in ParseSentence(l, now) /\ l \in Seq(Nat)
  BY DEF OnText, TrimmedLine
<1>3. PICK i, k \in Nat : FromLine(l, u, k, i, reports, t, e, h, m)
  <2>1. ParseSentence(l, now) # {}
    BY <1>2
  <2> HIDE DEF x, e
  <2>2. x = Text(reports, t) /\ e = Ends(reports, t)
    BY DEF x, e
  <2> QED BY <1>1, <1>2, <2>1, <2>2, Sound
<1>4. i \in 1 .. Len(reports) /\ WellFormed(reports[i])
  BY <1>1, <1>3, TextLaid DEF FromLine
<1> DEFINE report == reports[i]  N == Len(Opening(report, t))
<1>5. /\ u = e[i - 1] + 1 /\ k \in 3 .. N /\ Len(l) = k + 3
      /\ \A q \in 1 .. k : l[q] = Opening(report, t)[q]
      /\ (k = N /\ e[i] - 2 <= m) \/ HitAndCut(e, i, h, m)
  BY <1>3 DEF FromLine, HitAndCut
<1> HIDE DEF report, e
<1>6. /\ DatedAs(data, t, now)
      /\ report.talker \in Range(Talkers) /\ report.type \in Range(Types)
  BY <1>1, <1>2, <1>4, <1>5, ReadBegun DEF report
<1>7. ASSUME k = N PROVE data \in Reading(FieldsOf(report, ClockText(t)), now)
  <2> DEFINE d == Opening(report, t)
  <2>1. Opened(l, d)
    BY <1>2, <1>5, <1>7 DEF Opened
  <2>2. WellFormed(report)
    BY <1>4 DEF report
  <2>3. ParseSentence(l, now) \subseteq Reading(FieldsOf(report, ClockText(t)), now)
    BY <1>1, <1>2, <2>1, <2>2, ReadsWhole, SMTT(30)
  <2> QED BY <1>2, <2>3
<1>8. HitAndCut(e, i, h, m) \/ DataOfLine(data, reports, t, now, e, i, m)
  BY <1>5, <1>6, <1>7 DEF DataOfLine, Supported, report
<1> QED BY <1>4, <1>5, <1>6, <1>8 DEF e

(* What was received is a beginning of what was sent, off at the damage.   *)
LEMMA GotFacts ==
  ASSUME NEW w, NEW reports, NEW t, NEW y, NEW h, NEW m, Got(w, reports, t, y, h, m),
         NEW x, x = Text(reports, t)
  PROVE  /\ reports \in Datagrams /\ t \in Nat /\ h \in Nat
         /\ x \in Seq(Nat) /\ Len(x) \in Nat /\ m \in Nat /\ m <= Len(x)
         /\ w \in Seq(Nat) /\ Len(w) = m /\ Kept(w, x, h, m)
<1>1. reports \in Datagrams /\ t \in Nat /\ Damaged(y, x, h) /\ m \in 0 .. Len(x) /\ Beginning(w, y, m)
  BY DEF Got
<1>2. x \in Seq(Nat) /\ Len(x) \in Nat
  BY <1>1, TextLaid, LenProperties DEF Laid
<1>3. m \in Nat /\ m <= Len(x) /\ \A p \in 1 .. m : p \in 1 .. Len(x)
  BY <1>1, <1>2
<1>4. h \in Nat /\ (h # 0 => h \in 1 .. Len(x) /\ y[h] \in 0 .. 255)
      /\ \A p \in 1 .. Len(x) : p # h => y[p] = x[p]
  BY <1>1 DEF Damaged
<1>5. w \in Seq(Nat) /\ Len(w) = m /\ \A p \in 1 .. m : w[p] = y[p]
  BY <1>1 DEF Beginning
<1>6. ASSUME NEW p \in 1 .. m PROVE IF p = h THEN w[p] \in 0 .. 255 ELSE w[p] = x[p]
  <2>1. p # 0 /\ p \in 1 .. Len(x)
    BY <1>3
  <2> QED BY <1>4, <1>5, <2>1, ZenonT(60)
<1> QED BY <1>1, <1>2, <1>3, <1>4, <1>5, <1>6 DEF Kept

(* A line that the damage does not touch and whose sentence fits.          *)
Spared(e, i, h, m) == (h \notin e[i - 1] .. e[i] \/ h = 0) /\ e[i] - 2 <= m

(* A spared line is received as it was sent.                               *)
LEMMA SparedKept ==
  ASSUME NEW w, NEW reports, NEW t, NEW y, NEW h, NEW m, Got(w, reports, t, y, h, m),
         NEW x, x = Text(reports, t), NEW e, e = Ends(reports, t),
         NEW i \in 1 .. Len(reports), Spared(e, i, h, m)
  PROVE  /\ e[i - 1] \in Nat /\ e[i] \in Nat /\ e[i] >= e[i - 1] + 8 /\ e[i] - 2 <= m
         /\ \A p \in 1 .. m : p \in e[i - 1] .. e[i] => w[p] = x[p]
<1>1. /\ reports \in Datagrams /\ t \in Nat /\ h \in Nat /\ m \in Nat /\ Kept(w, x, h, m)
  BY GotFacts
<1> DEFINE s == Sentence(reports[i], t)  N == Len(Opening(reports[i], t))
           A == e[i - 1]  E == e[i]
<1>2. Spelled(s, reports[i], N) /\ LineAt(x, A, E, s, N)
  BY <1>1, LineText
<1>3. (h \notin A .. E \/ h = 0) /\ E - 2 <= m
  BY DEF Spared
<1> HIDE DEF s, N, A, E
<1>4. N \in Nat /\ N >= 3 /\ A \in Nat /\ E = A + N + 5
  BY <1>2 DEF Spelled, LineAt
<1>5. A \in Nat /\ E \in Nat /\ E >= A + 8 /\ E - 2 <= m
  BY <1>3, <1>4
<1>6. \A p \in 1 .. m : p \in A .. E => w[p] = x[p]
  <2> SUFFICES ASSUME NEW p \in 1 .. m, p \in A .. E PROVE w[p] = x[p]
    OBVIOUS
  <2>1. p # h
    BY <1>1, <1>3
  <2> QED BY <1>1, <2>1 DEF Kept
<1> QED BY <1>5, <1>6 DEF A, E

(* The line before a spared one ends where it does.                        *)
LEMMA LineBefore ==
  ASSUME NEW w, NEW reports, NEW t, NEW y, NEW h, NEW m, Got(w, reports, t, y, h, m),
         NEW e, e = Ends(reports, t), NEW i \in 1 .. Len(reports), Spared(e, i, h, m),
         NEW a \in Nat \ {0}, a <= e[i - 1], NEW b, b = Find(LF, w, a)
  PROVE  b \in Nat /\ b >= a /\ b <= e[i - 1]
<1> DEFINE x == Text(reports, t)  A == e[i - 1]  E == e[i]
<1>1. /\ reports \in Datagrams /\ t \in Nat /\ m \in Nat /\ w \in Seq(Nat) /\ Len(w) = m
  BY GotFacts
<1>2. /\ A \in Nat /\ E \in Nat /\ E >= A + 8 /\ E - 2 <= m
      /\ \A p \in 1 .. m : p \in A .. E => w[p] = x[p]
  BY SparedKept
<1>3. a <= A
  OBVIOUS
<1>4. i - 1 \in 1 .. Len(reports)
  <2>1. e[0] = 0 /\ Len(reports) \in Nat
    BY <1>1, TextLaid DEF Laid
  <2>2. A # 0
    BY <1>2
  <2>3. i # 1
    BY <2>1, <2>2
  <2> QED BY <2>1, <2>3
<1>5. x[A] = LF
  BY <1>1, <1>4, LineText DEF LineAt
<1> HIDE DEF A, E, x
<1>6. A \in Nat /\ E \in Nat /\ E >= A + 8 /\ E - 2 <= m /\ m \in Nat /\ a <= A /\ a \in Nat /\ a # 0
  BY <1>1, <1>2, <1>3
<1>7. A \in 1 .. m /\ A \in A .. E /\ a <= A
  BY <1>6
<1>8. w[A] = LF
  BY <1>2, <1>5, <1>7
<1>9. Found(LF, w, a, b) /\ b \in 1 .. m + 1
  <2>1. a <= Len(w) + 1
    BY <1>1, <1>6
  <2> QED BY <1>1, <2>1, FindFacts
<1>10. b \in a .. m + 1 /\ \A q \in a .. b - 1 : w[q] # LF
  BY <1>1, <1>9 DEF Found
<1>11. b <= A
  <2>1. A \notin a .. b - 1
    BY <1>8, <1>10
  <2> QED BY <1>6, <1>10, <2>1
<1> QED BY <1>10, <1>11 DEF A

(* A spared line is cut out as it was sent.                                *)
LEMMA SparedLine ==
  ASSUME NEW w, NEW reports, NEW t, NEW y, NEW h, NEW m, Got(w, reports, t, y, h, m),
         NEW e, e = Ends(reports, t), NEW i \in 1 .. Len(reports), Spared(e, i, h, m),
         NEW a, a = e[i - 1] + 1, NEW b, b = Find(LF, w, a)
  PROVE  /\ Trim(SubSeq(w, a, b - 1)) = Sentence(reports[i], t)
         /\ b = e[i] \/ (b = m + 1 /\ m < e[i])
<1> DEFINE x == Text(reports, t)
           s == Sentence(reports[i], t)  N == Len(Opening(reports[i], t))
           A == e[i - 1]  E == e[i]  L == N + 3
<1>1. /\ reports \in Datagrams /\ t \in Nat /\ m \in Nat /\ w \in Seq(Nat) /\ Len(w) = m
  BY GotFacts
<1>2. /\ A \in Nat /\ E \in Nat /\ E - 2 <= m /\ \A p \in 1 .. m : p \in A .. E => w[p] = x[p]
  BY SparedKept
<1>3. Spelled(s, reports[i], N) /\ LineAt(x, A, E, s, N) /\ Marked(x, A, E)
  BY <1>1, LineText, Whereabouts
<1>4. a = A + 1
  OBVIOUS
<1> HIDE DEF x, s, N, A, E
<1>5. /\ N \in Nat /\ N >= 3 /\ E = A + N + 5 /\ L \in Nat /\ L >= 6 /\ E = A + L + 2
      /\ A \in Nat /\ E \in Nat /\ E - 2 <= m /\ m \in Nat /\ a = A + 1 /\ a \in Nat \ {0}
  <2>1. N \in Nat /\ N >= 3 /\ E = A + N + 5
    BY <1>3 DEF Spelled, LineAt
  <2>2. A \in Nat /\ E \in Nat /\ E - 2 <= m /\ m \in Nat
    BY <1>1, <1>2
  <2>3. L \in Nat /\ L >= 6 /\ E = A + L + 2
    BY <2>1, <2>2
  <2>4. a \in Nat \ {0}
    BY <1>4, <2>2
  <2> QED BY <1>4, <2>1, <2>2, <2>3, <2>4
<1>6. /\ s \in Seq(Nat) /\ Len(s) = L /\ s[1] = Dollar /\ s[L] \in HexDigits
      /\ x[E - 1] = CR /\ x[E] = LF /\ \A q \in 1 .. L : x[A + q] = s[q]
  BY <1>3 DEF Spelled, LineAt
<1> HIDE DEF L
<1>7. Found(LF, w, a, b)
  <2>1. a \in Nat \ {0} /\ a <= m + 1
    BY <1>5
  <2>2. a <= Len(w) + 1
    BY <1>1, <2>1
  <2> QED BY <1>1, <2>1, <2>2, FindFacts
<1>8. b \in a .. m + 1 /\ (b <= m => w[b] = LF) /\ \A q \in a .. b - 1 : w[q] # LF
  BY <1>1, <1>7 DEF Found
<1>9. b <= E
  <2> SUFFICES ASSUME b > E PROVE FALSE
    BY <1>5, <1>8
  <2>1. E \in 1 .. m /\ E \in A .. E /\ E \in a .. b - 1
    BY <1>5, <1>8
  <2> QED BY <1>2, <1>6, <1>8, <2>1
<1>10. b <= m => b = E
  <2> SUFFICES ASSUME b <= m PROVE b = E
    OBVIOUS
  <2>1. b \in 1 .. m /\ b \in A .. E /\ b \in A + 1 .. E
    BY <1>5, <1>8, <1>9
  <2>2. x[b] = LF
    BY <1>2, <1>8, <2>1
  <2> QED BY <1>3, <2>1, <2>2 DEF Marked
<1>11. b = E \/ (b = m + 1 /\ m < E)
  BY <1>5, <1>8, <1>9, <1>10
<1>12. b \in Nat /\ (b = E \/ b = E - 1)
  BY <1>5, <1>8, <1>9, <1>11, SMTT(30)
<1> DEFINE c == SubSeq(w, a, b - 1)
<1>13. /\ c \in Seq(Nat) /\ Len(c) = (b - 1) - A
       /\ \A q \in 1 .. (b - 1) - A : c[q] = w[A + q]
  <2>1. \A q \in a .. b - 1 : w[q] \in Nat
    <3>1. \A q \in a .. b - 1 : q \in 1 .. m
      BY <1>1, <1>2, <1>4, <1>8
    <3> QED BY <1>1, <3>1, ElementOfSeq
  <2>2. a \in Int /\ b - 1 \in Int /\ a <= b - 1
    BY <1>5, <1>12
  <2>3. /\ c \in Seq(Nat) /\ Len(c) = IF a <= b - 1 THEN (b - 1) - a + 1 ELSE 0
        /\ \A q \in 1 .. (b - 1) - a + 1 : c[q] = w[a + q - 1]
    BY <2>1, <2>2, SubSeqProperties, SMTT(30)
  <2> HIDE DEF c
  <2>4. (b - 1) - a + 1 = (b - 1) - A /\ \A q \in 1 .. (b - 1) - A : a + q - 1 = A + q
    BY <1>5, <1>12, SMTT(30)
  <2> QED BY <2>2, <2>3, <2>4, SMTT(30)
<1> HIDE DEF c
<1>14. \A q \in 1 .. L : q \in 1 .. (b - 1) - A /\ A + q \in 1 .. m /\ A + q \in A .. E
  BY <1>5, <1>12, SMTT(30)
<1>15. \A q \in 1 .. L : c[q] = s[q]
  BY <1>2, <1>6, <1>13, <1>14
<1>16. Inked(c, 1, L)
  <2>1. 1 \in 1 .. L /\ L \in 1 .. L
    BY <1>5
  <2>2. c[1] \notin Blanks /\ c[L] \notin Blanks
    <3>1. c[1] = Dollar /\ c[L] \in HexDigits
      BY <1>6, <1>15, <2>1
    <3> QED BY <3>1, NotHex DEF Blanks, Dollar, LF, CR
  <2>3. ASSUME NEW p \in L + 1 .. (b - 1) - A PROVE c[p] \in Blanks
    <3>1. p \in 1 .. (b - 1) - A /\ A + p = E - 1 /\ E - 1 \in 1 .. m /\ E - 1 \in A .. E
      BY <1>5, <1>8, <1>12, SMTT(30)
    <3>2. c[p] = CR
      BY <1>2, <1>6, <1>13, <3>1
    <3> QED BY <3>2 DEF Blanks
  <2>4. 1 \in 1 .. (b - 1) - A /\ L \in 1 .. (b - 1) - A
    BY <1>14, <2>1
  <2>5. /\ 1 \in 1 .. Len(c) /\ L \in 1 .. Len(c)
        /\ \A p \in L + 1 .. Len(c) : c[p] \in Blanks
    BY <1>13, <2>3, <2>4
  <2> QED BY <1>5, <2>2, <2>5 DEF Inked
<1>17. Trim(c) = SubSeq(c, 1, L)
  BY <1>13, <1>16, TrimIs
<1>18. SubSeq(c, 1, L) = s
  <2>1. 0 + Len(s) <= Len(c)
    BY <1>5, <1>6, <1>13, <1>14
  <2>2. 0 + 1 = 1 /\ 0 + Len(s) = L /\ \A j \in 1 .. L : 0 + j = j
    BY <1>5, <1>6
  <2>3. \A j \in 1 .. Len(s) : c[0 + j] = s[j]
    BY <1>6, <1>15, <2>2
  <2>4. SubSeq(c, 0 + 1, 0 + Len(s)) = s
    BY <1>6, <1>13, <2>1, <2>3, SliceIs
  <2> QED BY <2>2, <2>4, Zenon
<1> QED BY <1>11, <1>17, <1>18 DEF c, s, E

(* A line whose sentence does not fit, and which gives nothing.            *)
IsCut(e, i, m) == e[i - 1] <= m /\ m < e[i] - 2
GivesNone(l, now) == l = <<>> \/ OnText(l, now) = {}

(* Nothing is read out of a line that is cut, if nothing is damaged.       *)
LEMMA CutLine ==
  ASSUME NEW w, NEW reports, NEW t, NEW y, NEW m, Got(w, reports, t, y, 0, m),
         NEW e, e = Ends(reports, t), NEW i \in 1 .. Len(reports), IsCut(e, i, m),
         NEW a, a = e[i - 1] + 1, NEW b, b = Find(LF, w, a),
         NEW l, l = Trim(SubSeq(w, a, b - 1)), NEW now
  PROVE  b = m + 1 /\ GivesNone(l, now)
<1> DEFINE x == Text(reports, t)  A == e[i - 1]  E == e[i]  n == Len(reports)
<1>1. /\ reports \in Datagrams /\ t \in Nat /\ m \in Nat /\ m <= Len(x) /\ w \in Seq(Nat) /\ Len(w) = m
      /\ Kept(w, x, 0, m)
  BY GotFacts
<1>2. Laid(x, e, n, reports, t) /\ n \in Nat
  BY <1>1, TextLaid
<1>3. /\ \A j, k \in 0 .. n : e[j] \in Nat /\ (j <= k => e[j] <= e[k])
      /\ Len(x) = e[n] /\ i \in 0 .. n /\ i - 1 \in 0 .. n /\ n \in 0 .. n
  BY <1>2 DEF Laid
<1>4. A \in Nat /\ E \in Nat /\ A <= m /\ m < E - 2 /\ a = A + 1 /\ a \in Nat \ {0}
  BY <1>3, SMTT(30) DEF IsCut
<1>5. Marked(x, A, E)
  BY <1>1, Whereabouts
<1> HIDE DEF x, A, E, n
<1>6. Found(LF, w, a, b)
  <2>1. a <= Len(w) + 1
    BY <1>1, <1>4
  <2> QED BY <1>1, <1>4, <2>1, FindFacts
<1>7. b \in a .. m + 1 /\ (b <= m => w[b] = LF)
  BY <1>1, <1>6 DEF Found
<1>8. b = m + 1
  <2> SUFFICES ASSUME b <= m PROVE FALSE
    BY <1>1, <1>4, <1>7
  <2>1. b \in 1 .. m /\ b # 0 /\ b \in A + 1 .. E /\ b # E
    BY <1>1, <1>4, <1>7, SMTT(30)
  <2>2. x[b] = LF
    BY <1>1, <1>7, <2>1 DEF Kept
  <2> QED BY <1>5, <2>1, <2>2 DEF Marked
<1>9. ASSUME l # <<>>, NEW data \in OnText(l, now) PROVE FALSE
  <2>1. PICK u, v \in Nat : TrimmedLine(l, w, a, b, u, v)
    BY <1>1, <1>4, <1>9, LineTrimmed
  <2>2. PICK j \in 1 .. n :
          /\ u = e[j - 1] + 1
          /\ HitAndCut(e, j, 0, m) \/ DataOfLine(data, reports, t, now, e, j, m)
    BY <1>9, <2>1, DataSound DEF n
  <2>3. a <= u /\ e[j] - 2 <= m
    <3>1. a <= u
      BY <2>1 DEF TrimmedLine
    <3>2. e[j] - 2 <= m
      BY <2>2 DEF HitAndCut, DataOfLine
    <3> QED BY <3>1, <3>2
  <2>4. j \in 1 .. n /\ j \in 0 .. n /\ j - 1 \in 0 .. n /\ n \in Nat /\ i \in 1 .. n
    BY <1>2, <1>3 DEF n
  <2> DEFINE B == e[j - 1]  C == e[j]
  <2>5. B \in Nat /\ C \in Nat /\ C >= B + 8
    <3>1. Spelled(Sentence(reports[j], t), reports[j], Len(Opening(reports[j], t)))
          /\ LineAt(x, B, C, Sentence(reports[j], t), Len(Opening(reports[j], t)))
      <4>1. j \in 1 .. Len(reports)
        BY DEF n
      <4> QED BY <1>1, <4>1, LineText DEF x
    <3> HIDE DEF B, C
    <3> DEFINE N == Len(Opening(reports[j], t))
    <3>2. N \in Nat /\ N >= 3 /\ B \in Nat /\ C = B + N + 5
      BY <3>1 DEF Spelled, LineAt
    <3> HIDE DEF N
    <3> QED BY <3>2
  <2>6. CASE j < i
    <3>1. j <= i - 1
      BY <2>4, <2>6
    <3>2. C <= A
      BY <1>3, <2>4, <3>1 DEF A
    <3>3. A + 1 <= B + 1
      BY <1>4, <2>2, <2>3
    <3> HIDE DEF B, C
    <3> QED BY <1>4, <2>5, <3>2, <3>3
  <2>7. CASE ~(j < i)
    <3>1. i <= j
      BY <2>4, <2>7
    <3>2. E <= C /\ C - 2 <= m
      BY <1>3, <2>3, <2>4, <3>1 DEF E
    <3> HIDE DEF B, C
    <3> QED BY <1>1, <1>4, <2>5, <3>2
  <2> QED BY <2>6, <2>7
<1>10. l # <<>> => OnText(l, now) = {}
  BY <1>9
<1> QED BY <1>8, <1>10 DEF GivesNone

(* The steps of what is due.                                               *)
DueStep(d, i, v) ==
  IF Supported(d.reports[i]) /\ ~Truncated(d, i)
  THEN Append(v, Meant(d.reports[i], d.sent)) ELSE v

(* What is due grows line by line.                                         *)
LEMMA DueSteps ==
  ASSUME NEW d, Len(d.reports) \in Nat
  PROVE  Due(d)[0] = <<>> /\ \A i \in 1 .. Len(d.reports) : Due(d)[i] = DueStep(d, i, Due(d)[i - 1])
<1> DEFINE n == Len(d.reports)
           S == Seq({Meant(d.reports[i], d.sent) : i \in 1 .. n})
           G(i, v) == DueStep(d, i, v)
           step == [i \in 1 .. n |-> [v \in S |-> G(i, v)]]
           IsDue(f) == f = [i \in 0 .. n |-> IF i = 0 THEN <<>> ELSE G(i, f[i - 1])]
           due == CHOOSE f : IsDue(f)
<1>1. n \in Nat
  OBVIOUS
<1>2. Due(d) = due
  BY DEF Due, DueStep
<1>3. <<>> \in S
  OBVIOUS
<1>4. \A i \in 1 .. n, v \in S : G(i, v) \in S
  <2>1. ASSUME NEW i \in 1 .. n, NEW v \in S PROVE G(i, v) \in S
    <3>1. Append(v, Meant(d.reports[i], d.sent)) \in S
      <4> DEFINE T == {Meant(d.reports[k], d.sent) : k \in 1 .. n}
      <4>1. Meant(d.reports[i], d.sent) \in T
        OBVIOUS
      <4>2. v \in Seq(T)
        OBVIOUS
      <4> HIDE DEF T
      <4>3. Append(v, Meant(d.reports[i], d.sent)) \in Seq(T)
        BY <4>1, <4>2, AppendProperties
      <4> QED BY <4>3 DEF T
    <3> QED BY <3>1 DEF DueStep
  <2> QED BY <2>1
<1> HIDE DEF n, G, S
<1>5. step \in Steps(n, S)
  BY <1>4 DEF Steps
<1>6. PICK f : StepsOf(f, n, S, <<>>, step)
  <2> HIDE DEF step
  <2> QED BY <1>1, <1>3, <1>5, Recursion
<1>7. IsDue(due)
  <2>1. f \in [0 .. n -> S] /\ f[0] = <<>>
    BY <1>6 DEF StepsOf
  <2>2. ASSUME NEW i \in 1 .. n PROVE f[i] = G(i, f[i - 1])
    <3>1. f[i - 1] \in S
      BY <1>1, <2>1
    <3> QED BY <1>6, <3>1 DEF StepsOf
  <2>3. IsDue(f)
    BY <2>1, <2>2
  <2> HIDE DEF IsDue
  <2> QED BY <2>3
<1> HIDE DEF due
<1>8. due[0] = <<>> /\ \A i \in 1 .. n : due[i] = G(i, due[i - 1])
  BY <1>1, <1>7
<1> QED BY <1>2, <1>8 DEF n, G

(* Nothing more is due of the lines that do not fit.                       *)
LEMMA DueRest ==
  ASSUME NEW d, Len(d.reports) \in Nat, NEW k \in 0 .. Len(d.reports),
         \A j \in k + 1 .. Len(d.reports) : Truncated(d, j)
  PROVE  Due(d)[Len(d.reports)] = Due(d)[k]
<1> DEFINE n == Len(d.reports)  OK == {i \in 0 .. n - k : Due(d)[k + i] = Due(d)[k]}
<1>1. n \in Nat /\ k \in Nat /\ k <= n /\ n - k \in Nat
  OBVIOUS
<1>2. \A i \in 1 .. n : Due(d)[i] = DueStep(d, i, Due(d)[i - 1])
  BY DueSteps
<1>3. \A j \in k + 1 .. n : Truncated(d, j)
  OBVIOUS
<1> HIDE DEF n
<1>4. 0 \in OK
  BY <1>1
<1>5. ASSUME NEW i \in 0 .. n - k - 1, i \in OK PROVE i + 1 \in OK
  <2>1. k + (i + 1) \in 1 .. n /\ k + (i + 1) \in k + 1 .. n /\ (k + (i + 1)) - 1 = k + i /\ i + 1 \in 0 .. n - k
    BY <1>1
  <2>2. Due(d)[k + (i + 1)] = DueStep(d, k + (i + 1), Due(d)[k + i])
    BY <1>2, <2>1
  <2>3. Truncated(d, k + (i + 1))
    BY <1>3, <2>1
  <2>4. DueStep(d, k + (i + 1), Due(d)[k + i]) = Due(d)[k + i]
    BY <2>3 DEF DueStep
  <2> QED BY <1>5, <2>1, <2>2, <2>4
<1>6. \A i \in 0 .. n - k : i \in OK
  <2> HIDE DEF OK
  <2> QED BY <1>1, <1>4, <1>5, AllTheWay
<1>7. n - k \in 0 .. n - k /\ k + (n - k) = n
  BY <1>1
<1> QED BY <1>6, <1>7 DEF n

-----------------------------------------------------------------------------
(* What is heard.                                                          *)
Undateds(s) == [i \in DOMAIN s |-> Undated(s[i])]

(* Appending to what was heard.                                            *)
LEMMA AppendHeard ==
  ASSUME NEW s, s \in Seq(ToSet(s)), NEW x
  PROVE  LET g == Append(s, x) IN
         /\ g \in Seq(ToSet(g)) /\ ToSet(g) = ToSet(s) \cup {x}
         /\ Undateds(g) = Append(Undateds(s), Undated(x))
<1> DEFINE n == Len(s)  g == Append(s, x)  T == ToSet(s) \cup {x}
<1>1. n \in Nat /\ DOMAIN s = 1 .. n
  BY LenProperties
<1>2. \A i \in 1 .. n : s[i] \in T
  BY <1>1, ElementOfSeq
<1>3. s \in Seq(T) /\ x \in T
  <2>1. ToSet(s) \subseteq T
    OBVIOUS
  <2>2. s \in Seq(T)
    <3> HIDE DEF T
    <3> QED BY <2>1, SeqMonotonic
  <2> QED BY <2>2
<1>4. ToSet(s) = {s[i] : i \in 1 .. n}
  BY <1>1 DEF ToSet
<1> HIDE DEF T
<1>5. /\ g \in Seq(T) /\ Len(g) = n + 1 /\ g[n + 1] = x
      /\ \A i \in 1 .. n : g[i] = s[i]
  BY <1>1, <1>3, AppendProperties
<1> HIDE DEF g
<1>6. DOMAIN g = 1 .. n + 1
  BY <1>5, LenProperties
<1>7. ToSet(g) = T
  <2>1. ToSet(g) = {g[i] : i \in 1 .. n + 1}
    BY <1>6 DEF ToSet
  <2>2. \A i \in 1 .. n + 1 : i = n + 1 \/ i \in 1 .. n
    BY <1>1
  <2>3. n + 1 \in 1 .. n + 1 /\ \A i \in 1 .. n : i \in 1 .. n + 1
    BY <1>1
  <2>4. \A y \in ToSet(g) : y \in T
    BY <1>2, <1>3, <1>5, <2>1, <2>2
  <2>5. ToSet(s) \subseteq ToSet(g)
    BY <1>4, <1>5, <2>1, <2>3
  <2>6. x \in ToSet(g)
    BY <1>5, <2>1, <2>3
  <2> QED BY <2>4, <2>5, <2>6 DEF T
<1>8. Undateds(g) = Append(Undateds(s), Undated(x))
  <2> DEFINE us == Undateds(s)  ug == Undateds(g)  U == {Undated(y) : y \in T}
             ua == Append(us, Undated(x))
  <2>1. us = [i \in 1 .. n |-> Undated(s[i])] /\ ug = [i \in 1 .. n + 1 |-> Undated(g[i])]
    BY <1>1, <1>6 DEF Undateds
  <2>2. us \in [1 .. n -> U] /\ Undated(x) \in U
    BY <1>2, <1>3, <2>1
  <2> HIDE DEF U
  <2>3. us \in Seq(U)
    BY <1>1, <2>2, SeqDef
  <2>4. Len(us) = n
    BY <1>1, <2>2, <2>3, LenProperties
  <2> HIDE DEF us
  <2>5. /\ ua \in Seq(U) /\ Len(ua) = n + 1 /\ ua[n + 1] = Undated(x)
        /\ \A i \in 1 .. n : ua[i] = us[i]
    BY <2>2, <2>3, <2>4, AppendProperties
  <2> HIDE DEF ua
  <2>6. DOMAIN ua = 1 .. n + 1 /\ ua = [i \in DOMAIN ua |-> ua[i]]
    BY <2>5, LenProperties, SeqDef
  <2>7. \A i \in 1 .. n + 1 : ua[i] = Undated(g[i])
    <3>1. \A i \in 1 .. n + 1 : i = n + 1 \/ i \in 1 .. n
      BY <1>1
    <3>2. \A i \in 1 .. n : us[i] = Undated(s[i])
      BY <2>1 DEF us
    <3> QED BY <1>5, <2>5, <3>1, <3>2
  <2> QED BY <2>1, <2>6, <2>7 DEF ua, us
<1> QED BY <1>5, <1>7, <1>8 DEF g, T

(* What a turn of the loop makes of what was heard.                        *)
Parsed(line, now) == IF line = <<>> THEN {} ELSE OnText(line, now)
HeardOf(heard, line, now) ==
  IF Parsed(line, now) = {} THEN heard
  ELSE Append(heard, CHOOSE data \in Parsed(line, now) : TRUE)

(* A turn of the loop adds the data of the line, if it has any.            *)
LEMMA HeardCases ==
  ASSUME NEW s, s \in Seq(ToSet(s)), NEW line, NEW now
  PROVE  /\ HeardOf(s, line, now) \in Seq(ToSet(HeardOf(s, line, now)))
         /\ ToSet(s) \subseteq ToSet(HeardOf(s, line, now))
         /\ Parsed(line, now) = {} => HeardOf(s, line, now) = s
         /\ Parsed(line, now) # {} =>
              \E data \in Parsed(line, now) :
                /\ ToSet(HeardOf(s, line, now)) = ToSet(s) \cup {data}
                /\ Undateds(HeardOf(s, line, now)) = Append(Undateds(s), Undated(data))
<1>1. CASE Parsed(line, now) = {}
  BY <1>1 DEF HeardOf
<1>2. CASE Parsed(line, now) # {}
  <2> DEFINE data == CHOOSE data \in Parsed(line, now) : TRUE
  <2>1. HeardOf(s, line, now) = Append(s, data) /\ data \in Parsed(line, now)
    BY <1>2 DEF HeardOf
  <2> HIDE DEF data
  <2> QED BY <1>2, <2>1, AppendHeard
<1> QED BY <1>1, <1>2

(* The sentence of a supported report is read as its fields say.           *)
LEMMA SupportedRead ==
  ASSUME NEW report, WellFormed(report), Supported(report), NEW t \in Nat, NEW now
  PROVE  Parsed(Sentence(report, t), now) = Reading(FieldsOf(report, ClockText(t)), now)
         /\ Parsed(Sentence(report, t), now) # {}
<1> DEFINE s == Sentence(report, t)  f == FieldsOf(report, ClockText(t))
<1>1. s # <<>>
  <2>1. Len(s) # 0
    <3> DEFINE N == Len(Opening(report, t))
    <3>1. Spelled(s, report, N)
      BY SentenceSpelled
    <3> HIDE DEF s, N
    <3>2. N \in Nat /\ Len(s) = N + 3
      BY <3>1 DEF Spelled
    <3> QED BY <3>2
  <2> HIDE DEF s
  <2> QED BY <2>1
<1>2. OnText(s, now) = Reading(f, now)
  BY SentenceAccepted
<1>3. TypeOf(f) = <<report.type>>
  <2>1. 0 \in Places
    BY DEF Places
  <2>2. f[0] = <<Dollar, report.talker, report.type>>
    BY <2>1 DEF FieldsOf
  <2>3. Dollar \in Nat /\ report.talker \in Nat /\ report.type \in Nat
    BY ReportFacts DEF Dollar
  <2>4. LET g == <<Dollar, report.talker, report.type>>
        IN  ClampedSubstr(g, 2, Len(g)) = <<report.type>>
    BY <2>3, TypeAddressed
  <2> QED BY <2>2, <2>4 DEF TypeOf
<1> HIDE DEF f
<1>4. Reading(f, now) # {}
  <2>1. report.type \in {Types.GGA, Types.RMC, Types.VTG, Types.GST, Types.HDT}
    BY WordFacts DEF Supported
  <2>2. \/ TypeOf(f) = <<Types.GGA>> \/ TypeOf(f) = <<Types.RMC>> \/ TypeOf(f) = <<Types.VTG>>
        \/ TypeOf(f) = <<Types.GST>> \/ TypeOf(f) = <<Types.HDT>>
    BY <1>3, <2>1
  <2>3. \A x : {x} # {}
    OBVIOUS
  <2> QED BY <2>2, <2>3, ReadingOf
<1> QED BY <1>1, <1>2, <1>4 DEF Parsed, f

(* That of an unsupported one is not read.                                 *)
LEMMA UnsupportedRead ==
  ASSUME NEW report, WellFormed(report), ~Supported(report), NEW t \in Nat, NEW now
  PROVE  Parsed(Sentence(report, t), now) = {}
<1> DEFINE s == Sentence(report, t)  d == Opening(report, t)  N == Len(d)
<1> SUFFICES ASSUME NEW data \in Parsed(s, now) PROVE FALSE
  OBVIOUS
<1>1. data \in ParseSentence(s, now)
  BY DEF Parsed, OnText
<1>2. Spelled(s, report, N) /\ Sealed(s, d, Sum(Body(report, t)))
  BY SentenceSpelled, SentenceSealed
<1>3. N \in 3 .. Len(Opening(report, t)) /\ s \in Seq(Nat) /\ Len(s) = N + 3
      /\ \A q \in 1 .. N : s[q] = Opening(report, t)[q]
  BY <1>2 DEF Spelled, Sealed
<1> HIDE DEF s, N, d
<1>4. report.talker \in Range(Talkers) /\ report.type \in Range(Types)
  BY <1>1, <1>3, ReadBegun
<1> QED BY <1>4 DEF Supported

(* The data of a supported report in a datagram are as meant.              *)
LEMMA AsMeant ==
  ASSUME NEW reports \in Datagrams, NEW i \in 1 .. Len(reports), Supported(reports[i]),
         NEW t \in Nat, NEW now \in Nat,
         NEW data \in Reading(FieldsOf(reports[i], ClockText(t)), now)
  PROVE  Undated(data) = Meant(reports[i], t)
<1>1. WellFormed(reports[i]) /\ DOMAIN reports = 1 .. Len(reports)
  BY TextLaid
<1>2. reports[i] \in ToSet(reports)
  BY <1>1 DEF ToSet
<1>3. Reading(FieldsOf(reports[i], <<>>), 0) = {reports[i].data}
  BY <1>2, MeaningAssumption
<1> QED BY <1>1, <1>3, DataMeant

-----------------------------------------------------------------------------
(* The inductive invariant of the link.                                    *)
Flying(d) ==
  /\ d \in [sent : Nat, reports : Datagrams, text : Seq(Nat),
            ends : {Ends(d.reports, d.sent)}, hit : Nat]
  /\ Damaged(d.text, Text(d.reports, d.sent), d.hit)

Size(text) == IF Len(text) < buffer THEN Len(text) ELSE buffer

(* Of what was heard: its date; that it was meant, or is of a line both     *)
(* damaged and cut; that nothing spared is missing of what was passed; and, *)
(* of an undamaged datagram, that it is what is due up to a line.          *)
Dated(heard, t, host) == \A data \in ToSet(heard) : DatedAs(data, t, host)

IsMeant(data, reports, t) == \E i \in 1 .. Len(reports) : Undated(data) = Meant(reports[i], t)
Loose(reports, e, hit, m) == \E i \in 1 .. Len(reports) : HitAndCut(e, i, hit, m)
Genuine(heard, reports, t, e, hit, m) ==
  Loose(reports, e, hit, m) \/ \A data \in ToSet(heard) : IsMeant(data, reports, t)

Given(heard, report, t) == \E data \in ToSet(heard) : Undated(data) = Meant(report, t)
Complete(heard, start, reports, t, e, hit, m) ==
  \A i \in 1 .. Len(reports) :
    Supported(reports[i]) /\ Spared(e, i, hit, m) =>
      start <= e[i - 1] + 1 \/ Given(heard, reports[i], t)

Reached(start, n, e, m, k) ==
  \/ start = e[k] + 1 /\ e[k] <= m
  \/ start = m + 2 /\ \A j \in k + 1 .. n : m < e[j] - 2
Exact(heard, start, d, n, e, m) ==
  \E k \in 0 .. n : Undateds(heard) = Due(d)[k] /\ Reached(start, n, e, m, k)

Held(h) ==
  /\ h \in [datagram : {h.datagram}, host : Nat, payload : Seq(Nat), start : Nat \ {0},
            heard : Seq(ToSet(h.heard))]
  /\ Flying(h.datagram)
  /\ h.host < h.datagram.sent + Day /\ h.datagram.sent < h.host + Day
  /\ Len(h.payload) = Size(h.datagram.text)
  /\ Got(h.payload, h.datagram.reports, h.datagram.sent, h.datagram.text, h.datagram.hit,
         Len(h.payload))
Told(h, d, m) ==
  /\ Dated(h.heard, d.sent, h.host)
  /\ Genuine(h.heard, d.reports, d.sent, d.ends, d.hit, m)
  /\ Complete(h.heard, h.start, d.reports, d.sent, d.ends, d.hit, m)
  /\ d.hit = 0 => Exact(h.heard, h.start, d, Len(d.reports), d.ends, m)

Clocks == utc \in Nat /\ utc >= Start /\ skew \in -MaxSkew .. MaxSkew /\ buffer \in Nat \ {0}
InTime(d) == d.sent <= utc /\ utc <= d.sent + MaxDelay

LinkInv ==
  /\ Clocks
  /\ \A d \in flight : Flying(d) /\ InTime(d)
  /\ \A h \in handled : Held(h) /\ Told(h, h.datagram, Len(h.payload))

(* What a turn of the loop of handleDatagram gives.                        *)
LEMMA TurnRead ==
  ASSUME NEW w, NEW reports, NEW t, NEW y, NEW h, NEW m, Got(w, reports, t, y, h, m),
         NEW e, e = Ends(reports, t), NEW a \in Nat \ {0}, NEW b, b = Find(LF, w, a),
         NEW l, l = Trim(SubSeq(w, a, b - 1)), NEW now \in Nat, NEW data \in Parsed(l, now)
  PROVE  DatedAs(data, t, now) /\ (Loose(reports, e, h, m) \/ IsMeant(data, reports, t))
<1>1. reports \in Datagrams /\ t \in Nat /\ w \in Seq(Nat)
  BY GotFacts
<1>2. l # <<>> /\ data \in OnText(l, now)
  BY DEF Parsed
<1>3. PICK u, v \in Nat : TrimmedLine(l, w, a, b, u, v)
  BY <1>1, <1>2, LineTrimmed
<1>4. PICK i \in 1 .. Len(reports) :
        /\ DatedAs(data, t, now)
        /\ HitAndCut(e, i, h, m) \/ DataOfLine(data, reports, t, now, e, i, m)
  BY <1>2, <1>3, DataSound
<1>5. CASE HitAndCut(e, i, h, m)
  BY <1>4, <1>5 DEF Loose
<1>6. CASE DataOfLine(data, reports, t, now, e, i, m)
  <2>1. Undated(data) = Meant(reports[i], t)
    BY <1>1, <1>6, AsMeant DEF DataOfLine
  <2> QED BY <1>4, <2>1 DEF IsMeant
<1> QED BY <1>4, <1>5, <1>6

(* A spared line gives what its report means, if it is supported.          *)
LEMMA SparedRead ==
  ASSUME NEW w, NEW reports, NEW t, NEW y, NEW h, NEW m, Got(w, reports, t, y, h, m),
         NEW e, e = Ends(reports, t), NEW i \in 1 .. Len(reports), Spared(e, i, h, m),
         NEW a, a = e[i - 1] + 1, NEW b, b = Find(LF, w, a),
         NEW l, l = Trim(SubSeq(w, a, b - 1)), NEW now \in Nat
  PROVE  IF Supported(reports[i])
         THEN /\ Parsed(l, now) # {}
              /\ \A data \in Parsed(l, now) : Undated(data) = Meant(reports[i], t)
         ELSE Parsed(l, now) = {}
<1>1. reports \in Datagrams /\ t \in Nat
  BY GotFacts
<1>2. WellFormed(reports[i])
  BY <1>1, TextLaid
<1>3. l = Sentence(reports[i], t)
  BY SparedLine
<1>4. CASE Supported(reports[i])
  <2>1. /\ Parsed(l, now) = Reading(FieldsOf(reports[i], ClockText(t)), now)
        /\ Parsed(l, now) # {}
    BY <1>1, <1>2, <1>3, <1>4, SupportedRead
  <2> QED BY <1>1, <1>4, <2>1, AsMeant
<1>5. CASE ~Supported(reports[i])
  BY <1>1, <1>2, <1>3, <1>5, UnsupportedRead
<1> QED BY <1>4, <1>5

(* After a turn, what was heard is still dated and genuine.                *)
LEMMA TurnGenuine ==
  ASSUME NEW w, NEW reports, NEW t, NEW y, NEW h, NEW m, Got(w, reports, t, y, h, m),
         NEW e, e = Ends(reports, t), NEW a \in Nat \ {0}, NEW b, b = Find(LF, w, a),
         NEW l, l = Trim(SubSeq(w, a, b - 1)), NEW now \in Nat,
         NEW s, s \in Seq(ToSet(s)), Dated(s, t, now), Genuine(s, reports, t, e, h, m),
         NEW s2, s2 = HeardOf(s, l, now)
  PROVE  Dated(s2, t, now) /\ Genuine(s2, reports, t, e, h, m)
<1>1. \A data \in ToSet(s2) : data \in ToSet(s) \/ data \in Parsed(l, now)
  BY HeardCases, SMTT(30)
<1>2. \A data \in Parsed(l, now) :
        DatedAs(data, t, now) /\ (Loose(reports, e, h, m) \/ IsMeant(data, reports, t))
  BY TurnRead
<1> QED BY <1>1, <1>2 DEF Dated, Genuine

(* After a turn, nothing spared that was passed is missing.                *)
LEMMA TurnComplete ==
  ASSUME NEW w, NEW reports, NEW t, NEW y, NEW h, NEW m, Got(w, reports, t, y, h, m),
         NEW e, e = Ends(reports, t), NEW a \in Nat \ {0}, NEW b, b = Find(LF, w, a),
         NEW l, l = Trim(SubSeq(w, a, b - 1)), NEW now \in Nat,
         NEW s, s \in Seq(ToSet(s)), Complete(s, a, reports, t, e, h, m),
         NEW s2, s2 = HeardOf(s, l, now)
  PROVE  Complete(s2, b + 1, reports, t, e, h, m)
<1> SUFFICES ASSUME NEW i \in 1 .. Len(reports), Supported(reports[i]), Spared(e, i, h, m)
             PROVE  b + 1 <= e[i - 1] + 1 \/ Given(s2, reports[i], t)
  BY DEF Complete
<1>1. ToSet(s) \subseteq ToSet(s2)
  BY HeardCases
<1>2. CASE Given(s, reports[i], t)
  BY <1>1, <1>2 DEF Given
<1>3. CASE a <= e[i - 1] + 1
  <2>1. e[i - 1] \in Nat
    BY SparedKept
  <2>2. CASE a <= e[i - 1]
    <3>1. b \in Nat /\ b <= e[i - 1]
      BY <2>2, LineBefore
    <3> QED BY <2>1, <3>1
  <2>3. CASE a = e[i - 1] + 1
    <3>1. /\ Parsed(l, now) # {}
          /\ \A data \in Parsed(l, now) : Undated(data) = Meant(reports[i], t)
      BY <2>3, SparedRead
    <3>2. PICK data \in Parsed(l, now) : data \in ToSet(s2)
      BY <3>1, HeardCases
    <3> QED BY <3>1, <3>2 DEF Given
  <2> QED BY <1>3, <2>1, <2>2, <2>3
<1>4. a <= e[i - 1] + 1 \/ Given(s, reports[i], t)
  BY DEF Complete
<1> QED BY <1>2, <1>3, <1>4

(* Lines are in order, and eight symbols long at least.                    *)
LEMMA LineLengths ==
  ASSUME NEW reports \in Datagrams, NEW t \in Nat, NEW e, e = Ends(reports, t)
  PROVE  /\ \A i, j \in 0 .. Len(reports) : e[i] \in Nat /\ (i <= j => e[i] <= e[j])
         /\ \A i \in 1 .. Len(reports) : e[i] >= e[i - 1] + 8
<1>1. Laid(Text(reports, t), e, Len(reports), reports, t) /\ Len(reports) \in Nat
  BY TextLaid
<1>2. \A i, j \in 0 .. Len(reports) : e[i] \in Nat /\ (i <= j => e[i] <= e[j])
  BY <1>1 DEF Laid
<1>3. ASSUME NEW i \in 1 .. Len(reports) PROVE e[i] >= e[i - 1] + 8
  <2> DEFINE a == e[i - 1]  z == e[i]  N == Len(Opening(reports[i], t))
             x == Text(reports, t)  s == Sentence(reports[i], t)
  <2>1. Spelled(s, reports[i], N) /\ LineAt(x, a, z, s, N)
    BY LineText
  <2> HIDE DEF a, z, N, x, s
  <2>2. N \in Nat /\ N >= 3 /\ a \in Nat /\ z = a + N + 5
    BY <2>1 DEF Spelled, LineAt
  <2>3. z >= a + 8
    BY <2>2
  <2> QED BY <2>3 DEF a, z
<1> QED BY <1>2, <1>3

(* A line is truncated when its sentence does not fit what was received.   *)
CutAt(d, reports, t, e, m) ==
  /\ d.reports = reports /\ d.sent = t
  /\ \A i \in 1 .. Len(reports) : Truncated(d, i) <=> m < e[i] - 2

(* After a turn, what was heard of an undamaged datagram is still what is due. *)
LEMMA TurnExact ==
  ASSUME NEW w, NEW reports, NEW t, NEW y, NEW m, Got(w, reports, t, y, 0, m),
         NEW e, e = Ends(reports, t), NEW n, n = Len(reports),
         NEW d, CutAt(d, reports, t, e, m),
         NEW a \in Nat \ {0}, a <= m + 1, NEW b, b = Find(LF, w, a),
         NEW l, l = Trim(SubSeq(w, a, b - 1)), NEW now \in Nat,
         NEW s, s \in Seq(ToSet(s)), Exact(s, a, d, n, e, m),
         NEW s2, s2 = HeardOf(s, l, now)
  PROVE  Exact(s2, b + 1, d, n, e, m)
<1>1. /\ reports \in Datagrams /\ t \in Nat /\ m \in Nat /\ m <= Len(Text(reports, t))
      /\ w \in Seq(Nat) /\ Len(w) = m
  BY GotFacts
<1>2. /\ n \in Nat /\ Len(Text(reports, t)) = e[n] /\ e[0] = 0
      /\ \A i, j \in 0 .. n : e[i] \in Nat /\ (i <= j => e[i] <= e[j])
      /\ \A i \in 1 .. n : e[i] >= e[i - 1] + 8
  <2>1. Laid(Text(reports, t), e, n, reports, t) /\ n \in Nat
    BY <1>1, TextLaid
  <2>2. Len(Text(reports, t)) = e[n] /\ e[0] = 0
    BY <2>1 DEF Laid
  <2> QED BY <1>1, <2>1, <2>2, LineLengths
<1>3. PICK k \in 0 .. n : Undateds(s) = Due(d)[k] /\ Reached(a, n, e, m, k)
  BY DEF Exact
<1>4. a = e[k] + 1 /\ e[k] <= m
  <2>1. a # m + 2
    BY <1>1
  <2> QED BY <1>3, <2>1 DEF Reached
<1>5. CASE k = n
  <2>1. e[n] = m /\ a = m + 1
    <3> DEFINE E == e[n]
    <3>1. E \in Nat /\ m <= E /\ E <= m /\ a = E + 1
      BY <1>1, <1>2, <1>4, <1>5
    <3> HIDE DEF E
    <3>2. E = m /\ a = m + 1
      BY <1>1, <3>1
    <3> QED BY <3>2 DEF E
  <2>2. b = m + 1
    <3>1. a > Len(w)
      BY <1>1, <2>1
    <3>2. b = Len(w) + 1
      BY <1>1, <3>1, FindFacts
    <3> QED BY <1>1, <3>2
  <2>3. l = <<>>
    <3>1. SubSeq(w, a, b - 1) = <<>>
      <4>1. a \in Int /\ b - 1 \in Int /\ ~(a <= b - 1)
        BY <1>1, <2>1, <2>2
      <4>2. \A i \in a .. b - 1 : w[i] \in Nat
        BY <4>1
      <4>3. SubSeq(w, a, b - 1) \in Seq(Nat) /\ Len(SubSeq(w, a, b - 1)) = 0
        BY <4>1, <4>2, SubSeqProperties
      <4> QED BY <4>3, EmptySeq
    <3>2. Trim(<<>>) = <<>>
      BY DEF Trim
    <3> QED BY <3>1, <3>2
  <2>4. s2 = s
    BY <2>3, HeardCases DEF Parsed
  <2>5. b + 1 = m + 2 /\ k + 1 .. n = {}
    BY <1>1, <1>2, <1>5, <2>2
  <2> QED BY <1>3, <2>4, <2>5 DEF Exact, Reached
<1>6. CASE k < n
  <2> DEFINE i == k + 1
  <2>1. i \in 1 .. n /\ i \in 0 .. n /\ i - 1 = k /\ k \in Nat
    BY <1>2, <1>6
  <2>2. \A j \in i .. n : j \in 0 .. n /\ i <= j
    BY <2>1
  <2>3. a = e[i - 1] + 1 /\ e[i - 1] <= m
    BY <1>4, <2>1
  <2>4. e[i] \in Nat /\ \A j \in i .. n : e[j] \in Nat /\ e[i] <= e[j]
    BY <1>2, <2>1, <2>2
  <2>5. i \in 1 .. Len(reports)
    BY <2>1
  <2>6. Due(d)[i] = DueStep(d, i, Due(d)[k])
    <3>1. Len(d.reports) = n
      BY DEF CutAt
    <3> HIDE DEF i
    <3>2. Due(d)[i] = DueStep(d, i, Due(d)[i - 1])
      BY <1>2, <2>1, <3>1, DueSteps
    <3> QED BY <2>1, <3>2
  <2> HIDE DEF i
  <2>7. CASE m < e[i] - 2
    <3>1. b = m + 1 /\ GivesNone(l, now)
      <4>1. IsCut(e, i, m)
        BY <2>3, <2>7 DEF IsCut
      <4> QED BY <2>3, <2>5, <4>1, CutLine, SMTT(30)
    <3>2. s2 = s
      BY <3>1, HeardCases DEF GivesNone, Parsed
    <3>3. \A j \in i .. n : m < e[j] - 2
      <4> SUFFICES ASSUME NEW j \in i .. n PROVE m < e[j] - 2
        OBVIOUS
      <4> DEFINE B == e[i]  C == e[j]
      <4>1. B \in Nat /\ C \in Nat /\ B <= C /\ m < B - 2
        BY <2>4, <2>7
      <4> HIDE DEF B, C
      <4>2. m < C - 2
        BY <1>1, <4>1
      <4> QED BY <4>2 DEF C
    <3>4. b + 1 = m + 2
      BY <1>1, <3>1
    <3> QED BY <1>3, <3>2, <3>3, <3>4 DEF Exact, Reached, i
  <2>8. CASE ~(m < e[i] - 2)
    <3>1. Spared(e, i, 0, m)
      BY <1>1, <2>4, <2>8 DEF Spared
    <3>2. Undateds(s2) = Due(d)[i]
      <4>1. ~Truncated(d, i)
        BY <2>5, <2>8 DEF CutAt
      <4>2. CASE Supported(reports[i])
        <5>1. /\ Parsed(l, now) # {}
              /\ \A data \in Parsed(l, now) : Undated(data) = Meant(reports[i], t)
          BY <2>3, <2>5, <3>1, <4>2, SparedRead, SMTT(30)
        <5>2. Undateds(s2) = Append(Undateds(s), Meant(reports[i], t))
          BY <5>1, HeardCases, SMTT(30)
        <5> QED BY <1>3, <2>6, <4>1, <4>2, <5>2 DEF DueStep, CutAt
      <4>3. CASE ~Supported(reports[i])
        <5>1. Parsed(l, now) = {}
          BY <2>3, <2>5, <3>1, <4>3, SparedRead, ZenonT(60)
        <5>2. s2 = s
          BY <5>1, HeardCases
        <5> QED BY <1>3, <2>6, <4>3, <5>2 DEF DueStep, CutAt
      <4> QED BY <4>2, <4>3
    <3>3. b = e[i] \/ (b = m + 1 /\ m < e[i])
      BY <2>3, <2>5, <3>1, SparedLine
    <3>4. Reached(b + 1, n, e, m, i)
      <4>1. CASE e[i] <= m
        <5>1. b = e[i]
          BY <1>1, <2>4, <3>3, <4>1
        <5> QED BY <4>1, <5>1 DEF Reached
      <4>2. CASE ~(e[i] <= m)
        <5> DEFINE E == e[i]
        <5>1. b <= m + 1
          <6>1. b \in 1 .. Len(w) + 1
            BY <1>1, FindFacts
          <6> QED BY <1>1, <6>1
        <5>2. b = m + 1
          <6>1. E \in Nat /\ ~(E <= m) /\ (b = E \/ b = m + 1)
            BY <2>4, <3>3, <4>2
          <6> HIDE DEF E
          <6> QED BY <1>1, <5>1, <6>1
        <5>3. ASSUME NEW j \in i + 1 .. n PROVE m < e[j] - 2
          <6> DEFINE B == e[j - 1]  C == e[j]
          <6>1. j \in 1 .. n /\ j - 1 \in i .. n /\ j - 1 \in 0 .. n /\ j \in 0 .. n
            BY <2>1
          <6>2. C \in Nat /\ B \in Nat /\ C >= B + 8 /\ E \in Nat /\ E <= B /\ ~(E <= m)
            BY <1>2, <2>4, <4>2, <6>1
          <6> HIDE DEF B, C, E
          <6>3. m < C - 2
            BY <1>1, <6>2
          <6> QED BY <6>3 DEF C
        <5>4. b + 1 = m + 2
          BY <1>1, <5>2
        <5> QED BY <5>3, <5>4 DEF Reached
      <4> QED BY <4>1, <4>2
    <3> QED BY <2>1, <3>2, <3>4 DEF Exact
  <2> QED BY <2>7, <2>8
<1> QED BY <1>2, <1>5, <1>6

-----------------------------------------------------------------------------
(* The steps.                                                              *)
LEMMA SentFlying ==
  ASSUME NEW reports \in Datagrams, NEW t \in Nat
  PROVE  Flying([sent |-> t, reports |-> reports, text |-> Text(reports, t),
                 ends |-> Ends(reports, t), hit |-> 0])
<1>1. Text(reports, t) \in Seq(Nat)
  BY TextLaid DEF Laid
<1>2. Damaged(Text(reports, t), Text(reports, t), 0)
  BY <1>1 DEF Damaged
<1> QED BY <1>1, <1>2 DEF Flying

(* A damaged datagram is off at one symbol.                                *)
LEMMA DamagedFlying ==
  ASSUME NEW d, Flying(d), d.hit = 0, NEW i \in DOMAIN d.text, NEW c \in Noise
  PROVE  /\ Flying([d EXCEPT !.text[i] = c, !.hit = i])
         /\ [d EXCEPT !.text[i] = c, !.hit = i].sent = d.sent
<1> DEFINE x == Text(d.reports, d.sent)  y == d.text  z == [y EXCEPT ![i] = c]
           g == [d EXCEPT !.text[i] = c, !.hit = i]
<1>1. /\ d \in [sent : Nat, reports : Datagrams, text : Seq(Nat),
                ends : {Ends(d.reports, d.sent)}, hit : Nat]
      /\ Damaged(y, x, 0)
  BY DEF Flying
<1>2. /\ g.sent = d.sent /\ g.reports = d.reports /\ g.ends = d.ends /\ g.text = z /\ g.hit = i
      /\ d.sent \in Nat /\ d.reports \in Datagrams /\ d.ends = Ends(d.reports, d.sent)
  BY <1>1
<1> HIDE DEF z
<1>3. g \in [sent : {g.sent}, reports : {g.reports}, text : {g.text}, ends : {g.ends}, hit : {g.hit}]
  BY <1>1
<1> USE DEF z
<1>4. /\ y \in Seq(Nat) /\ Len(y) = Len(x) /\ \A p \in 1 .. Len(x) : p # 0 => y[p] = x[p]
  BY <1>1 DEF Damaged
<1>5. Len(y) \in Nat /\ DOMAIN y = 1 .. Len(y)
  BY <1>4, LenProperties
<1>6. i \in DOMAIN y /\ c \in 0 .. 255 /\ c \in Nat
  BY LinkAssumption
<1> HIDE DEF x, y, g
<1>7. z \in Seq(Nat) /\ Len(z) = Len(y)
  BY <1>4, <1>6, ExceptSeq
<1>8. z[i] = c /\ \A p \in 1 .. Len(y) : p # i => z[p] = y[p]
  BY <1>5, <1>6
<1> HIDE DEF z
<1>9. i \in Nat /\ i \in 1 .. Len(x) /\ \A p \in 1 .. Len(x) : p # 0
  BY <1>4, <1>5, <1>6
<1>10. Damaged(z, x, i)
  BY <1>4, <1>6, <1>7, <1>8, <1>9 DEF Damaged
<1>11. Flying(g)
  BY <1>3, <1>2, <1>7, <1>9, <1>10 DEF Flying, x
<1> QED BY <1>2, <1>11 DEF g

(* A datagram that is received is within the delay and the skew.           *)
LEMMA HandledHeld ==
  ASSUME Clocks, NEW d, Flying(d), InTime(d),
         NEW h, h = [datagram |-> d, host |-> utc + skew, payload |-> Received(d),
                     start |-> 1, heard |-> <<>>]
  PROVE  Held(h) /\ Told(h, h.datagram, Len(h.payload))
<1> DEFINE r == d.reports  t == d.sent  y == d.text  e == d.ends  x == Text(r, t)
           m == Size(y)  w == Received(d)  n == Len(r)  host == utc + skew
<1>1. /\ t \in Nat /\ r \in Datagrams /\ y \in Seq(Nat) /\ e = Ends(r, t) /\ d.hit \in Nat
      /\ Damaged(y, x, d.hit)
  BY DEF Flying
<1>2. /\ h.datagram = d /\ h.host = host /\ h.payload = w /\ h.start = 1 /\ h.heard = <<>>
      /\ h \in [datagram : {d}, host : {host}, payload : {w}, start : {1}, heard : {<<>>}]
  OBVIOUS
<1>3. host \in Nat /\ host < t + Day /\ t < host + Day
  <2>1. /\ utc \in Nat /\ utc >= Start /\ skew \in -MaxSkew .. MaxSkew
        /\ t <= utc /\ utc <= t + MaxDelay
    BY DEF Clocks, InTime
  <2>2. /\ Start \in Nat /\ MaxDelay \in Nat /\ MaxSkew \in Nat /\ MaxSkew <= Start
        /\ MaxDelay + MaxSkew < Day /\ Day = 86400
    BY LinkAssumption DEF Day
  <2>3. skew \in Int /\ -MaxSkew <= skew /\ skew <= MaxSkew
    BY <2>1, <2>2
  <2> HIDE DEF t
  <2> QED BY <1>1, <2>1, <2>2, <2>3
<1>4. w = SubSeq(y, 1, m)
  BY DEF Received, Size
<1>5. Len(y) \in Nat /\ Len(y) = Len(x) /\ m \in 0 .. Len(y)
  <2>1. Len(y) \in Nat /\ Len(y) = Len(x)
    BY <1>1, LenProperties DEF Damaged
  <2>2. buffer \in Nat
    BY DEF Clocks
  <2> HIDE DEF y, x
  <2> QED BY <2>1, <2>2 DEF Size
<1>6. Beginning(w, y, m)
  BY <1>1, <1>4, <1>5, BeginningIs
<1> HIDE DEF r, t, y, e, x, m, w, n, host
<1>7. Len(w) = m /\ w \in Seq(Nat)
  BY <1>6 DEF Beginning
<1>8. Got(w, r, t, y, d.hit, m)
  BY <1>1, <1>5, <1>6 DEF Got, x
<1>9. ToSet(<<>>) = {} /\ <<>> \in Seq(ToSet(<<>>))
  BY DEF ToSet
<1>10. Held(h)
  <2>1. /\ 1 \in Nat \ {0} /\ Len(w) = Size(d.text)
        /\ Got(w, d.reports, d.sent, d.text, d.hit, Len(w))
        /\ host < d.sent + Day /\ d.sent < host + Day
    BY <1>3, <1>7, <1>8 DEF r, t, y, m
  <2>2. h \in [datagram : {h.datagram}, host : Nat, payload : Seq(Nat), start : Nat \ {0},
               heard : Seq(ToSet(h.heard))]
    BY <1>2, <1>3, <1>7, <1>9, <2>1
  <2> QED BY <1>2, <2>1, <2>2 DEF Held
<1>11. /\ Laid(x, e, n, r, t) /\ n \in Nat /\ e[0] = 0
       /\ \A i \in 0 .. n : e[i] \in Nat
  <2>1. Laid(x, e, n, r, t) /\ n \in Nat
    BY <1>1, TextLaid DEF x, n
  <2> QED BY <2>1 DEF Laid
<1>12. Dated(<<>>, t, host) /\ Genuine(<<>>, r, t, e, d.hit, m)
  BY <1>9 DEF Dated, Genuine
<1>13. Complete(<<>>, 1, r, t, e, d.hit, m)
  <2>1. \A i \in 1 .. n : 1 <= e[i - 1] + 1
    <3> SUFFICES ASSUME NEW i \in 1 .. n PROVE 1 <= e[i - 1] + 1
      OBVIOUS
    <3>1. e[i - 1] \in Nat
      BY <1>11
    <3> QED BY <3>1
  <2> QED BY <2>1 DEF Complete, n
<1>14. Exact(<<>>, 1, d, n, e, m)
  <2>1. Undateds(<<>>) = <<>>
    BY DEF Undateds
  <2>2. Due(d)[0] = <<>>
    <3>1. Len(d.reports) \in Nat
      BY <1>11 DEF n, r
    <3> QED BY <3>1, DueSteps
  <2>3. 1 = e[0] + 1 /\ e[0] <= m /\ 0 \in 0 .. n
    BY <1>5, <1>11
  <2> QED BY <2>1, <2>2, <2>3 DEF Exact, Reached
<1>15. Told(h, d, Len(w))
  BY <1>2, <1>7, <1>12, <1>13, <1>14 DEF Told, r, t, e, n
<1> QED BY <1>2, <1>10, <1>15

(* Nothing is cut off a datagram but what is beyond the buffer.            *)
LEMMA HeldCut ==
  ASSUME Clocks, NEW h, Held(h)
  PROVE  CutAt(h.datagram, h.datagram.reports, h.datagram.sent, h.datagram.ends, Len(h.payload))
<1> DEFINE d == h.datagram  r == d.reports  t == d.sent  y == d.text  e == d.ends  q == d.hit
           w == h.payload  m == Len(w)  n == Len(r)
<1>1. Flying(d) /\ m = Size(y) /\ Got(w, r, t, y, q, m)
  BY DEF Held
<1>2. e = Ends(r, t)
  BY <1>1 DEF Flying
<1>3. Laid(Text(r, t), e, n, r, t) /\ n \in Nat
  BY <1>1, <1>2, TextLaid DEF Got
<1>4. Len(y) = e[n] /\ e[n] \in Nat /\ \A i \in 1 .. n : e[i] \in Nat /\ e[i] <= e[n]
  <2>1. Len(y) = Len(Text(r, t))
    BY <1>1 DEF Got, Damaged
  <2>2. n \in 0 .. n /\ \A i \in 1 .. n : i \in 0 .. n /\ i <= n
    BY <1>3
  <2> QED BY <1>3, <2>1, <2>2, SMTT(30) DEF Laid
<1>5. ASSUME NEW i \in 1 .. n PROVE Truncated(d, i) <=> m < e[i] - 2
  <2> DEFINE E == e[i]  L == e[n]
  <2>1. E \in Nat /\ L \in Nat /\ E <= L /\ buffer \in Nat /\ (m = IF L < buffer THEN L ELSE buffer)
    BY <1>1, <1>4 DEF Clocks, Size
  <2> HIDE DEF E, L, m
  <2>2. E - 2 > buffer <=> m < E - 2
    BY <2>1
  <2> QED BY <2>2 DEF Truncated, E
<1> QED BY <1>5 DEF CutAt

(* A turn of the loop keeps what is held of a datagram.                    *)
LEMMA TurnHeld ==
  ASSUME Clocks, NEW h, Held(h), Told(h, h.datagram, Len(h.payload)), ~Done(h),
         NEW b, b = Find(LF, h.payload, h.start),
         NEW l, l = Trim(SubSeq(h.payload, h.start, b - 1)),
         NEW s, s = HeardOf(h.heard, l, h.host),
         NEW g, g = [h EXCEPT !.start = b + 1, !.heard = s]
  PROVE  Held(g) /\ Told(g, g.datagram, Len(g.payload))
<1> DEFINE d == h.datagram  r == d.reports  t == d.sent  y == d.text  e == d.ends  q == d.hit
           w == h.payload  m == Len(w)  n == Len(r)  a == h.start  now == h.host  heard == h.heard
<1>1. /\ h \in [datagram : {d}, host : Nat, payload : Seq(Nat), start : Nat \ {0},
                heard : Seq(ToSet(heard))]
      /\ Flying(d) /\ now < t + Day /\ t < now + Day /\ m = Size(y) /\ Got(w, r, t, y, q, m)
  BY DEF Held
<1>2. /\ now \in Nat /\ w \in Seq(Nat) /\ a \in Nat \ {0} /\ heard \in Seq(ToSet(heard))
      /\ e = Ends(r, t)
  BY <1>1 DEF Flying
<1>3. /\ Dated(heard, t, now) /\ Genuine(heard, r, t, e, q, m)
      /\ Complete(heard, a, r, t, e, q, m) /\ (q = 0 => Exact(heard, a, d, n, e, m))
  BY DEF Told
<1>4. m \in Nat /\ a <= m + 1
  <2>1. m \in Nat /\ ~(a > m + 1)
    BY <1>2, LenProperties DEF Done
  <2> HIDE DEF m, a
  <2> QED BY <1>2, <2>1
<1>5. b \in Nat
  BY <1>2, <1>4, FindFacts
<1>6. /\ g.datagram = d /\ g.host = now /\ g.payload = w /\ g.start = b + 1 /\ g.heard = s
      /\ g \in [datagram : {d}, host : {now}, payload : {w}, start : {b + 1}, heard : {s}]
  BY <1>1
<1>7. s \in Seq(ToSet(s))
  BY <1>2, HeardCases
<1>8. Held(g)
  <2>1. b + 1 \in Nat \ {0}
    BY <1>5
  <2>2. g \in [datagram : {g.datagram}, host : Nat, payload : Seq(Nat), start : Nat \ {0},
               heard : Seq(ToSet(g.heard))]
    <3> HIDE DEF d, w, now
    <3> QED BY <1>2, <1>6, <1>7, <2>1
  <2> QED BY <1>1, <1>6, <2>2 DEF Held
<1>9. CutAt(d, r, t, e, m)
  BY HeldCut
<1> HIDE DEF r, t, y, e, q, w, m, n, a, now, heard
<1>10. l = Trim(SubSeq(w, a, b - 1)) /\ b = Find(LF, w, a) /\ s = HeardOf(heard, l, now)
  BY DEF w, a, now, heard
<1> HIDE DEF d
<1>11. Dated(s, t, now) /\ Genuine(s, r, t, e, q, m)
  BY <1>1, <1>2, <1>3, <1>10, TurnGenuine
<1>12. Complete(s, b + 1, r, t, e, q, m)
  BY <1>1, <1>2, <1>3, <1>10, TurnComplete
<1>13. q = 0 => Exact(s, b + 1, d, n, e, m)
  <2> SUFFICES ASSUME q = 0 PROVE Exact(s, b + 1, d, n, e, m)
    OBVIOUS
  <2>1. Got(w, r, t, y, 0, m) /\ Exact(heard, a, d, n, e, m) /\ n = Len(r)
    BY <1>1, <1>3 DEF n
  <2> QED BY <1>2, <1>4, <1>9, <1>10, <2>1, TurnExact
<1>14. Told(g, d, m)
  BY <1>6, <1>11, <1>12, <1>13 DEF Told, r, t, e, q, n
<1> QED BY <1>6, <1>8, <1>14 DEF m

(* What is held of a datagram does not change while the buffer does not.   *)
DueBy(d, size) ==
  LET due[i \in 0 .. Len(d.reports)] ==
        IF i = 0 THEN <<>>
        ELSE IF Supported(d.reports[i]) /\ ~(d.ends[i] - 2 > size)
             THEN Append(due[i - 1], Meant(d.reports[i], d.sent)) ELSE due[i - 1]
  IN  due

(* Nothing else disturbs it.                                               *)
LEMMA HeldStays ==
  ASSUME UNCHANGED buffer, NEW h, Held(h), Told(h, h.datagram, Len(h.payload))
  PROVE  (Held(h) /\ Told(h, h.datagram, Len(h.payload)))'
<1>1. ASSUME NEW d PROVE Due(d)' = Due(d)
  <2>1. Due(d) = DueBy(d, buffer)
    BY DEF Due, DueBy, Truncated
  <2>2. Due(d)' = DueBy(d, buffer')
    BY DEF Due, DueBy, Truncated
  <2> QED BY <2>1, <2>2
<1>2. Held(h)'
  BY DEF Held, Flying, Size
<1>3. Told(h, h.datagram, Len(h.payload))'
  <2>1. ASSUME NEW d, NEW n, NEW e, NEW m, Exact(h.heard, h.start, d, n, e, m)
        PROVE  Exact(h.heard, h.start, d, n, e, m)'
    BY <1>1, <2>1 DEF Exact
  <2> QED BY <2>1 DEF Told
<1> QED BY <1>2, <1>3

(* Every step keeps the invariant.                                         *)
LEMMA LinkInvInductive == LinkInv /\ [LinkNext]_linkVars => LinkInv'
<1> SUFFICES ASSUME LinkInv, [LinkNext]_linkVars PROVE LinkInv'
  OBVIOUS
<1>1. /\ Clocks
      /\ \A d \in flight : Flying(d) /\ InTime(d)
      /\ \A h \in handled : Held(h) /\ Told(h, h.datagram, Len(h.payload))
  BY DEF LinkInv
<1>2. CASE Pass
  <2>1. utc \in Nat /\ MaxDelay \in Nat
    BY <1>1, LinkAssumption DEF Clocks
  <2>2. Clocks'
    BY <1>1, <1>2, LinkAssumption DEF Clocks, Pass
  <2>3. ASSUME NEW d \in flight' PROVE Flying(d)' /\ InTime(d)'
    <3>1. d \in flight /\ utc + 1 - d.sent <= MaxDelay /\ utc' = utc + 1
      BY <1>2 DEF Pass
    <3>2. Flying(d) /\ InTime(d)
      BY <1>1, <3>1
    <3>3. d.sent \in Nat
      BY <3>2 DEF Flying
    <3>4. InTime(d)'
      BY <2>1, <3>1, <3>2, <3>3 DEF InTime
    <3> QED BY <3>2, <3>4 DEF Flying
  <2>4. handled' = {}
    BY <1>2 DEF Pass
  <2> QED BY <2>2, <2>3, <2>4 DEF LinkInv
<1>3. ASSUME NEW reports \in Datagrams, Send(reports) PROVE LinkInv'
  <2>1. PICK g : g = [sent |-> utc, reports |-> reports, text |-> Text(reports, utc),
                      ends |-> Ends(reports, utc), hit |-> 0]
    OBVIOUS
  <2>2. /\ UNCHANGED <<utc, skew, buffer>> /\ flight' = {g} /\ handled' = {}
    BY <1>3, <2>1 DEF Send
  <2>3. utc \in Nat /\ Clocks /\ MaxDelay \in Nat
    BY <1>1, LinkAssumption DEF Clocks
  <2>4. Flying(g) /\ g.sent = utc
    BY <2>1, <2>3, SentFlying
  <2>5. InTime(g)'
    BY <2>2, <2>3, <2>4 DEF InTime
  <2>6. Clocks'
    BY <2>2, <2>3 DEF Clocks
  <2>7. Flying(g)'
    BY <2>4 DEF Flying
  <2> QED BY <2>2, <2>5, <2>6, <2>7 DEF LinkInv
<1>4. ASSUME NEW d \in flight, Handle(d) PROVE LinkInv'
  <2>1. PICK g : g = [datagram |-> d, host |-> utc + skew, payload |-> Received(d),
                      start |-> 1, heard |-> <<>>]
    OBVIOUS
  <2>2. UNCHANGED <<utc, skew, buffer>> /\ flight' \subseteq flight /\ handled' = {g}
    BY <1>4, <2>1 DEF Handle
  <2>3. Held(g) /\ Told(g, g.datagram, Len(g.payload))
    BY <1>1, <2>1, HandledHeld
  <2>4. Clocks' /\ \A f \in flight' : Flying(f)' /\ InTime(f)'
    BY <1>1, <2>2 DEF Clocks, InTime, Flying
  <2>5. (Held(g) /\ Told(g, g.datagram, Len(g.payload)))'
    BY <2>2, <2>3, HeldStays
  <2> QED BY <2>2, <2>4, <2>5 DEF LinkInv
<1>5. ASSUME NEW d \in flight, LoseDatagram(d) PROVE LinkInv'
  <2>1. UNCHANGED <<utc, skew, buffer, handled>> /\ flight' \subseteq flight
    BY <1>5 DEF LoseDatagram
  <2>2. Clocks' /\ \A f \in flight' : Flying(f)' /\ InTime(f)'
    BY <1>1, <2>1 DEF Clocks, InTime, Flying
  <2>3. (\A h \in handled : Held(h) /\ Told(h, h.datagram, Len(h.payload)))'
    BY <1>1, <2>1, HeldStays
  <2> QED BY <2>2, <2>3 DEF LinkInv
<1>6. ASSUME NEW d \in flight, NEW i \in DOMAIN d.text, NEW c \in Noise, Damage(d, i, c)
      PROVE  LinkInv'
  <2> DEFINE g == [d EXCEPT !.text[i] = c, !.hit = i]
  <2>1. UNCHANGED <<utc, skew, buffer, handled>> /\ flight' = {g} /\ d.hit = 0
    BY <1>6 DEF Damage
  <2>2. Flying(g) /\ g.sent = d.sent /\ InTime(d)
    BY <1>1, <2>1, DamagedFlying
  <2> HIDE DEF g
  <2>3. Clocks' /\ Flying(g)' /\ InTime(g)'
    BY <1>1, <2>1, <2>2 DEF Clocks, InTime, Flying
  <2>4. (\A h \in handled : Held(h) /\ Told(h, h.datagram, Len(h.payload)))'
    BY <1>1, <2>1, HeldStays
  <2> QED BY <2>1, <2>3, <2>4 DEF LinkInv
<1>7. ASSUME NEW h \in handled, NextLine(h) PROVE LinkInv'
  <2> DEFINE b == Find(LF, h.payload, h.start)  l == Trim(SubSeq(h.payload, h.start, b - 1))
             s == HeardOf(h.heard, l, h.host)
             g == [h EXCEPT !.start = b + 1, !.heard = s]
  <2>1. UNCHANGED <<utc, skew, buffer, flight>> /\ handled' = {g} /\ ~Done(h)
    BY <1>7 DEF NextLine, TrimLine, HeardOf, Parsed
  <2>2. Held(g) /\ Told(g, g.datagram, Len(g.payload))
    <3>1. Held(h) /\ Told(h, h.datagram, Len(h.payload)) /\ Clocks
      BY <1>1
    <3> QED BY <2>1, <3>1, TurnHeld
  <2> HIDE DEF g
  <2>3. Clocks' /\ \A f \in flight' : Flying(f)' /\ InTime(f)'
    BY <1>1, <2>1 DEF Clocks, InTime, Flying
  <2>4. (Held(g) /\ Told(g, g.datagram, Len(g.payload)))'
    BY <2>1, <2>2, HeldStays
  <2> QED BY <2>1, <2>3, <2>4 DEF LinkInv
<1>8. CASE UNCHANGED linkVars
  <2>1. UNCHANGED <<utc, skew, buffer, flight, handled>>
    BY <1>8 DEF linkVars
  <2>2. Clocks' /\ \A f \in flight' : Flying(f)' /\ InTime(f)'
    BY <1>1, <2>1 DEF Clocks, InTime, Flying
  <2>3. (\A h \in handled : Held(h) /\ Told(h, h.datagram, Len(h.payload)))'
    BY <1>1, <2>1, HeldStays
  <2> QED BY <2>2, <2>3 DEF LinkInv
<1> QED BY <1>2, <1>3, <1>4, <1>5, <1>6, <1>7, <1>8 DEF LinkNext

(* What was read of the datagram in hand is dated, genuine, complete up to *)
(* the place the loop of handleDatagram has reached and, of an undamaged   *)
(* datagram, just what is due up to a line.                                *)
THEOREM LinkInvariant == LinkSpec => []LinkInv
<1>1. LinkInit => LinkInv
  BY LinkAssumption DEF LinkInit, LinkInv, Clocks
<1> QED BY <1>1, LinkInvInductive, PTL DEF LinkSpec

-----------------------------------------------------------------------------
(* What the invariant gives of a datagram in hand.                         *)
LEMMA HeldFacts ==
  ASSUME LinkInv, NEW h \in handled
  PROVE  LET d == h.datagram  n == Len(d.reports)  m == Len(h.payload) IN
         /\ d.sent \in Nat /\ h.host \in Nat /\ h.host < d.sent + Day /\ d.sent < h.host + Day
         /\ d.reports \in Datagrams /\ DOMAIN d.reports = 1 .. n /\ n \in Nat
         /\ d.ends = Ends(d.reports, d.sent) /\ m \in Nat /\ h.start \in Nat
         /\ h.heard \in Seq(ToSet(h.heard)) /\ Told(h, d, m)
         /\ CutAt(d, d.reports, d.sent, d.ends, m)
<1> DEFINE d == h.datagram  m == Len(h.payload)
<1>1. Held(h) /\ Told(h, d, m) /\ Clocks
  BY DEF LinkInv
<1>2. /\ h \in [datagram : {d}, host : Nat, payload : Seq(Nat), start : Nat \ {0},
                heard : Seq(ToSet(h.heard))]
      /\ Flying(d) /\ h.host < d.sent + Day /\ d.sent < h.host + Day
  BY <1>1 DEF Held
<1>3. d.sent \in Nat /\ d.reports \in Datagrams /\ d.ends = Ends(d.reports, d.sent)
  BY <1>2 DEF Flying
<1>4. m \in Nat
  BY <1>2, LenProperties
<1>5. DOMAIN d.reports = 1 .. Len(d.reports) /\ Len(d.reports) \in Nat
  BY <1>3, TextLaid
<1> QED BY <1>1, <1>2, <1>3, <1>4, <1>5, HeldCut

(* At the end of the loop every line that is due was passed.               *)
LEMMA FieldsFollow == LinkInv => FieldsInPlace
<1> SUFFICES ASSUME LinkInv, NEW h \in handled, Done(h), h.datagram.hit = 0
             PROVE  [i \in DOMAIN h.heard |-> Undated(h.heard[i])]
                      = Due(h.datagram)[Len(h.datagram.reports)]
  BY DEF FieldsInPlace
<1> DEFINE d == h.datagram  e == d.ends  n == Len(d.reports)  m == Len(h.payload)
<1>1. /\ n \in Nat /\ m \in Nat /\ h.start > m + 1 /\ Told(h, d, m)
      /\ CutAt(d, d.reports, d.sent, e, m)
  BY HeldFacts DEF Done
<1>2. PICK k \in 0 .. n : Undateds(h.heard) = Due(d)[k] /\ Reached(h.start, n, e, m, k)
  BY <1>1 DEF Told, Exact
<1>3. \A j \in k + 1 .. n : m < e[j] - 2
  <2>1. CASE h.start = e[k] + 1 /\ e[k] <= m
    <3> DEFINE E == e[k]
    <3>1. E \in Nat
      <4>1. d.reports \in Datagrams /\ d.sent \in Nat /\ e = Ends(d.reports, d.sent)
        BY HeldFacts
      <4> QED BY <4>1, LineLengths
    <3> HIDE DEF E, m
    <3>2. ~(E + 1 > m + 1)
      BY <1>1, <2>1, <3>1 DEF E
    <3> QED BY <1>1, <2>1, <3>2 DEF E
  <2> QED BY <1>2, <2>1 DEF Reached
<1>4. \A j \in k + 1 .. n : Truncated(d, j)
  <2>1. \A j \in k + 1 .. n : j \in 1 .. n
    BY <1>1
  <2> QED BY <1>1, <1>3, <2>1 DEF CutAt
<1>5. Due(d)[n] = Due(d)[k]
  BY <1>1, <1>4, DueRest
<1> QED BY <1>2, <1>5 DEF Undateds

(* Genuine and complete are what the property asks for.                    *)
LEMMA SentencesFollow == LinkInv => SentencesIntact
<1> SUFFICES ASSUME LinkInv, NEW h \in handled
             PROVE  LET d      == h.datagram
                        lines  == DOMAIN d.reports
                        given  == {Undated(data) : data \in ToSet(h.heard)}
                        intact == {i \in lines : Supported(d.reports[i]) /\ ~Touched(d, i)
                                                   /\ ~Truncated(d, i)}
                    IN  /\ \/ given \subseteq {Meant(d.reports[i], d.sent) : i \in lines}
                           \/ \E i \in lines : Touched(d, i) /\ Truncated(d, i)
                        /\ Done(h) => {Meant(d.reports[i], d.sent) : i \in intact} \subseteq given
  BY DEF SentencesIntact
<1> DEFINE d == h.datagram  e == d.ends  n == Len(d.reports)  m == Len(h.payload)
           given  == {Undated(data) : data \in ToSet(h.heard)}
<1>1. /\ n \in Nat /\ m \in Nat /\ h.start \in Nat /\ Told(h, d, m) /\ DOMAIN d.reports = 1 .. n
      /\ CutAt(d, d.reports, d.sent, e, m)
      /\ d.reports \in Datagrams /\ d.sent \in Nat /\ e = Ends(d.reports, d.sent)
  BY HeldFacts
<1>2. \A i \in 1 .. n : Truncated(d, i) <=> m < e[i] - 2
  BY <1>1 DEF CutAt
<1>3. \/ given \subseteq {Meant(d.reports[i], d.sent) : i \in 1 .. n}
      \/ \E i \in 1 .. n : Touched(d, i) /\ Truncated(d, i)
  <2>1. Genuine(h.heard, d.reports, d.sent, e, d.hit, m)
    BY <1>1 DEF Told
  <2>2. CASE Loose(d.reports, e, d.hit, m)
    BY <1>2, <2>2 DEF Loose, HitAndCut, Touched
  <2>3. CASE \A data \in ToSet(h.heard) : IsMeant(data, d.reports, d.sent)
    BY <2>3 DEF IsMeant
  <2> QED BY <2>1, <2>2, <2>3 DEF Genuine
<1>4. ASSUME Done(h), NEW i \in 1 .. n, Supported(d.reports[i]), ~Touched(d, i), ~Truncated(d, i)
      PROVE  Meant(d.reports[i], d.sent) \in given
  <2> DEFINE A == e[i - 1]  E == e[i]
  <2>1. A \in Nat /\ E \in Nat /\ E >= A + 8
    <3>1. i \in 0 .. n /\ i - 1 \in 0 .. n
      BY <1>1
    <3> QED BY <1>1, <3>1, LineLengths
  <2>2. h.start > m + 1
    BY <1>4 DEF Done
  <2>3. E - 2 <= m /\ ~(h.start <= A + 1)
    <3>1. ~(m < E - 2)
      BY <1>2, <1>4
    <3> HIDE DEF A, E, m
    <3> QED BY <1>1, <2>1, <2>2, <3>1
  <2>4. Spared(e, i, d.hit, m)
    BY <1>4, <2>3 DEF Touched, Spared
  <2>5. Complete(h.heard, h.start, d.reports, d.sent, e, d.hit, m)
    BY <1>1 DEF Told
  <2>6. Given(h.heard, d.reports[i], d.sent)
    BY <1>4, <2>3, <2>4, <2>5 DEF Complete
  <2> QED BY <2>6 DEF Given
<1> QED BY <1>1, <1>3, <1>4

(* A time of day on the host's date is the time of sending or a day off.   *)
LEMMA DatedRef ==
  ASSUME NEW sent \in Nat, NEW host \in Nat, host < sent + Day, sent < host + Day
  PROVE  ToRosTime({Graft(TimeOfDay(sent), host)})
           = CASE Midnight(host) = Midnight(sent) -> sent
               [] Midnight(host) > Midnight(sent) -> sent + Day
               [] Midnight(host) < Midnight(sent) -> sent - Day
<1> DEFINE tod == sent % 86400  q == sent \div 86400  hod == host % 86400  r == host \div 86400
           ref == (r * 86400) + tod
<1>1. /\ tod \in Nat /\ tod < 86400 /\ q \in Nat /\ sent = q * 86400 + tod
      /\ hod \in Nat /\ hod < 86400 /\ r \in Nat /\ host = r * 86400 + hod
  OBVIOUS
<1>2. /\ Midnight(sent) = q * 86400 /\ Midnight(host) = r * 86400 /\ Day = 86400
      /\ Graft(TimeOfDay(sent), host) = ref
  BY DEF Midnight, Graft, TimeOfDay, Day
<1> HIDE DEF tod, q, hod, r
<1>3. ref \in Nat
  BY <1>1
<1>4. ToRosTime({ref}) = ref
  <2> HIDE DEF ref
  <2>1. \E x \in {ref} : x >= 0
    BY <1>3
  <2> QED BY <2>1 DEF ToRosTime
<1>5. r = q \/ r = q + 1 \/ r = q - 1
  BY <1>1, <1>2
<1>6. CASE r = q
  <2>1. ref = sent /\ Midnight(host) = Midnight(sent)
    BY <1>1, <1>2, <1>6
  <2>2. ~(Midnight(host) > Midnight(sent)) /\ ~(Midnight(host) < Midnight(sent))
    BY <1>1, <1>2, <1>6
  <2> QED BY <1>2, <1>4, <2>1, <2>2
<1>7. CASE r = q + 1
  <2>1. ref = sent + Day /\ Midnight(host) > Midnight(sent)
    BY <1>1, <1>2, <1>7
  <2>2. Midnight(host) # Midnight(sent) /\ ~(Midnight(host) < Midnight(sent))
    BY <1>1, <1>2, <1>7
  <2> QED BY <1>2, <1>4, <2>1, <2>2
<1>8. CASE r = q - 1
  <2>1. ref = sent - Day /\ Midnight(host) < Midnight(sent)
    BY <1>1, <1>2, <1>8
  <2>2. Midnight(host) # Midnight(sent) /\ ~(Midnight(host) > Midnight(sent))
    BY <1>1, <1>2, <1>8
  <2> QED BY <1>2, <1>4, <2>1, <2>2
<1> QED BY <1>5, <1>6, <1>7, <1>8

(* What is dated as the graft says is dated by the host.                   *)
LEMMA DatesFollow == LinkInv => DatedByHost
<1> SUFFICES ASSUME LinkInv, NEW h \in handled, NEW data \in ToSet(h.heard),
                    Timed(data), data.utc # {}
             PROVE  LET sent == h.datagram.sent
                        sentDay == Midnight(sent)  hostDay == Midnight(h.host)
                        ref == ToRosTime(data.utc)
                    IN  ref = CASE hostDay = sentDay -> sent
                                [] hostDay > sentDay -> sent + Day
                                [] hostDay < sentDay -> sent - Day
  BY DEF DatedByHost
<1>1. /\ h.datagram.sent \in Nat /\ h.host \in Nat
      /\ h.host < h.datagram.sent + Day /\ h.datagram.sent < h.host + Day
      /\ Told(h, h.datagram, Len(h.payload))
  BY HeldFacts
<1>2. data.utc = {Graft(TimeOfDay(h.datagram.sent), h.host)}
  BY <1>1 DEF Told, Dated, DatedAs
<1> QED BY <1>1, <1>2, DatedRef

(* What handleDatagram and the parser make of an undamaged datagram is what *)
(* its reports mean, in order, for reports of any number and fields, any   *)
(* buffer, delay and skew: no value slips to another place over an empty or *)
(* an absent field.                                                        *)
THEOREM KeepsFieldsInPlace == LinkSpec => []FieldsInPlace
BY LinkInvariant, FieldsFollow, PTL

(* A cut datagram or a damaged character neither invents a sentence nor    *)
(* changes a value: what passes verifyChecksum and parseSentence was sent, *)
(* except where one sentence is both damaged and cut; and every sentence   *)
(* that the damage spares and that fits the buffer comes through.          *)
THEOREM KeepsSentencesIntact == LinkSpec => []SentencesIntact
BY LinkInvariant, SentencesFollow, PTL

(* A time reference is the receiver's time if host and receiver agree on the *)
(* date when the sentence is handled, and a day off towards the host's date *)
(* if not, for clocks and delays that are together less than a day apart.  *)
THEOREM DatesByHost == LinkSpec => []DatedByHost
BY LinkInvariant, DatesFollow, PTL

-----------------------------------------------------------------------------
(* The ingestion.                                                          *)
Elements(s) == {s[i] : i \in DOMAIN s}

(* What is in two sequences together is what is in either.                   *)
LEMMA ElementsConcat ==
  ASSUME NEW S, NEW s \in Seq(S), NEW t \in Seq(S)
  PROVE  Elements(s \o t) = Elements(s) \cup Elements(t)
<1>1. /\ Len(s \o t) = Len(s) + Len(t) /\ DOMAIN (s \o t) = 1 .. Len(s) + Len(t)
      /\ DOMAIN s = 1 .. Len(s) /\ DOMAIN t = 1 .. Len(t) /\ Len(s) \in Nat /\ Len(t) \in Nat
  BY ConcatProperties, LenProperties
<1>2. \A i \in 1 .. Len(s) + Len(t) : (s \o t)[i] = IF i <= Len(s) THEN s[i] ELSE t[i - Len(s)]
  BY ConcatProperties
<1>3. ASSUME NEW i \in DOMAIN s PROVE s[i] \in Elements(s \o t)
  BY <1>1, <1>2 DEF Elements
<1>4. ASSUME NEW i \in DOMAIN t PROVE t[i] \in Elements(s \o t)
  <2>1. Len(s) + i \in DOMAIN (s \o t) /\ (s \o t)[Len(s) + i] = t[i]
    BY <1>1, <1>2
  <2> QED BY <2>1 DEF Elements
<1>5. ASSUME NEW i \in DOMAIN (s \o t) PROVE (s \o t)[i] \in Elements(s) \cup Elements(t)
  <2>1. CASE i <= Len(s)
    BY <1>1, <1>2, <2>1 DEF Elements
  <2>2. CASE ~(i <= Len(s))
    <3>1. i - Len(s) \in DOMAIN t /\ (s \o t)[i] = t[i - Len(s)]
      BY <1>1, <1>2, <2>2
    <3> QED BY <3>1 DEF Elements
  <2> QED BY <2>1, <2>2
<1> QED BY <1>3, <1>4, <1>5 DEF Elements

(* What is in a sequence of one, and of none.                                *)
LEMMA ElementsOne == ASSUME NEW a PROVE Elements(<<a>>) = {a} /\ Elements(<<>>) = {}
  BY DEF Elements

(* Two messages of which the second is optional.                             *)
LEMMA ElementsTwo ==
  ASSUME NEW a, NEW b, NEW p
  PROVE  LET s == <<a>> \o (IF p THEN <<b>> ELSE <<>>)
         IN  s \in Seq({a, b}) /\ Elements(s) = {a} \cup (IF p THEN {b} ELSE {})
<1> DEFINE t == IF p THEN <<b>> ELSE <<>>
<1> SUFFICES Elements(<<a>> \o t) = {a} \cup (IF p THEN {b} ELSE {}) /\ <<a>> \o t \in Seq({a, b})
  OBVIOUS
<1>1. /\ <<a>> \in Seq({a, b}) /\ <<b>> \in Seq({a, b}) /\ <<>> \in Seq({a, b})
      /\ t \in Seq({a, b})
  <2>1. <<a>> \in Seq({a, b}) /\ <<b>> \in Seq({a, b}) /\ <<>> \in Seq({a, b})
    OBVIOUS
  <2> QED BY <2>1
<1>2. Elements(t) = IF p THEN {b} ELSE {}
  BY ElementsOne
<1>3. Elements(<<a>>) = {a}
  BY ElementsOne
<1> HIDE DEF t
<1>4. <<a>> \o t \in Seq({a, b})
  BY <1>1, ConcatProperties
<1>5. Elements(<<a>> \o t) = Elements(<<a>>) \cup Elements(t)
  BY <1>1, ElementsConcat, ZenonT(60)
<1> QED BY <1>2, <1>3, <1>4, <1>5 DEF t

-----------------------------------------------------------------------------
(* What the counters and the latches are, with what the last GGA and GST     *)
(* said.  The flag that a fix is confirmed means nothing when RMC is the     *)
(* fix source.                                                               *)
CountersOK == seen \in Nat /\ stats \in [Counters -> Nat]
Latches ==
  /\ validFix \in BOOLEAN /\ usingEpe \in BOOLEAN /\ useRmc \in BOOLEAN
  /\ ~useRmc => (validFix <=> gga # None /\ HasFix(gga.quality))
  /\ usingEpe <=> gst # None
  /\ gst # None => \A a \in Axes \ gst.missing : std[a] = FromGst(gst.reading)
  /\ std = [a \in Axes |-> std[a]]

(* The counters count every sentence once: whatever a sentence comes to,     *)
(* exactly one of them is incremented.                                       *)
THEOREM CountsOnce == Spec => []CountedOnce
<1>1. Init => CountersOK /\ CountedOnce
  BY DEF Init, CountersOK, CountedOnce, Counters
<1>2. CountersOK /\ CountedOnce /\ [Next]_vars => CountersOK' /\ CountedOnce'
  <2> SUFFICES ASSUME CountersOK, CountedOnce, [Next]_vars
               PROVE  CountersOK' /\ CountedOnce'
    OBVIOUS
  <2> USE DEF CountersOK, CountedOnce, Counters
  <2>1. CASE Next
    <3>1. PICK s \in Sentences : OnSentence(s)
      BY <2>1 DEF Next
    <3>2. seen' = seen + 1
      BY <3>1 DEF OnSentence
    <3>3. \E c \in Counters : Count(c)
      BY <3>1 DEF OnSentence, BadChecksum, Unparsed, Rejected, OnGga, OnVtg, Dropped, OnRmc,
                  OnGst, OnHdt, Assembled
    <3>4. PICK c \in Counters : Count(c)
      BY <3>3
    <3> QED BY <3>2, <3>4 DEF Count
  <2>2. CASE UNCHANGED vars
    BY <2>2 DEF vars
  <2> QED BY <2>1, <2>2
<1> QED BY <1>1, <1>2, PTL DEF Spec

(* The latches follow the last GGA and GST, over all other sentences.        *)
LEMMA LatchesHold == Spec => []Latches
<1>1. Init => Latches
  BY DEF Init, Latches
<1>2. Latches /\ [Next]_vars => Latches'
  <2> SUFFICES ASSUME Latches, [Next]_vars PROVE Latches'
    OBVIOUS
  <2> USE DEF Latches
  <2>1. CASE Next
    <3>1. PICK s \in Sentences : OnSentence(s)
      BY <2>1 DEF Next
    <3>2. /\ gga' = IF s.kind = "gga" THEN s ELSE gga
          /\ gst' = IF s.kind = "gst" THEN s ELSE gst
          /\ useRmc' = useRmc /\ current' = s
      BY <3>1 DEF OnSentence
    <3>3. s # None
      BY DEF Sentences, None
    <3>4. CASE OnGga(s)
      <4>1. validFix' = HasFix(s.quality) /\ usingEpe' = usingEpe /\ gst' = gst /\ gga' = s
        BY <3>2, <3>4 DEF OnGga
      <4>2. ASSUME gst # None, NEW a \in Axes \ gst.missing
            PROVE  std'[a] = FromGst(gst.reading)
        <5>1. std[a] = FromGst(gst.reading) /\ usingEpe
          BY <4>2
        <5>2. std[a] # NaN
          BY <5>1 DEF FromGst, NaN
        <5> QED BY <3>4, <4>2, <5>1, <5>2 DEF OnGga, StdFor
      <4>3. std' = [a \in Axes |-> std'[a]]
        BY <3>4 DEF OnGga, StdFor
      <4> QED BY <3>2, <3>3, <4>1, <4>2, <4>3 DEF HasFix
    <3>5. CASE OnGst(s)
      BY <3>2, <3>3, <3>5 DEF OnGst
    <3>6. CASE Dropped(s)
      BY <3>2, <3>6 DEF Dropped, latchVars
    <3>7. CASE OnVtg(s) \/ OnRmc(s) \/ OnHdt(s) \/ BadChecksum(s) \/ Unparsed(s)
      BY <3>2, <3>7 DEF OnVtg, OnRmc, OnHdt, BadChecksum, Unparsed, Rejected, latchVars
    <3> QED BY <3>1, <3>4, <3>5, <3>6, <3>7 DEF OnSentence
  <2>2. CASE UNCHANGED vars
    BY <2>2 DEF vars, latchVars
  <2> QED BY <2>1, <2>2
<1> QED BY <1>1, <1>2, PTL DEF Spec

(* The messages that a sentence gives.                                       *)
TimeRefs(s) == IF s.utc THEN {Topic("time_reference")} ELSE {}
Output(s) ==
  CASE s.kind = "gga" /\ ~useRmc -> {GgaFix(s, std')} \cup TimeRefs(s)
    [] s.kind = "vtg" /\ ~useRmc -> IF validFix THEN {Topic("velocity")} ELSE {}
    [] s.kind = "rmc" -> (IF useRmc THEN {RmcFix(s)} \cup TimeRefs(s) ELSE {})
                           \cup (IF s.valid THEN {Topic("velocity")} ELSE {})
    [] s.kind = "hdt" -> IF s.nan THEN {} ELSE {Topic("heading")}
    [] OTHER -> {}

(* onSentence publishes those and no others.                                 *)
LEMMA OutputOf ==
  ASSUME NEW s \in Sentences, OnSentence(s)
  PROVE  Elements(out') = Output(s)
<1>1. CASE OnGga(s)
  <2>1. out' = <<GgaFix(s, std')>> \o TimeRef(s)
    BY <1>1 DEF OnGga, Assembled
  <2>2. Elements(out') = {GgaFix(s, std')} \cup TimeRefs(s)
    BY <2>1, ElementsTwo DEF TimeRef, TimeRefs
  <2> QED BY <1>1, <2>2 DEF OnGga, Output
<1>2. CASE OnRmc(s)
  <2>1. out' = (IF useRmc THEN <<RmcFix(s)>> \o TimeRef(s) ELSE <<>>)
                 \o (IF s.valid THEN <<Topic("velocity")>> ELSE <<>>)
    BY <1>2 DEF OnRmc, Assembled
  <2>2. Elements(out') = (IF useRmc THEN {RmcFix(s)} \cup TimeRefs(s) ELSE {})
                           \cup (IF s.valid THEN {Topic("velocity")} ELSE {})
    <3> DEFINE a == RmcFix(s)
               b == Topic("time_reference")
               c == Topic("velocity")
    <3>1. out' = (IF useRmc THEN <<a>> \o (IF s.utc THEN <<b>> ELSE <<>>) ELSE <<>>)
                   \o (IF s.valid THEN <<c>> ELSE <<>>)
      BY <2>1 DEF TimeRef
    <3> HIDE DEF a, b, c
    <3> DEFINE pair == IF useRmc THEN <<a>> \o (IF s.utc THEN <<b>> ELSE <<>>) ELSE <<>>
               last == IF s.valid THEN <<c>> ELSE <<>>
               S == {a, b, c}
    <3>2. Elements(last) = IF s.valid THEN {c} ELSE {}
      BY ElementsOne
    <3>3. last \in Seq(S) /\ <<>> \in Seq(S)
      <4>1. <<c>> \in Seq(S) /\ <<>> \in Seq(S)
        OBVIOUS
      <4> QED BY <4>1
    <3>4. pair \in Seq(S) /\ Elements(pair) = IF useRmc THEN {a} \cup (IF s.utc THEN {b} ELSE {}) ELSE {}
      <4> DEFINE two == <<a>> \o (IF s.utc THEN <<b>> ELSE <<>>)
      <4>1. two \in Seq({a, b}) /\ Elements(two) = {a} \cup (IF s.utc THEN {b} ELSE {})
        BY ElementsTwo
      <4> HIDE DEF two
      <4>2. two \in Seq(S)
        BY <4>1
      <4>3. pair = IF useRmc THEN two ELSE <<>>
        BY DEF two
      <4> HIDE DEF pair
      <4>4. CASE useRmc
        BY <4>1, <4>2, <4>3, <4>4
      <4>5. CASE ~useRmc
        BY <3>3, <4>3, <4>5, ElementsOne
      <4> QED BY <4>4, <4>5
    <3>5. out' = pair \o last
      BY <3>1
    <3> HIDE DEF pair, last, S
    <3>6. Elements(out') = Elements(pair) \cup Elements(last)
      BY <3>3, <3>4, <3>5, ElementsConcat
    <3> QED BY <3>2, <3>4, <3>6 DEF a, b, c, TimeRefs
  <2> QED BY <1>2, <2>2 DEF OnRmc, Output
<1>3. CASE OnVtg(s) \/ OnHdt(s)
  BY <1>3, ElementsOne DEF OnVtg, OnHdt, Assembled, Output
<1>4. CASE Dropped(s) \/ OnGst(s) \/ BadChecksum(s) \/ Unparsed(s)
  <2>1. out' = <<>>
    BY <1>4 DEF Dropped, OnGst, BadChecksum, Unparsed, Rejected, Assembled
  <2> QED BY <1>4, <2>1, ElementsOne DEF Dropped, OnGst, BadChecksum, Unparsed, Output
<1> QED BY <1>1, <1>2, <1>3, <1>4 DEF OnSentence

(* A velocity is published exactly when the receiver confirmed the fix: by   *)
(* the RMC's own flag, or for a VTG by the last GGA, whatever came between   *)
(* them.                                                                     *)
THEOREM ConfirmsVelocity == Spec => []VelocityConfirmed
<1>1. Init => VelocityConfirmed
  BY DEF Init, VelocityConfirmed, None
<1>2. Latches /\ VelocityConfirmed /\ [Next]_vars => VelocityConfirmed'
  <2> SUFFICES ASSUME Latches, VelocityConfirmed, [Next]_vars PROVE VelocityConfirmed'
    OBVIOUS
  <2>1. CASE Next
    <3>1. PICK s \in Sentences : OnSentence(s)
      BY <2>1 DEF Next
    <3>2. current' = s /\ useRmc' = useRmc /\ gga' = IF s.kind = "gga" THEN s ELSE gga
      BY <3>1 DEF OnSentence
    <3>3. (\E i \in DOMAIN out' : out'[i].topic = "velocity")
             <=> \E m \in Output(s) : m.topic = "velocity"
      BY <3>1, OutputOf DEF Elements
    <3>4. (\E m \in Output(s) : m.topic = "velocity")
             <=> \/ s.kind = "rmc" /\ s.valid
                 \/ s.kind = "vtg" /\ ~useRmc /\ validFix
      <4> \A m \in TimeRefs(s) : m.topic # "velocity"
        BY DEF TimeRefs, Topic
      <4> RmcFix(s).topic # "velocity" /\ GgaFix(s, std').topic # "velocity"
        BY DEF RmcFix, GgaFix, Fix
      <4> Topic("velocity").topic = "velocity" /\ Topic("heading").topic # "velocity"
        BY DEF Topic
      <4>1. CASE s.kind = "rmc"
        BY <4>1 DEF Output
      <4>2. CASE s.kind = "vtg"
        BY <4>2 DEF Output
      <4>3. CASE s.kind \notin {"rmc", "vtg"}
        BY <4>3 DEF Output
      <4> QED BY <4>1, <4>2, <4>3
    <3>5. s.kind = "vtg" /\ ~useRmc => (validFix <=> gga' # None /\ HasFix(gga'.quality))
      BY <3>2 DEF Latches
    <3> QED BY <3>2, <3>3, <3>4, <3>5 DEF VelocityConfirmed
  <2>2. CASE UNCHANGED vars
    BY <2>2 DEF vars, VelocityConfirmed
  <2> QED BY <2>1, <2>2
<1> QED BY <1>1, <1>2, LatchesHold, PTL DEF Spec

(* The fix of a GGA carries what StdFor makes of the latched estimate.       *)
LEMMA FixOfGga ==
  ASSUME NEW s \in Sentences, OnSentence(s), NEW i \in DOMAIN out', out'[i].topic = "fix", ~useRmc
  PROVE  s.kind = "gga" /\ OnGga(s) /\ out'[i] = GgaFix(s, StdFor(s.quality))
<1>1. out'[i] \in Output(s)
  BY OutputOf DEF Elements
<1>2. s.kind = "gga" /\ out'[i] = GgaFix(s, std')
  BY <1>1 DEF Output, TimeRefs, Topic
<1>3. OnGga(s)
  BY <1>2 DEF OnSentence, BadChecksum, Unparsed, OnVtg, Dropped, OnRmc, OnGst, OnHdt
<1> QED BY <1>2, <1>3 DEF OnGga

(* A fix carries the error estimate of the latest GST on every axis that it  *)
(* gave, and before any GST the default of the fix's own quality.            *)
THEOREM EpeFromLatestGst == Spec => []EpeProvenance
<1>1. Init => EpeProvenance
  BY DEF Init, EpeProvenance, RatedFixes
<1>2. Latches /\ EpeProvenance /\ [Next]_vars => EpeProvenance'
  <2> SUFFICES ASSUME Latches, EpeProvenance, [Next]_vars PROVE EpeProvenance'
    OBVIOUS
  <2>1. CASE Next
    <3>1. PICK s \in Sentences : OnSentence(s)
      BY <2>1 DEF Next
    <3> SUFFICES ASSUME NEW i \in RatedFixes', NEW a \in Axes
                 PROVE  /\ gst' = None => out'[i].cov[a] = FromTable(RowOf(gga'.quality))
                        /\ gst' # None /\ a \notin gst'.missing
                             => out'[i].cov[a] = FromGst(gst'.reading)
      BY DEF EpeProvenance
    <3>2. i \in DOMAIN out' /\ out'[i].topic = "fix" /\ ~useRmc /\ gga'.hdop
      BY <3>1 DEF RatedFixes, OnSentence
    <3>3. s.kind = "gga" /\ out'[i] = GgaFix(s, StdFor(s.quality))
      BY <3>1, <3>2, FixOfGga
    <3>4. gga' = s /\ gst' = gst
      BY <3>1, <3>3 DEF OnSentence
    <3>5. out'[i].cov[a] = StdFor(s.quality)[a]
      BY <3>2, <3>3, <3>4 DEF GgaFix, Fix
    <3>6. gst = None => StdFor(s.quality)[a] = FromTable(RowOf(s.quality))
      BY DEF Latches, StdFor
    <3>7. gst # None /\ a \notin gst.missing => StdFor(s.quality)[a] = FromGst(gst.reading)
      BY DEF Latches, StdFor, FromGst, NaN
    <3> QED BY <3>4, <3>5, <3>6, <3>7
  <2>2. CASE UNCHANGED vars
    BY <2>2 DEF vars, latchVars, EpeProvenance, RatedFixes
  <2> QED BY <2>1, <2>2
<1> QED BY <1>1, <1>2, LatchesHold, PTL DEF Spec

(* The status of a fix survives the way over the message and back.           *)
LEMMA StatusRoundTrip ==
  ASSUME NEW st \in {"nofix", "fix", "sbas", "gbas"}
  PROVE  ToFixStatus(ToNavSatStatus[st]) = st
  BY DEF ToFixStatus, ToNavSatStatus

(* What the health node reads out of the fix of a GGA and of an RMC.  No     *)
(* axis of StdFor is a NaN, whatever a GST left empty.                       *)
LEMMA ReadGga ==
  ASSUME NEW s \in Sentences, s.kind = "gga"
  PROVE  LET fix == ToGnssFix(GgaFix(s, StdFor(s.quality)))
         IN  /\ fix.status = StatusOf(s.quality)
             /\ fix.horizontal = {} <=> ~s.hdop \/ fix.status = "nofix"
<1> DEFINE sd == StdFor(s.quality)
           m == GgaFix(s, sd)
<1>1. StatusOf(s.quality) \in {"nofix", "fix", "sbas", "gbas"}
  BY DEF StatusOf, RowOf, TableRows
<1>2. sd["lon"] # NaN
  <2>1. sd["lon"] = IF ~usingEpe \/ std["lon"] = NaN THEN FromTable(RowOf(s.quality))
                                                      ELSE std["lon"]
    BY DEF StdFor, Axes
  <2>2. FromTable(RowOf(s.quality)) # NaN
    BY DEF FromTable, NaN
  <2> QED BY <2>1, <2>2
<1> HIDE DEF sd
<1>3. /\ m.status = ToNavSatStatus[StatusOf(s.quality)]
      /\ m.type = IF HasFix(s.quality) THEN 1 ELSE 0
      /\ m.cov["lon"] = IF s.hdop THEN sd["lon"] ELSE NaN
  BY DEF GgaFix, Fix, Axes, ApproximatedType, UnknownType
<1> HIDE DEF m
<1>4. ToGnssFix(m).status = StatusOf(s.quality)
  BY <1>1, <1>3, StatusRoundTrip DEF ToGnssFix
<1>5. ToGnssFix(m).horizontal = {} <=> ~s.hdop \/ ~HasFix(s.quality)
  <2>1. ToGnssFix(m).horizontal = IF m.type = 0 \/ m.cov["lon"] = NaN THEN {}
                                  ELSE {m.cov["lon"], m.cov["lat"]} \ {NaN}
    BY DEF ToGnssFix, UnknownType
  <2>2. m.type = 0 \/ m.cov["lon"] = NaN <=> ~s.hdop \/ ~HasFix(s.quality)
    BY <1>2, <1>3
  <2> QED BY <2>1, <2>2
<1> QED BY <1>4, <1>5 DEF HasFix, m, sd

LEMMA ReadRmc ==
  ASSUME NEW s \in Sentences, s.kind = "rmc"
  PROVE  LET fix == ToGnssFix(RmcFix(s))
         IN  ((fix.status # "nofix") <=> s.valid) /\ fix.horizontal = {}
<1> DEFINE m == RmcFix(s)
           st == IF s.valid THEN "fix" ELSE "nofix"
<1>1. m.status = ToNavSatStatus[st] /\ m.type = UnknownType
  BY DEF RmcFix, Fix
<1>2. st \in {"nofix", "fix", "sbas", "gbas"} /\ (st # "nofix" <=> s.valid)
  OBVIOUS
<1> HIDE DEF m, st
<1>3. ToGnssFix(m).status = st /\ ToGnssFix(m).horizontal = {}
  BY <1>1, <1>2, StatusRoundTrip DEF ToGnssFix
<1> QED BY <1>2, <1>3 DEF m

(* What the health node reads out of a fix is what the receiver said, and    *)
(* an empty field of a GST never hides the error from it.                    *)
THEOREM HealthReadsFix == Spec => []HealthSeesFix
<1>1. Init => HealthSeesFix
  BY DEF Init, HealthSeesFix
<1>2. HealthSeesFix /\ [Next]_vars => HealthSeesFix'
  <2> SUFFICES ASSUME HealthSeesFix, [Next]_vars PROVE HealthSeesFix'
    OBVIOUS
  <2>1. CASE Next
    <3>1. PICK s \in Sentences : OnSentence(s)
      BY <2>1 DEF Next
    <3>2. current' = s /\ useRmc' = useRmc
      BY <3>1 DEF OnSentence
    <3> SUFFICES ASSUME NEW i \in DOMAIN out', out'[i].topic = "fix"
                 PROVE  LET fix == ToGnssFix(out'[i])
                        IN  IF useRmc THEN /\ (fix.status # "nofix") <=> s.valid
                                           /\ fix.horizontal = {}
                            ELSE /\ fix.status = StatusOf(s.quality)
                                 /\ fix.horizontal = {} <=> ~s.hdop \/ fix.status = "nofix"
      BY <3>2 DEF HealthSeesFix
    <3>3. CASE useRmc
      <4>1. out'[i] \in Output(s)
        BY <3>1, OutputOf DEF Elements
      <4>2. s.kind = "rmc" /\ out'[i] = RmcFix(s)
        BY <3>3, <4>1 DEF Output, TimeRefs, Topic
      <4> QED BY <3>3, <4>2, ReadRmc
    <3>4. CASE ~useRmc
      <4>1. s.kind = "gga" /\ out'[i] = GgaFix(s, StdFor(s.quality))
        BY <3>1, <3>4, FixOfGga
      <4> QED BY <3>4, <4>1, ReadGga
    <3> QED BY <3>3, <3>4
  <2>2. CASE UNCHANGED vars
    BY <2>2 DEF vars, HealthSeesFix
  <2> QED BY <2>1, <2>2
<1> QED BY <1>1, <1>2, PTL DEF Spec
=============================================================================
