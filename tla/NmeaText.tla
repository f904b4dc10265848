------------------------------ MODULE NmeaText ------------------------------
(***************************************************************************)
(* The text of an NMEA sentence: its checksum (nmea_checksum.cpp) and what *)
(* the parser reads out of it (nmea_parser.cpp).  A text is a sequence of  *)
(* ASCII codes, but the letters of a talker or a type are one symbol.  A   *)
(* number is a set: {} stands for NaN, {x} for x; decimals are in tenths   *)
(* and positions in tenths of a minute.  The conversions of knots and      *)
(* degrees, which are a factor, are left out.                              *)
(***************************************************************************)
EXTENDS Integers, Sequences, SequencesExt, FiniteSetsExt

LF     == 10
CR     == 13
Blanks == {9, LF, 11, 12, CR, 32}
Dollar == 36
Star   == 42
Comma  == 44
Minus  == 45
Dot    == 46
Digits == 48 .. 57

(* A word is numbered past the characters, with the XOR of its letters in  *)
(* the low byte.                                                           *)
Word(xor) == 256 + xor
Talkers   == [GP |-> Word(23), GN |-> Word(9), GL |-> Word(11), INS |-> Word(7)]
Types     == [GGA |-> Word(65), RMC |-> Word(92), VTG |-> Word(69), GST |-> Word(64),
              HDT |-> Word(88)]

-----------------------------------------------------------------------------
(* Blanks off both ends.                                                   *)
Trim(s) ==
  LET ink == {i \in DOMAIN s : s[i] \notin Blanks}
  IN  IF ink = {} THEN <<>> ELSE SubSeq(s, Min(ink), Max(ink))

(* string_view::find, with the place past the end for npos.               *)
Find(c, s, from) ==
  LET at == {p \in from .. Len(s) : s[p] = c} IN IF at = {} THEN Len(s) + 1 ELSE Min(at)

ClampedSubstr(s, pos, count) == SubSeq(s, pos + 1, Min({pos + count, Len(s)}))

(* Mutant: the split drops the empty fields, as strtok would. *)
FieldDense(s, i) ==
  LET start[k \in 0 .. i] ==
        IF k = 0 THEN 1
        ELSE CHOOSE p \in Find(Comma, s, start[k - 1]) .. Len(s) + 1 :
               /\ p <= Len(s) => s[p] # Comma
               /\ \A q \in Find(Comma, s, start[k - 1]) .. p - 1 : s[q] = Comma
  IN  SubSeq(s, start[i], Find(Comma, s, start[i]) - 1)

(* Field i of splitFields, empty ones included; those past the end of a    *)
(* short sentence are empty.                                               *)
Field(s, i) ==
  LET start[k \in 0 .. i] == IF k = 0 THEN 1 ELSE Find(Comma, s, start[k - 1]) + 1
  IN  SubSeq(s, start[i], Find(Comma, s, start[i]) - 1)

HexDigits  == Digits \cup 65 .. 70 \cup 97 .. 102
HexValue(c) == c - (CASE c \in Digits -> 48 [] c \in 65 .. 70 -> 55 [] OTHER -> 87)

(* The XOR of the symbols of s, as the set of its bits.                    *)
Bit(n, b) == (n \div 2^b) % 2 = 1
BitsOf(n) == {b \in 0 .. 7 : Bit(n, b)}
Xor(s)    == {b \in 0 .. 7 : Cardinality({i \in DOMAIN s : Bit(s[i], b)}) % 2 = 1}

VerifyChecksum(s) ==
  \E star \in {i \in DOMAIN s : s[i] = Star} :
    /\ \A i \in DOMAIN s \ {star} : s[i] # Star
    /\ Len(s) = star + 2
    /\ {s[star + 1], s[star + 2]} \subseteq HexDigits
    /\ s[1] = Dollar
    /\ Xor(SubSeq(s, 2, star - 1)) = BitsOf(16 * HexValue(s[star + 1]) + HexValue(s[star + 2]))

-----------------------------------------------------------------------------
AllDigits(s) == s # <<>> /\ ToSet(s) \subseteq Digits
Natural(s) ==
  LET value[i \in 0 .. Len(s)] == IF i = 0 THEN 0 ELSE 10 * value[i - 1] + s[i] - 48
  IN  value[Len(s)]

Negated(x) == {-y : y \in x}

(* A number with its sign, read by Read.                                   *)
Signed(Read(_), s) ==
  IF s # <<>> /\ s[1] = Minus THEN Negated(Read(Tail(s))) ELSE Read(s)

(* The whole of the text must be a number, or the result is a NaN.         *)
SafeFloat(f) ==
  LET Read(s) ==
        LET dot   == Find(Dot, s, 1)
            whole == SubSeq(s, 1, dot - 1)  rest == SubSeq(s, dot + 1, Len(s))
        IN  IF AllDigits(whole \o rest)
            THEN {10 * Natural(whole) + Natural(ClampedSubstr(rest, 0, 1))} ELSE {}
  IN  Signed(Read, Trim(f))

(* A missing or malformed count is 0.                                      *)
SafeInt(f) ==
  LET Read(s) == IF AllDigits(s) THEN {Natural(s)} ELSE {0}
  IN  CHOOSE n \in Signed(Read, Trim(f)) : TRUE

(* ddmm.m and dddmm.m, a NaN when either part is one.                      *)
DegreesMinutes(f, digits) ==
  {60 * d + m : d \in SafeFloat(ClampedSubstr(f, 0, digits)),
                m \in SafeFloat(ClampedSubstr(f, digits, Len(f)))}
ConvertLatitude(f)  == DegreesMinutes(f, 2)
ConvertLongitude(f) == DegreesMinutes(f, 3)

ApplyHemisphere(magnitude, direction, negative) ==
  LET d == Trim(direction)
  IN  IF d # <<>> /\ d[1] = negative THEN Negated(magnitude) ELSE magnitude

ConvertStatusFlag(f) == Trim(f) = <<65>>

Day          == 86400
Midnight(t)  == (t \div Day) * Day
TimeOfDay(t) == t % Day

(* Mutant: local and UTC midnights mixed up by rounding to the nearest day. *)
GraftRounded(tod, now) == Midnight(now + Day \div 2) + tod

(* timegm of the host's date with the sentence's hours, minutes, seconds;  *)
(* it carries an hour of 24 or a second of 60 over, and so does the sum.   *)
Graft(tod, now) == Midnight(now) + tod

UtcTimeOfDay(f, now) ==
  LET t == Trim(f)
      Two(i) == 10 * (t[i] - 48) + t[i + 1] - 48
  IN  IF Len(t) >= 6 /\ AllDigits(SubSeq(t, 1, 6))
      THEN {Graft(3600 * Two(1) + 60 * Two(3) + Two(5), now)} ELSE {}

(* toRosTime: no time, and one before the epoch, are a zero stamp.         *)
ToRosTime(utc) == CHOOSE t \in IF \E x \in utc : x >= 0 THEN utc ELSE {0} : TRUE

-----------------------------------------------------------------------------
Gga(f, now) ==
  [type |-> "GGA", utc |-> UtcTimeOfDay(f[1], now),
   lat  |-> ApplyHemisphere(ConvertLatitude(f[2]), f[3], 83),
   lon  |-> ApplyHemisphere(ConvertLongitude(f[4]), f[5], 87),
   fix_type |-> SafeInt(f[6]), num_satellites |-> SafeInt(f[7]), hdop |-> SafeFloat(f[8]),
   altitude |-> SafeFloat(f[9]), mean_sea_level |-> SafeFloat(f[11])]

Rmc(f, now) ==
  [type |-> "RMC", utc |-> UtcTimeOfDay(f[1], now), fix_valid |-> ConvertStatusFlag(f[2]),
   lat  |-> ApplyHemisphere(ConvertLatitude(f[3]), f[4], 83),
   lon  |-> ApplyHemisphere(ConvertLongitude(f[5]), f[6], 87),
   speed |-> SafeFloat(f[7]), course |-> SafeFloat(f[8])]

Vtg(f) == [type |-> "VTG", course |-> SafeFloat(f[1]), speed |-> SafeFloat(f[5])]

Gst(f, now) ==
  [type |-> "GST", utc |-> UtcTimeOfDay(f[1], now),
   std  |-> <<SafeFloat(f[2]), SafeFloat(f[3]), SafeFloat(f[4]), SafeFloat(f[5]),
              SafeFloat(f[6]), SafeFloat(f[7]), SafeFloat(f[8])>>]

Hdt(f) == [type |-> "HDT", heading |-> SafeFloat(f[1])]

(* What the fields of a sentence say, as a set, which is empty for a       *)
(* sentence the driver does not know.                                      *)
Reading(f, now) ==
  LET type == ClampedSubstr(f[0], 2, Len(f[0]))
  IN  CASE type = <<Types.GGA>> -> {Gga(f, now)}
        [] type = <<Types.RMC>> -> {Rmc(f, now)}
        [] type = <<Types.VTG>> -> {Vtg(f)}
        [] type = <<Types.GST>> -> {Gst(f, now)}
        [] type = <<Types.HDT>> -> {Hdt(f)}
        [] OTHER -> {}

Places == 0 .. 11

ParseSentence(s, now) ==
  IF /\ Len(s) >= 5 /\ s[1] = Dollar /\ s[2] \in Range(Talkers)
     /\ s[Len(s) - 2] = Star /\ {s[Len(s) - 1], s[Len(s)]} \subseteq HexDigits
  THEN Reading([i \in Places |-> Field(SubSeq(s, 1, Len(s) - 3), i)], now) ELSE {}
=============================================================================
