------------------------------ MODULE NmeaLink ------------------------------
(***************************************************************************)
(* Datagrams of NMEA text on their way from the GNSS receiver, through a   *)
(* network that delays and loses them and a link that may damage a         *)
(* character, into the buffer of UdpNmeaReceiver::receive and through      *)
(* handleDatagram, which cuts them into lines, and the checksum and parser *)
(* of onSentence.  What a parsed sentence then does is NmeaPipeline.       *)
(***************************************************************************)
EXTENDS NmeaText

CONSTANTS Datagrams,    \* sequences of reports, each [talker, type, fields, data]
          Noise,        \* codes a damaged character may turn into
          BufferSizes,  \* buffer_size, in symbols
          Start, End,   \* the receiver's clock runs from one to the other
          MaxDelay,     \* longest time a datagram travels
          MaxSkew       \* how far the host's clock may be from the receiver's

ASSUME LinkAssumption ==
  /\ Noise \subseteq 0 .. 255 /\ BufferSizes \subseteq Nat \ {0}
  /\ Start \in Nat /\ End \in Nat /\ MaxDelay \in Nat /\ MaxSkew \in 0 .. Start
  /\ MaxDelay + MaxSkew < Day

(* The place of the time of sending among the fields of a report.          *)
Time      == <<0>>
TimedType == {Types.GGA, Types.RMC, Types.GST}

(* A talker and a type are words; fields have no character that delimits   *)
(* fields or sentences; a time is the time of sending or missing.          *)
Ordinary == (0 .. 255) \ {Dollar, Comma, Star, LF}
WellFormed(report) ==
  /\ {report.talker, report.type} \subseteq Nat \ (0 .. 255)
  /\ report.fields \in Seq(Seq(Ordinary))
  /\ \A i \in DOMAIN report.fields :
       report.fields[i] = Time => i = 1 /\ report.type \in TimedType
  /\ report.type \in TimedType /\ report.fields # <<>> => report.fields[1] \in {Time, <<>>}

ASSUME ReportsAssumption ==
  \A reports \in Datagrams :
    reports \in Seq(ToSet(reports)) /\ \A report \in ToSet(reports) : WellFormed(report)

VARIABLES utc,      \* the receiver's clock, seconds since the epoch
          skew,     \* host clock minus receiver clock
          buffer,   \* buffer_size
          flight,   \* the datagram on its way, or none
          handled   \* the datagram in hand, or the last one, and what came of it

linkVars == <<utc, skew, buffer, flight, handled>>

-----------------------------------------------------------------------------
(* The receiver's side, by NMEA 0183.                                      *)
TwoDigits(n) == <<48 + (n \div 10), 48 + (n % 10)>>
Hours(t)   == TimeOfDay(t) \div 3600
Minutes(t) == (TimeOfDay(t) \div 60) % 60
Seconds(t) == TimeOfDay(t) % 60
ClockText(t) == TwoDigits(Hours(t)) \o TwoDigits(Minutes(t)) \o TwoDigits(Seconds(t))

FieldText(f, clock) == IF f = Time THEN clock ELSE f

Body(report, t) ==
  LET body[i \in 0 .. Len(report.fields)] ==
        IF i = 0 THEN <<report.talker, report.type>>
        ELSE body[i - 1] \o <<Comma>> \o FieldText(report.fields[i], ClockText(t))
  IN  body[Len(report.fields)]

Sum(body)  == LET xor == Xor(body) IN CHOOSE n \in 0 .. 255 : BitsOf(n) = xor
HexText(n) == IF n < 10 THEN 48 + n ELSE 55 + n

Sentence(report, t) ==
  LET body == Body(report, t)  sum == Sum(body)
  IN  <<Dollar>> \o body \o <<Star, HexText(sum \div 16), HexText(sum % 16)>>

(* The lines of a datagram up to each of them; they end in CR and LF, the  *)
(* last too.                                                               *)
Lines(reports, t) ==
  LET lines[i \in 0 .. Len(reports)] ==
        IF i = 0 THEN <<>> ELSE lines[i - 1] \o Sentence(reports[i], t) \o <<CR, LF>>
  IN  lines
Text(reports, t) == Lines(reports, t)[Len(reports)]
Ends(reports, t) == [i \in 0 .. Len(reports) |-> Len(Lines(reports, t)[i])]

-----------------------------------------------------------------------------
LinkInit ==
  /\ utc = Start /\ skew \in -MaxSkew .. MaxSkew /\ buffer \in BufferSizes
  /\ flight = {} /\ handled = {}

(* The loop of handleDatagram has come to its end. *)
Done(h) == h.start > Len(h.payload) + 1

(* Time passes; a datagram is not delivered after MaxDelay, it is lost.  A  *)
(* datagram in hand does not see it pass, its clock is read already.       *)
Pass ==
  /\ utc < End /\ \A h \in handled : Done(h)
  /\ utc' = utc + 1
  /\ flight' = {d \in flight : utc + 1 - d.sent <= MaxDelay}
  /\ handled' = {}
  /\ UNCHANGED <<skew, buffer>>

(* One datagram is followed at a time, from its sending until it is        *)
(* handled: handleDatagram keeps nothing from one to the next.             *)
Send(reports) ==
  /\ flight = {} /\ \A h \in handled : Done(h)
  /\ flight' = {[sent |-> utc, reports |-> reports, text |-> Text(reports, utc),
                 ends |-> Ends(reports, utc), hit |-> 0]}
  /\ handled' = {}
  /\ UNCHANGED <<utc, skew, buffer>>

(* One character of a datagram turns into another. *)
Damage(d, i, c) ==
  /\ d.hit = 0 /\ d.text[i] # c
  /\ flight' = {[d EXCEPT !.text[i] = c, !.hit = i]}
  /\ UNCHANGED <<utc, skew, buffer, handled>>

LoseDatagram(d) ==
  /\ flight' = flight \ {d}
  /\ UNCHANGED <<utc, skew, buffer, handled>>

(* recvfrom: what does not fit the buffer is cut off. *)
Received(d) == SubSeq(d.text, 1, IF Len(d.text) < buffer THEN Len(d.text) ELSE buffer)

(* handleDatagram, which reads the host's clock once.                      *)
Handle(d) ==
  /\ flight' = flight \ {d}
  /\ handled' = {[datagram |-> d, host |-> utc + skew, payload |-> Received(d),
                  start |-> 1, heard |-> <<>>]}
  /\ UNCHANGED <<utc, skew, buffer>>

TrimLine(line) == Trim(line)

(* Mutant: the checksum is computed but its verdict ignored. *)
OnTextUnchecked(line, now) == ParseSentence(line, now)

(* onSentence up to the assembler: the data of a sentence it accepts.      *)
OnText(line, now) == IF VerifyChecksum(line) THEN ParseSentence(line, now) ELSE {}

(* A turn of the loop: a line, trimmed, and handed on unless it is blank. *)
NextLine(h) ==
  /\ ~Done(h)
  /\ LET newline == Find(LF, h.payload, h.start)
         line    == TrimLine(SubSeq(h.payload, h.start, newline - 1))
         parsed  == IF line = <<>> THEN {} ELSE OnText(line, h.host)
     IN  handled' = {[h EXCEPT !.start = newline + 1,
                               !.heard = IF parsed = {} THEN @
                                         ELSE Append(@, CHOOSE data \in parsed : TRUE)]}
  /\ UNCHANGED <<utc, skew, buffer, flight>>

LinkNext ==
  \/ Pass
  \/ \E reports \in Datagrams : Send(reports)
  \/ \E d \in flight :
       \/ Handle(d) \/ LoseDatagram(d)
       \/ \E i \in DOMAIN d.text, c \in Noise : Damage(d, i, c)
  \/ \E h \in handled : NextLine(h)

LinkSpec == LinkInit /\ [][LinkNext]_linkVars

-----------------------------------------------------------------------------
Timed(data) == "utc" \in DOMAIN data

(* What a report means, with its time of day if it has one.                *)
Meant(report, t) ==
  IF Timed(report.data) /\ Time \in ToSet(report.fields)
  THEN [report.data EXCEPT !.utc = {TimeOfDay(t)}] ELSE report.data

(* Data as parsed, with the date taken off its time.                       *)
Undated(data) ==
  IF Timed(data) THEN [data EXCEPT !.utc = {TimeOfDay(x) : x \in @}] ELSE data

(* The fields a sentence of a report has, the first of them its address.   *)
FieldsOf(report, clock) ==
  [i \in Places |->
     IF i = 0 THEN <<Dollar, report.talker, report.type>>
     ELSE IF i \in DOMAIN report.fields THEN FieldText(report.fields[i], clock) ELSE <<>>]

Supported(report) == report.talker \in Range(Talkers) /\ report.type \in Range(Types)

(* The data of a report is what its fields say, read one by one and without *)
(* a time.                                                                 *)
ASSUME MeaningAssumption ==
  \A reports \in Datagrams : \A report \in ToSet(reports) :
    Supported(report) => Reading(FieldsOf(report, <<>>), 0) = {report.data}

(* The damage is in the i-th line or at either end of it; its sentence     *)
(* does not fit the buffer.                                                *)
Touched(d, i)   == d.hit \in d.ends[i - 1] .. d.ends[i] /\ d.hit # 0
Truncated(d, i) == d.ends[i] - 2 > buffer

(* What an undamaged datagram should give, up to each of its lines.        *)
Due(d) ==
  LET due[i \in 0 .. Len(d.reports)] ==
        IF i = 0 THEN <<>>
        ELSE IF Supported(d.reports[i]) /\ ~Truncated(d, i)
             THEN Append(due[i - 1], Meant(d.reports[i], d.sent)) ELSE due[i - 1]
  IN  due

(* Every value of a sentence reaches its place, over empty fields, absent  *)
(* trailing fields, both hemispheres and decimals: what an undamaged       *)
(* datagram gives is what its reports mean, in order, and nothing of the   *)
(* sentences the driver does not know.                                     *)
FieldsInPlace ==
  \A h \in handled :
    LET d == h.datagram IN
    Done(h) /\ d.hit = 0 =>
      [i \in DOMAIN h.heard |-> Undated(h.heard[i])] = Due(d)[Len(d.reports)]

(* A cut datagram or a damaged character neither invents a sentence nor    *)
(* changes a value in one, and costs only the lines it touches: the others *)
(* of the datagram still come through.  Only a sentence that is both       *)
(* damaged and cut may pass for a shorter one.                             *)
SentencesIntact ==
  \A h \in handled :
    LET d      == h.datagram
        lines  == DOMAIN d.reports
        given  == {Undated(data) : data \in ToSet(h.heard)}
        intact == {i \in lines : Supported(d.reports[i]) /\ ~Touched(d, i) /\ ~Truncated(d, i)}
    IN  /\ \/ given \subseteq {Meant(d.reports[i], d.sent) : i \in lines}
           \/ \E i \in lines : Touched(d, i) /\ Truncated(d, i)
        /\ Done(h) => {Meant(d.reports[i], d.sent) : i \in intact} \subseteq given

(* A time reference is the receiver's UTC time when the host handles the   *)
(* sentence on the receiver's date; otherwise it is off by exactly one     *)
(* day, towards the host's date.  A sentence without a time gives none.    *)
DatedByHost ==
  \A h \in handled : \A data \in ToSet(h.heard) :
    Timed(data) /\ data.utc # {} =>
      LET sent == h.datagram.sent
          sentDay == Midnight(sent)  hostDay == Midnight(h.host)
          ref == ToRosTime(data.utc)
      IN  ref = CASE hostDay = sentDay -> sent
                  [] hostDay > sentDay -> sent + Day
                  [] hostDay < sentDay -> sent - Day
=============================================================================
