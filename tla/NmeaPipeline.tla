---------------------------- MODULE NmeaPipeline ----------------------------
(***************************************************************************)
(* One NMEA sentence through checksum, parser, fix assembler and output    *)
(* port (ingest_nmea_use_case.cpp, nmea_fix_assembler.cpp), to the message *)
(* it is published as and the fix the health node reads out of that        *)
(* message.  A sentence is a record of what the code tells apart in it; an *)
(* estimated position error is represented by where it came from, which is *)
(* what a consumer of the covariance depends on.                           *)
(***************************************************************************)
EXTENDS Integers, Sequences

CONSTANTS Qualities,      \* GGA quality indicators as safeInt reads them
          Readings,       \* distinct error estimates a GST can carry
          MaxSentences    \* bound on the sentences of a run

ASSUME InputsAssumption == Qualities \subseteq Int /\ MaxSentences \in Nat

VARIABLES
  useRmc,      \* config_.use_rmc
  validFix,    \* valid_fix_
  usingEpe,    \* using_receiver_epe_
  std,         \* lon_std_dev_, lat_std_dev_, alt_std_dev_, by origin
  stats,       \* IngestStatistics
  out,         \* what the last sentence published, in order
  seen,        \* sentences handled
  current,     \* observer: the last sentence
  gga, gst     \* observers: the last GGA and GST that parsed, or None

latchVars == <<validFix, usingEpe, std>>
vars      == <<useRmc, latchVars, stats, out, seen, current, gga, gst>>

Axes == {"lon", "lat", "alt"}
NaN  == <<"nan">>
Zero == <<"zero">>
FromGst(r)     == <<"gst", r>>
FromTable(row) == <<"default", row>>

TableRows == {1, 2, 4, 5, 9}

(* qualityFor: any indicator outside the table falls back to row 0. *)
RowOf(q) == IF q \in TableRows THEN q ELSE 0

StatusOf(q) == CASE RowOf(q) = 0 -> "nofix"
                 [] RowOf(q) = 1 -> "fix"
                 [] RowOf(q) = 2 -> "sbas"
                 [] OTHER        -> "gbas"
HasFix(q)   == StatusOf(q) # "nofix"

(* What parseSentence makes of a sentence.  A missing number is a NaN: the *)
(* HDOP of a GGA, the errors of a GST, the heading of an HDT; a time that  *)
(* utcTimeOfDay cannot read is one too.                                    *)
Sentences ==
  [kind : {"badsum", "unknown", "vtg"}]
    \cup [kind : {"gga"}, quality : Qualities, hdop : BOOLEAN, utc : BOOLEAN]
    \cup [kind : {"rmc"}, valid : BOOLEAN, utc : BOOLEAN]
    \cup [kind : {"gst"}, reading : Readings, missing : SUBSET Axes]
    \cup [kind : {"hdt"}, nan : BOOLEAN]

None == [kind |-> "none"]

Counters == {"published", "no_output", "checksum_failed", "unparsed"}

Init ==
  /\ useRmc \in BOOLEAN
  /\ validFix = FALSE /\ usingEpe = FALSE
  /\ std = [a \in Axes |-> NaN]
  /\ stats = [c \in Counters |-> 0]
  /\ out = <<>> /\ seen = 0
  /\ current = None /\ gga = None /\ gst = None

Topic(t)   == [topic |-> t]
TimeRef(s) == IF s.utc THEN <<Topic("time_reference")>> ELSE <<>>

(* toNavSatStatus and toNavSatCovarianceType, as publishFix applies them.  *)
ToNavSatStatus == [nofix |-> -1, fix |-> 0, sbas |-> 1, gbas |-> 2]
ApproximatedType == 1
UnknownType      == 0

Fix(status, type, cov) ==
  [topic |-> "fix", status |-> ToNavSatStatus[status], type |-> type, cov |-> cov]

GgaFix(s, sd) ==
  Fix(StatusOf(s.quality), IF HasFix(s.quality) THEN ApproximatedType ELSE UnknownType,
      [a \in Axes |-> IF s.hdop THEN sd[a] ELSE NaN])

(* RMC carries no error, and its covariance stays as it was constructed.   *)
RmcFix(s) == Fix(IF s.valid THEN "fix" ELSE "nofix", UnknownType, [a \in Axes |-> Zero])

(* The health node's reading of a fix.  std::max(east, north) is a NaN     *)
(* when the first is, and the first when only the second is.               *)
ToFixStatus(n) == CASE n = 0 -> "fix" [] n = 1 -> "sbas" [] n = 2 -> "gbas"
                    [] OTHER -> "nofix"
ToGnssFix(m) ==
  [status     |-> ToFixStatus(m.status),
   horizontal |-> IF m.type = UnknownType \/ m.cov["lon"] = NaN THEN {}
                  ELSE {m.cov["lon"], m.cov["lat"]} \ {NaN}]

Count(c) == stats' = [stats EXCEPT ![c] = @ + 1]

(* Mutant: a sentence that gives no output returns before it is counted. *)
AssembledSilent(ms) ==
  /\ out' = ms
  /\ IF ms = <<>> THEN UNCHANGED stats ELSE Count("published")

(* The assembler ran and produced the messages ms, which are published in  *)
(* order before the sentence is counted.                                   *)
Assembled(ms) ==
  /\ out' = ms
  /\ Count(IF ms = <<>> THEN "no_output" ELSE "published")

Rejected(c) == out' = <<>> /\ Count(c) /\ UNCHANGED latchVars

(* verifyChecksum fails, or parseSentence knows neither talker nor type. *)
BadChecksum(s) == s.kind = "badsum"  /\ Rejected("checksum_failed")
Unparsed(s)    == s.kind = "unknown" /\ Rejected("unparsed")

(* Mutant: once a GST came, an axis it left empty gets no default.         *)
StdForNoDefault(q) == IF usingEpe THEN std ELSE [a \in Axes |-> FromTable(RowOf(q))]

(* A default is used unless a GST supplied the axis; either way the value  *)
(* is stored back into the member.                                         *)
StdFor(q) == [a \in Axes |-> IF ~usingEpe \/ std[a] = NaN THEN FromTable(RowOf(q))
                                                          ELSE std[a]]

(* Mutant: the estimate of the first GST is kept for good. *)
OnGstFirst(s) ==
  /\ s.kind = "gst"
  /\ usingEpe' = TRUE
  /\ std' = IF usingEpe THEN std
            ELSE [a \in Axes |-> IF a \in s.missing THEN NaN ELSE FromGst(s.reading)]
  /\ Assembled(<<>>)
  /\ UNCHANGED validFix

(* Mutant: a fix, once seen, is never withdrawn. *)
OnGgaSticky(s) ==
  /\ s.kind = "gga" /\ ~useRmc
  /\ validFix' = (validFix \/ HasFix(s.quality))
  /\ std' = StdFor(s.quality)
  /\ Assembled(<<GgaFix(s, std')>> \o TimeRef(s))
  /\ UNCHANGED usingEpe

OnGga(s) ==
  /\ s.kind = "gga" /\ ~useRmc
  /\ validFix' = HasFix(s.quality)
  /\ std' = StdFor(s.quality)
  /\ Assembled(<<GgaFix(s, std')>> \o TimeRef(s))
  /\ UNCHANGED usingEpe

OnVtg(s) ==
  /\ s.kind = "vtg" /\ ~useRmc
  /\ Assembled(IF validFix THEN <<Topic("velocity")>> ELSE <<>>)
  /\ UNCHANGED latchVars

(* With use_rmc set, GGA and VTG are dropped by update() itself. *)
Dropped(s) ==
  /\ s.kind \in {"gga", "vtg"} /\ useRmc
  /\ Assembled(<<>>)
  /\ UNCHANGED latchVars

OnRmc(s) ==
  /\ s.kind = "rmc"
  /\ Assembled((IF useRmc THEN <<RmcFix(s)>> \o TimeRef(s) ELSE <<>>)
                 \o (IF s.valid THEN <<Topic("velocity")>> ELSE <<>>))
  /\ UNCHANGED latchVars

OnGst(s) ==
  /\ s.kind = "gst"
  /\ usingEpe' = TRUE
  /\ std' = [a \in Axes |-> IF a \in s.missing THEN NaN ELSE FromGst(s.reading)]
  /\ Assembled(<<>>)
  /\ UNCHANGED validFix

OnHdt(s) ==
  /\ s.kind = "hdt"
  /\ Assembled(IF s.nan THEN <<>> ELSE <<Topic("heading")>>)
  /\ UNCHANGED latchVars

(* onSentence *)
OnSentence(s) ==
  /\ seen < MaxSentences /\ seen' = seen + 1
  /\ current' = s
  /\ gga' = IF s.kind = "gga" THEN s ELSE gga
  /\ gst' = IF s.kind = "gst" THEN s ELSE gst
  /\ UNCHANGED useRmc
  /\ \/ BadChecksum(s) \/ Unparsed(s)
     \/ OnGga(s) \/ OnVtg(s) \/ Dropped(s) \/ OnRmc(s) \/ OnGst(s) \/ OnHdt(s)

Next == \E s \in Sentences : OnSentence(s)

Spec == Init /\ [][Next]_vars

-----------------------------------------------------------------------------
(* Every sentence is counted exactly once, in the counter of what became   *)
(* of it, over the early returns of onSentence.                            *)
CountedOnce ==
  stats["published"] + stats["no_output"] + stats["checksum_failed"] + stats["unparsed"] = seen

(* "Only report VTG velocity once a GGA sentence has confirmed a fix"      *)
(* (nmea_fix_assembler.cpp:145): a VTG yields velocity exactly when the    *)
(* last GGA had a fix, however other sentences came in between; an RMC     *)
(* yields one by its own flag; with useRMC a VTG never does.               *)
VelocityConfirmed ==
  (\E i \in DOMAIN out : out[i].topic = "velocity") <=>
    \/ current.kind = "rmc" /\ current.valid
    \/ current.kind = "vtg" /\ ~useRmc /\ gga # None /\ HasFix(gga.quality)

(* The fixes of a GGA with an HDOP, whose covariance says something.       *)
RatedFixes == {i \in DOMAIN out : out[i].topic = "fix" /\ ~useRmc /\ gga.hdop}

(* A fix carries the error the latest GST gave for an axis; before any     *)
(* GST, it carries the default of its own quality.  (What happens on an    *)
(* axis the latest GST left empty is EpeMatchesQuality.)                   *)
EpeProvenance ==
  \A i \in RatedFixes, a \in Axes :
    /\ gst = None => out[i].cov[a] = FromTable(RowOf(gga.quality))
    /\ gst # None /\ a \notin gst.missing => out[i].cov[a] = FromGst(gst.reading)

(* What the health node reads out of a fix is what the receiver said: the  *)
(* status of the GGA's indicator or the RMC's flag; and an error           *)
(* unknown exactly when there is no fix, no HDOP, or only an RMC.  In      *)
(* particular an empty field of a GST never blinds the health node.        *)
HealthSeesFix ==
  \A i \in DOMAIN out : out[i].topic = "fix" =>
    LET fix == ToGnssFix(out[i])
    IN  IF useRmc THEN /\ (fix.status # "nofix") <=> current.valid
                       /\ fix.horizontal = {}
        ELSE /\ fix.status = StatusOf(current.quality)
             /\ fix.horizontal = {} <=> ~current.hdop \/ fix.status = "nofix"

(* "Use the receiver's own error estimate when a GST sentence supplied     *)
(* one, otherwise the configured default for this fix quality"             *)
(* (nmea_fix_assembler.cpp:112): a default in a fix is that of the fix's   *)
(* own quality.                                                            *)
EpeMatchesQuality ==
  \A i \in RatedFixes, a \in Axes :
    out[i].cov[a] \in {FromGst(r) : r \in Readings} \cup {FromTable(RowOf(gga.quality))}
=============================================================================
