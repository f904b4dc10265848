----------------------------- MODULE MCNmeaLink -----------------------------
(* Reports of every type with their meaning, full and with fields missing or *)
(* absent, in datagrams of one to three sentences, among them a talker and a *)
(* type that the driver does not know; midnight is in the middle of the run. *)
EXTENDS NmeaLink

NumberText(n, width) ==
  [i \in 1 .. width |-> 48 + ((n \div 10^(width - i)) % 10)]
Decimal(n, width) == NumberText(n \div 10, width) \o <<Dot>> \o NumberText(n, 1)

Empty == <<>>
Report(talker, type, fields, data) ==
  [talker |-> talker, type |-> type, fields |-> fields, data |-> data]

Fixed ==
  Report(Talkers.GP, Types.GGA,
         <<Time, NumberText(12, 2) \o Decimal(345, 2), <<83>>,
           NumberText(123, 3) \o Decimal(78, 2), <<87>>, NumberText(4, 1), NumberText(12, 2),
           Decimal(7, 1), Decimal(1013, 3), <<77>>, <<Minus>> \o Decimal(25, 1), <<77>>,
           Empty, Empty>>,
         [type |-> "GGA", utc |-> {}, lat |-> {-(12 * 600 + 345)}, lon |-> {-(123 * 600 + 78)},
          fix_type |-> 4, num_satellites |-> 12, hdop |-> {7},
          altitude |-> {1013}, mean_sea_level |-> {-25}])

NoFix ==
  Report(Talkers.GN, Types.GGA, <<Empty, Empty, Empty, Empty, Empty, NumberText(0, 1), Empty>>,
         [type |-> "GGA", utc |-> {}, lat |-> {}, lon |-> {}, fix_type |-> 0,
          num_satellites |-> 0, hdop |-> {}, altitude |-> {}, mean_sea_level |-> {}])

Moving ==
  Report(Talkers.GL, Types.RMC,
         <<Time, <<65>>, NumberText(5, 2) \o Decimal(78, 2), <<78>>,
           NumberText(9, 3) \o Decimal(0, 2), <<69>>, Decimal(15, 1), Empty>>,
         [type |-> "RMC", utc |-> {}, fix_valid |-> TRUE, lat |-> {5 * 600 + 78},
          lon |-> {9 * 600}, speed |-> {15}, course |-> {}])

Void ==
  Report(Talkers.INS, Types.RMC, <<Time, <<86>>>>,
         [type |-> "RMC", utc |-> {}, fix_valid |-> FALSE, lat |-> {}, lon |-> {},
          speed |-> {}, course |-> {}])

Track ==
  Report(Talkers.GP, Types.VTG, <<Decimal(900, 2), <<84>>, Empty, <<77>>, Decimal(31, 1), <<78>>>>,
         [type |-> "VTG", course |-> {900}, speed |-> {31}])

Noisy ==
  Report(Talkers.GN, Types.GST,
         <<Time, Decimal(6, 1), Empty, Decimal(4, 1), NumberText(9, 1), Decimal(3, 1), Empty,
           Decimal(5, 1)>>,
         [type |-> "GST", utc |-> {}, std |-> <<{6}, {}, {4}, {90}, {3}, {}, {5}>>])

North ==
  Report(Talkers.GP, Types.HDT, <<Decimal(0, 1), <<84>>>>, [type |-> "HDT", heading |-> {0}])

InView  == Report(Talkers.GP, Word(66), <<NumberText(1, 1)>>, [type |-> "GSV"])
Foreign == Report(Word(6), Types.HDT, <<Decimal(10, 1), <<84>>>>, [type |-> "HDT", heading |-> {10}])

MCDatagrams == {<<Fixed>>, <<NoFix, Void>>, <<North, Track, InView>>, <<Noisy, North>>,
                <<Foreign, Moving>>}
MCNoise     == {Star, Comma, LF, 53}
MCStart     == 2 * Day - 2
MCEnd       == 2 * Day
=============================================================================
