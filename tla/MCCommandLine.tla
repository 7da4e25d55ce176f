---------------------------- MODULE MCCommandLine ----------------------------
(* Instances of CommandLine for TLC: options and configurations worth combining. *)
EXTENDS CommandLine

Flag(opt)      == Option(opt, 0, "")
Number(opt, n) == Option(opt, n, "")
Word(opt, s)   == Option(opt, 0, s)

Tags == [t \in {"none", "EMS_REQ_POWER_PV", "EMS_POWER_PV", "BAT_REQ_RSOC", "BAT_REQ_DATA",
                "PVI_REQ_ON_GRID", "PVI_REQ_DATA", "EMS_REQ_START_MANUAL_CHARGE"} |->
           CASE t = "none" -> 0
             [] t = "EMS_REQ_POWER_PV" -> 16777217         \* 0x01000001
             [] t = "EMS_POWER_PV"     -> 25165825         \* 0x01800001, a response
             [] t = "EMS_REQ_START_MANUAL_CHARGE" -> 16777359   \* 0x0100008F
             [] t = "BAT_REQ_RSOC"     -> 50331649         \* 0x03000001
             [] t = "BAT_REQ_DATA"     -> 50593792         \* 0x03040000
             [] t = "PVI_REQ_ON_GRID"  -> 33554433         \* 0x02000001
             [] t = "PVI_REQ_DATA"     -> 33816576]        \* 0x02040000

\* Powers and charges below, at and above limits of 10..50 and 1..20; -1 is what
\* atoi makes of "-1".
PowerOptions == {Number("c", 50), Number("c", 51), Number("c", 0), Number("d", 10), Number("d", 9),
                 Flag("a"), Number("e", 20), Number("e", -1), Number("E", 0), Number("E", -5),
                 Word("E", "nan")}
ReadOptions  == {Word("r", t) : t \in {"none", "EMS_REQ_POWER_PV", "EMS_POWER_PV", "PVI_REQ_ON_GRID"}}
                \cup {Word("r name", t) : t \in {"BAT_REQ_RSOC", "BAT_REQ_DATA", "EMS_REQ_START_MANUAL_CHARGE", "EMS_POWER_PV", "no such tag"}}
                \cup {Number("b", 1), Number("b", 65537), Number("m", 2), Number("m", -1)}
OtherOptions == {Flag("q"), Flag("j"), Flag("w"), Number("interval", 0), Number("interval", 7),
                 Flag("raw"), Flag("info"), Number("l", 0), Number("l", 9), Flag("?"), Flag("argument")}

\* 29 February of three years, one of them no leap year; a Sunday and the days around
\* the change of the clocks in 2024; a year that only the last check refuses.
Dates == {20240229, 20230229, 19000229, 20240331, 20240401, 20241027, 20241231, 20230615, 18991231}
PeriodOptions == {Word("H", t) : t \in HistoryTypes \cup {"hour"}}
                 \cup {Option("D", n, "date") : n \in Dates}
                 \cup {Word("D", "today"), Word("D", "malformed")}

AllOptions == PowerOptions \cup ReadOptions \cup OtherOptions \cup PeriodOptions

Moment(y, m, d, isdst) == [year |-> y, month |-> m, day |-> d, isdst |-> isdst]

\* A day of summer, a day of winter, and the day of the change, late.
AllMoments == {Moment(2024, 7, 15, 1), Moment(2025, 1, 5, 0), Moment(2024, 3, 31, 1)}

File == [field \in Numbers \cup Credentials \cup {"server_ip", "E3DC_USER", "E3DC_PASSWORD", "E3DC_AES_PASSWORD"} |->
           CASE field = "MIN_LEISTUNG" -> 10 [] field = "MAX_LEISTUNG" -> 50
             [] field = "MIN_LADUNGSMENGE" -> 1 [] field = "MAX_LADUNGSMENGE" -> 20
             [] field = "server_port" -> 503 [] field = "timeout_seconds" -> 10
             [] field = "max_retries" -> 3 [] field = "server_ip" -> 11
             [] field \in Credentials -> 12 [] OTHER -> 0]

\* The file alone, with no lower limit, with the longest credentials, one of them from
\* the environment, with one that is too long, with one missing.
AllFiles == {File, [File EXCEPT !["MIN_LEISTUNG"] = 0],
             [File EXCEPT !["e3dc_user"] = 127, !["E3DC_PASSWORD"] = 127],
             [File EXCEPT !["e3dc_password"] = 128], [File EXCEPT !["aes_password"] = 0]}

FirstAndLast == {0, 255}
=============================================================================
