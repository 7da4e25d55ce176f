----------------------------- MODULE MCSession ------------------------------
(* Instances of Session for TLC: the command lines worth running. *)
EXTENDS Session

CommandLine == [read |-> "none", dump |-> FALSE, others |-> {},
                watch |-> FALSE, quiet |-> FALSE, json |-> FALSE]

DumpLine     == [CommandLine EXCEPT !.dump = TRUE]                  \* -m 0
JsonDumpLine == [DumpLine EXCEPT !.json = TRUE]                     \* -m 0 -j
ChargeLine   == [CommandLine EXCEPT !.others = {"charge"}]          \* -e 1000
ReadBatLine  == [CommandLine EXCEPT !.read = "bat"]                 \* -r BAT_REQ_RSOC
QuietBatLine == [ReadBatLine EXCEPT !.quiet = TRUE]                 \* -r ... -q
WatchBatLine == [QuietBatLine EXCEPT !.watch = TRUE]                \* -r ... -q -w
WatchPviLine == [WatchBatLine EXCEPT !.read = "pvi"]
WatchDumpLine == [DumpLine EXCEPT !.read = "plain", !.watch = TRUE] \* -r ... -m 0 -w

DumpLines  == {DumpLine, JsonDumpLine, [DumpLine EXCEPT !.read = "plain"]}
OnceLines  == DumpLines \cup {ChargeLine, QuietBatLine,
                              [CommandLine EXCEPT !.others = {"history"}]}
WatchLines == {WatchBatLine, WatchPviLine, WatchDumpLine,
               [WatchBatLine EXCEPT !.dump = TRUE]}
AllLines   == OnceLines \cup WatchLines

OnlyDumpLine      == {DumpLine}
OnlyWatchDumpLine == {WatchDumpLine}
OnlyChargeLine    == {ChargeLine}

NoDcbAndTwo   == {0, 2}
NoDcbAndThree == {0, 3}
JustTwo       == {2}
=============================================================================
