---------------------------- MODULE MCJsonOutput -----------------------------
(* Instances of JsonOutput for TLC: the command lines with -j worth running. *)
EXTENDS JsonOutput

CommandLine == [read |-> "none", dump |-> FALSE, others |-> {},
                watch |-> FALSE, quiet |-> FALSE, json |-> TRUE]

DumpLine == [CommandLine EXCEPT !.dump = TRUE]                      \* -m 0 -j
ReadLine == [CommandLine EXCEPT !.read = "plain", !.watch = TRUE]   \* -r EMS_REQ_POWER_PV -w -j
PviLine  == [ReadLine EXCEPT !.read = "pvi", !.watch = FALSE]       \* -r PVI_REQ_ON_GRID -j

JsonLines == {DumpLine, ReadLine, PviLine,
              [CommandLine EXCEPT !.others = {"info"}],             \* --info -j
              [CommandLine EXCEPT !.others = {"history"}],          \* -H day -j
              [DumpLine EXCEPT !.others = {"info"}],
              [DumpLine EXCEPT !.read = "plain"],
              [DumpLine EXCEPT !.read = "bat"]}

NoDcbAndThree == {0, 3}
=============================================================================
