------------------------------- MODULE Command -------------------------------
(***************************************************************************)
(* What a run of e3dcset is asked to do: the fields of CommandContext      *)
(* (src/include/config.h) that the session looks at, and the combinations  *)
(* of them that are let through.  Shared by Session, whose inputs they     *)
(* are, and CommandLine, which shows that main lets nothing else through.  *)
(***************************************************************************)

\* The parts of a request that are one plain tag or container each.
Controls == {"charge", "power", "reserve"}
Others   == Controls \cup {"history", "info"}

CommandType == [read: {"none", "plain", "bat", "pvi"}, dump: BOOLEAN,
                others: SUBSET Others,
                watch: BOOLEAN, quiet: BOOLEAN, json: BOOLEAN]

\* What checkArgumentsEarly lets through (src/src/config.cpp).
Accepted(c) ==
  /\ c.read # "none" => c.others \cap Controls = {}
  /\ "history" \in c.others => c.others \cap Controls = {} /\ c.read = "none"
  /\ "info" \in c.others => c.others \cap Controls = {}
  /\ c.quiet \/ c.watch => c.read # "none"
  /\ c.read # "none" \/ c.dump \/ c.others # {}
=============================================================================
