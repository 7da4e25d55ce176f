----------------------------- MODULE JsonOutput ------------------------------
(***************************************************************************)
(* What a run with -j prints: Session, with the output its handlers make   *)
(* (src/src/rscp_handler.cpp) by jsonStart, jsonField, jsonEnd and the     *)
(* buffer of the module dump (src/src/output.cpp).                         *)
(*                                                                         *)
(* Standard output is a sequence of tokens, of which only the state of a   *)
(* reader is kept that expects one JSON object on each line.  A token is a *)
(* bracket, a comma, the end of a line, a member ("key":1), a key whose    *)
(* value follows ("key":), or text that is no JSON.                        *)
(***************************************************************************)
EXTENDS Session

CONSTANT
  Oddities       \* the values that -r and -m meet which do not get an object or a
                 \* field as the others do, a subset of OddityKinds

OddityKinds == {"member",  \* -r of the serial number, the production date or the
                           \* release: a member as with --info, but in no object
                "text",    \* -r of the reserve, of history data, and of a 64-bit value,
                           \* a container, a byte array or a timestamp: text
                "open",    \* -r -q of a type without a case: an object left open
                "pvi",     \* a value of PVI other than Float32: text
                "element"} \* an element of a dump that is a container other than
                           \* DCB_INFO or of a type without a case: text

ASSUME OdditiesAssumption == Oddities \subseteq OddityKinds

\* The command lines that print text whatever they meet are left out: the controls,
\* a battery value outside of a dump, PVI in quiet mode, --info beside a query that
\* has an object of its own, and --raw.  So is a DCB_INFO on the top level.
InJson(c) ==
  /\ c.json
  /\ c.others \cap Controls = {}
  /\ c.read = "bat" => c.dump
  /\ c.read = "pvi" => ~c.quiet
  /\ "info" \in c.others => c.read \in {"none", "bat"} /\ "history" \notin c.others

ASSUME JsonAssumption == /\ \A c \in Commands : InJson(c)
                         /\ "toplevel" \notin Faults

VARIABLES
  g_jsonFirstField,
  g_jsonModuleDump,
  line,              \* the reader's state
  odd,               \* history: one of Oddities was printed
  late               \* history: an answer was not waited for

jsonVars == <<g_jsonFirstField, g_jsonModuleDump, line, odd>>
allVars  == <<vars, jsonVars, late>>

-----------------------------------------------------------------------------
(* The reader *)

\* The brackets open on this line, the inmost first, and what was read last.
Line(open, last) == [open |-> open, last |-> last]

StartOfLine == Line(<<>>, "start")
NoJson      == Line(<<>>, "wrong")

Inside(l, bracket) == l.open # <<>> /\ Head(l.open) = bracket

\* A value may stand at the start of the line, behind its key and in an array.
TakesValue(l) == \/ l = StartOfLine
                 \/ l.last = "key"
                 \/ Inside(l, "[") /\ l.last \in {"open", "comma"}
TakesMember(l) == Inside(l, "{") /\ l.last \in {"open", "comma"}
TakesEnd(l, bracket) == Inside(l, bracket) /\ l.last \in {"open", "value"}

Closed(l) == Line(Tail(l.open), IF Tail(l.open) = <<>> THEN "end" ELSE "value")

Read(l, token) ==
  CASE token \in {"{", "["} /\ TakesValue(l)         -> Line(<<token>> \o l.open, "open")
    [] token = "}" /\ TakesEnd(l, "{")               -> Closed(l)
    [] token = "]" /\ TakesEnd(l, "[")               -> Closed(l)
    [] token = "," /\ l.open # <<>> /\ l.last = "value" -> Line(l.open, "comma")
    [] token = "member" /\ TakesMember(l)            -> Line(l.open, "value")
    [] token = "key" /\ TakesMember(l)               -> Line(l.open, "key")
    [] token = "newline" /\ l.last = "end"           -> StartOfLine
    [] OTHER                                         -> NoJson

ReadAll(l, tokens) ==
  LET upTo[k \in Nat] == IF k = 0 THEN l ELSE Read(upTo[k - 1], tokens[k])
  IN upTo[Len(tokens)]

-----------------------------------------------------------------------------
(* jsonStart, jsonField, jsonEnd, on the pair of g_jsonFirstField and line *)

Output(first, l) == [first |-> first, line |-> l]

jsonStart(o) == Output(TRUE, Read(o.line, "{"))
jsonEnd(o)   == Output(TRUE, ReadAll(o.line, <<"}", "newline">>))

jsonField(o) ==
  Output(FALSE, ReadAll(o.line, IF o.first THEN <<"member">> ELSE <<",", "member">>))

jsonFields(o, n) ==
  LET after[k \in Nat] == IF k = 0 THEN o ELSE jsonField(after[k - 1])
  IN after[n]

Object(o, n) == jsonEnd(jsonFields(jsonStart(o), n))

\* printf of something else.
Text(o) == Output(o.first, Read(o.line, "text"))

-----------------------------------------------------------------------------
(* JsonModuleDumpBuffer.  A field of the module is told by what it came    *)
(* with, a field of a DCB only counts.                                     *)

EmptyBuffer == [fields |-> <<>>, dcbs |-> <<>>, currentDcbIdx |-> -1]

addFields(b, keys) == [b EXCEPT !.fields = @ \o keys]

\* Slip: currentDcbIdx is set behind the push.
startDcbBehind(b, index) ==
  [b EXCEPT !.dcbs = Append(@, [index |-> index, fields |-> 1]),
            !.currentDcbIdx = Len(b.dcbs) + 1]

\* The index is the first field.
startDcb(b, index) ==
  [b EXCEPT !.dcbs = Append(@, [index |-> index, fields |-> 1]),
            !.currentDcbIdx = Len(b.dcbs)]

addDcbField(b) ==
  IF b.currentDcbIdx \notin 0..Len(b.dcbs) - 1 THEN b
  ELSE [b EXCEPT !.dcbs[b.currentDcbIdx + 1].fields = @ + 1]

\* Parts, each with its tokens, and commas between them.
Listed(parts) ==
  LET upTo[k \in 0..Len(parts)] == CASE k = 0 -> <<>>
                                     [] k = 1 -> parts[1]
                                     [] OTHER -> upTo[k - 1] \o <<",">> \o parts[k]
  IN upTo[Len(parts)]

Members(n)     == Listed([k \in 1..n |-> <<"member">>])
DcbTokens(dcb) == <<"{">> \o Members(dcb.fields) \o <<"}">>
DcbList(entries) == <<"key", "[">> \o Listed([d \in 1..Len(entries) |-> DcbTokens(entries[d])]) \o <<"]">>

\* Slip: the comma before "dcbs" does not depend on the fields.
outputAlwaysComma(b) ==
  <<"{", "member", ",", "key", "{">>
    \o Members(Len(b.fields))
    \o (IF b.dcbs = <<>> THEN <<>> ELSE <<",">> \o DcbList(b.dcbs))
    \o <<"}", "}", "newline">>

output(b) ==
  <<"{", "member", ",", "key", "{">>
    \o Members(Len(b.fields))
    \o (IF b.dcbs = <<>> \/ b.fields = <<>> THEN <<>> ELSE <<",">>)
    \o (IF b.dcbs = <<>> THEN <<>> ELSE DcbList(b.dcbs))
    \o <<"}", "}", "newline">>

-----------------------------------------------------------------------------
(* handleResponseValue *)

Silent == UNCHANGED jsonVars

Printed == Output(g_jsonFirstField, line)
Prints(o) ==
  g_jsonFirstField' = o.first /\ line' = o.line /\ UNCHANGED <<g_jsonModuleDump, odd>>

\* TAG_EMS_POWER_*: tag, name, value and unit.
PrintPower == Prints(Object(Printed, 4))

\* Values without an object of their own.
Odd(kind, o) == CASE kind = "member" -> jsonField(o)
                  [] kind = "open"   -> jsonField(jsonStart(o))
                  [] OTHER           -> Text(o)

PrintOdd(kinds) ==
  /\ \E kind \in Oddities \cap kinds : /\ g_jsonFirstField' = Odd(kind, Printed).first
                                      /\ line' = Odd(kind, Printed).line
  /\ odd' = TRUE
  /\ UNCHANGED g_jsonModuleDump

\* The default case, of the types that close their object: tag, type and value,
\* and the description if there is one.
PrintTag == \/ \E n \in {3, 4} : Prints(Object(Printed, n))
            \/ PrintOdd({"member", "text", "open"})

\* Four fields, and those of the sum of the period, if it came.
PrintHistory == \E n \in {4, 10, 11} : Prints(Object(Printed, n))

\* The serial number, the date, the release, as far as they came: fields of the
\* object that processReceiveBuffer opens.
PrintInfo == \E n \in 0..3 : Prints(jsonFields(Printed, n))

\* One of them only, see InJson.
PrintPlain ==
  \/ cmd.read = "plain" /\ (PrintPower \/ PrintTag)
  \/ "history" \in cmd.others /\ PrintHistory
  \/ "info" \in cmd.others /\ PrintInfo

\* An element of Float32, if the answer holds it.
PrintPvi(v) == IF v.found THEN Prints(Object(Printed, 2)) \/ PrintOdd({"pvi"})
               ELSE Silent

\* Slip: the buffer starts anew with every answer.
StartsAnewAlways == cmd.dump /\ cmd.json

StartsAnew == cmd.dump /\ cmd.json /\ g_ctx.isFirstModuleDumpRequest

\* The fields an answer brings: a value read along, or those of the module in
\* the order they were asked for, the number of DCBs being the last one.  An
\* error element hides what is behind it: in answers about the module all fields
\* or some, in those about a DCB, which come once the dump has begun, none.
FieldsOf(v) ==
  CASE v.found         -> {<<"read">>}
    [] v.count # None  -> {<<"battery", "count">>}
    [] v.err /\ g_ctx.isFirstModuleDumpRequest -> {<<>>, <<"battery">>}
    [] OTHER           -> {<<>>}

\* An entry only for a DCB of which there are fields; those of types that are not
\* known are left out of it.
WithDcb(b, v) ==
  IF Holds(v) THEN {startDcb(b, v.dcb), addDcbField(startDcb(b, v.dcb))} ELSE {b}

CollectBat(v) ==
  LET before == IF StartsAnew THEN EmptyBuffer ELSE g_jsonModuleDump
  IN /\ IF cmd.dump
        THEN \E keys \in FieldsOf(v) :
               g_jsonModuleDump' \in WithDcb(addFields(before, keys), v)
        ELSE UNCHANGED g_jsonModuleDump
     /\ \/ UNCHANGED <<line, odd>>
        \/ /\ "element" \in Oddities /\ ~cmd.quiet
           /\ line' = Text(Printed).line /\ odd' = TRUE
     /\ UNCHANGED g_jsonFirstField

HandleAndPrint ==
  \E v \in {values[k] : k \in DOMAIN values} :
    \/ (Authenticated(v) \/ Refused(v)) /\ Silent
    \/ PrintOnly(v) /\ v.tag = "ERROR" /\ Silent
    \/ PrintOnly(v) /\ v.tag = "PLAIN" /\ PrintPlain
    \/ PviData(v) /\ PrintPvi(v)
    \/ (BatError(v) \/ BatPlain(v) \/ BatDcb(v) \/ BatRetry(v) \/ BatSkip(v)) /\ CollectBat(v)

-----------------------------------------------------------------------------
(* processReceiveBuffer and mainLoop *)

Wrapped == "info" \in cmd.others /\ cmd.json

OpenFrame  == IF Wrapped THEN Prints(jsonStart(Printed)) ELSE Silent
CloseFrame == IF Wrapped THEN Prints(jsonEnd(Printed)) ELSE Silent

PrintDump ==
  IF cmd.dump /\ cmd.json
  THEN /\ line' = ReadAll(line, output(g_jsonModuleDump))
       /\ UNCHANGED <<g_jsonFirstField, g_jsonModuleDump, odd>>
  ELSE Silent

NotWaitedFor == late' = (late \/ toDevice # <<>> \/ toClient # <<>>)

JsonInit ==
  /\ Init
  /\ g_jsonFirstField = TRUE /\ g_jsonModuleDump = EmptyBuffer
  /\ line = StartOfLine /\ odd = FALSE /\ late = FALSE

JsonNext ==
  \/ ReceiveFrame   /\ OpenFrame  /\ UNCHANGED late
  \/ HandleAndPrint               /\ UNCHANGED late
  \/ FrameHandled   /\ CloseFrame /\ UNCHANGED late
  \/ Finish         /\ PrintDump  /\ UNCHANGED late
  \/ ReceiveTimesOut /\ Silent /\ NotWaitedFor
  \/ /\ \/ StopOnInterrupt \/ SendAuthentication \/ SendCommand \/ SendFails
        \/ ReceiveFails \/ Interrupt \/ InterruptReceive
        \/ WatchPause \/ NextRound \/ DeviceStep \/ Terminated
     /\ Silent /\ UNCHANGED late

JsonSpec == JsonInit /\ [][JsonNext]_allVars

-----------------------------------------------------------------------------
(* Properties *)

\* The buffer and, until one of Oddities is printed, the reader's state keep to
\* their types; currentDcbIdx is that of the DCB whose fields come, so that none of
\* them is dropped.
JsonTypeOK ==
  /\ odd \in BOOLEAN /\ late \in BOOLEAN
  /\ ~odd => /\ g_jsonFirstField \in BOOLEAN
             /\ line.open \in Seq({"{", "["}) /\ Len(line.open) <= 4
  /\ g_jsonModuleDump.fields \in Seq({"read", "battery", "count"})
  /\ \A d \in DOMAIN g_jsonModuleDump.dcbs : g_jsonModuleDump.dcbs[d].index \in 0..127
  /\ g_jsonModuleDump.currentDcbIdx = Len(g_jsonModuleDump.dcbs) - 1

\* Until one of Oddities is printed, every line printed with -j is one JSON object,
\* and it is finished whenever the program waits for the station or ends (but by
\* exit when it is refused), in whatever order answers come, are late, are errors or
\* hold nothing: the commas of jsonField and of JsonModuleDumpBuffer::output.
OneObjectPerLine ==
  ~odd => /\ line # NoJson
          /\ pc \notin {"values", "exit"} => line = StartOfLine

Entries  == DOMAIN g_jsonModuleDump.dcbs
Entry(d) == g_jsonModuleDump.dcbs[d].index

\* With answers in time the document of a dump holds one entry, in the order of the
\* DCBs, of each DCB it was told of that was not skipped with a warning and whose
\* answer held fields of it (without a tag of the battery read along, which is
\* counted as an attempt).  It holds the module's fields once; if the count was 0,
\* or the answer with it was lost, an error or empty, there is no entry and of the
\* fields those that came, maybe none.
DumpDocument ==
  ended = "finished" /\ cmd.dump /\ cmd.read # "bat" /\ ~late =>
    /\ {Entry(d) : d \in Entries} = (0..g_ctx.totalDCBs - 1) \ (warned \cup blank)
    /\ \A d, e \in Entries : d < e => Entry(d) < Entry(e)
    /\ g_jsonModuleDump.fields \in
         {<<"battery", "count">>} \cup IF g_ctx.totalDCBs > 0 THEN {} ELSE {<<>>, <<"battery">>}
=============================================================================
