------------------------------ MODULE Session -------------------------------
(***************************************************************************)
(* One run of e3dcset against the home power station, from the connected   *)
(* socket to the end of main(): mainLoop with its receiveLoop, the request *)
(* that createRequestExample builds and the state changes of               *)
(* handleResponseValue (src/src/rscp_handler.cpp).                         *)
(*                                                                         *)
(* A frame is one message.  TCP delivers the messages of either direction  *)
(* in order; the device may take its time, may answer with errors and may  *)
(* leave a request unanswered.  How frames are cut out of the byte stream  *)
(* is not this module's subject.                                           *)
(***************************************************************************)
EXTENDS Integers, Sequences, Command

CONSTANTS
  Commands,      \* the command lines explored: accepted CommandContexts
  Batteries,     \* the numbers of DCBs (TAG_BAT_DCB_COUNT) explored
  MaxRetries,    \* e3dc_config.max_retries
  Faults,        \* how the device may misbehave, a subset of FaultKinds
  MaxInFlight    \* bound: a receive may time out only while fewer messages
                 \* than this are under way (1: no answer is ever late)

FaultKinds == {"denied",   \* authentication answered with level 0
               "error",    \* an answer, or an element of it, is an error
               "nodata",   \* a container without the data asked for
               "bare",     \* the index of a DCB without any field of it
               "lost",     \* a request is never answered
               "toplevel", \* DCB_INFO outside of its BAT_DATA container
               "close"}    \* the connection breaks

ASSUME CommandsAssumption == \A c \in Commands : c \in CommandType /\ Accepted(c)
ASSUME BatteriesAssumption == Batteries \subseteq 0..255        \* uint8_t
ASSUME RetriesAssumption == MaxRetries \in Nat                  \* uint32_t
ASSUME FaultsAssumption == Faults \subseteq FaultKinds
ASSUME FlightAssumption == MaxInFlight \in Nat \ {0}

VARIABLES
  cmd,                 \* the fields of g_ctx the command line sets
  pc,                  \* where mainLoop is, see Places
  ended,               \* why bStopExecution is set; "no" while it is not
  counter,             \* mainLoop's counter; only 0 and > 0 are told apart
  iAuthenticated,
  g_ctx,               \* the fields of g_ctx the answers change
  values,              \* values of the received frame not yet handled
  g_watchInterrupted

VARIABLES
  dcbs,                \* the device: its number of DCBs
  toDevice,            \* requests on their way
  toClient             \* answers on their way

VARIABLES              \* history, read by no action
  sent,                \* command requests sent, up to 2
  attempts,            \* requests for the current DCB, up to MaxRetries
  shown,               \* DCBs of this dump printed or in the JSON buffer
  blank,               \* DCBs of this dump that came and were not shown
  warned,              \* DCBs of this dump skipped with a warning
  jsonPrinted,         \* g_jsonModuleDump.output was called
  wrongNotFound,       \* a requested value arrived and was denied
  troubled             \* a receive timed out, or an answer was bad or left out

progVars == <<pc, ended, counter, iAuthenticated, g_ctx, values, g_watchInterrupted>>
netVars  == <<toDevice, toClient>>
tallyVars == <<sent, attempts, shown, blank, warned, jsonPrinted, wrongNotFound>>
histVars == <<tallyVars, troubled>>
vars     == <<cmd, dcbs, progVars, netVars, histVars>>

Places == {"send",     \* head of mainLoop
           "recv",     \* in receiveLoop, waiting for a frame
           "values",   \* in processReceiveBuffer
           "tail",     \* mainLoop after receiveLoop
           "done",     \* mainLoop left, main returns 0
           "exit"}     \* exit(EXIT_FAILURE)

Final == pc \in {"done", "exit"}

-----------------------------------------------------------------------------
(* Messages *)

None == -1

\* One value of an answer.  count and dcb: the DCB_COUNT and the DCB_INDEX
\* found in it; fields: fields of the DCB behind the latter; err: an error
\* element behind them; found: the single tag that was asked for is in it.
Value(tag) == [tag |-> tag, level |-> 0, count |-> None, dcb |-> None,
               fields |-> FALSE, err |-> FALSE, found |-> FALSE]

ValueType == [tag: {"AUTHENTICATION", "BAT_DATA", "PVI_DATA", "DCB_INFO", "PLAIN", "ERROR"},
              level: {0, 1}, count: {None} \cup 0..255, dcb: {None} \cup 0..255,
              fields: BOOLEAN, err: BOOLEAN, found: BOOLEAN]

RequestType == [auth: BOOLEAN, read: {"none", "plain", "bat", "pvi"},
                dump: {"none", "first", "dcb"}, index: 0..255, others: SUBSET Others]

AuthRequest == [auth |-> TRUE, read |-> "none", dump |-> "none", index |-> 0, others |-> {}]

\* createRequestExample without authentication: every selected part, in one frame.
CommandRequest ==
  [auth   |-> FALSE,
   read   |-> cmd.read,
   dump   |-> IF ~cmd.dump THEN "none"
              ELSE IF g_ctx.isFirstModuleDumpRequest THEN "first" ELSE "dcb",
   index  |-> IF cmd.dump /\ ~g_ctx.isFirstModuleDumpRequest THEN g_ctx.currentDCBIndex ELSE 0,
   others |-> cmd.others]

-----------------------------------------------------------------------------
(* The device, as the client's handlers allow for it *)

OrError(S, F) == S \cup {Value("ERROR") : f \in F \cap {"error"}}

\* A data container: with what was asked for, with an error, with neither.
Containers(good, tag, F) ==
  {good} \cup {[Value(tag) EXCEPT !.err = TRUE] : f \in F \cap {"error"}}
         \cup {Value(tag) : f \in F \cap {"nodata"}}

ReadAnswers(r, F) ==
  CASE r.read = "plain" -> OrError({Value("PLAIN")}, F)
    [] r.read = "bat"   -> OrError(Containers([Value("BAT_DATA") EXCEPT !.found = TRUE], "BAT_DATA", F), F)
    [] r.read = "pvi"   -> OrError(Containers([Value("PVI_DATA") EXCEPT !.found = TRUE], "PVI_DATA", F), F)

Index(tag, i) == [Value(tag) EXCEPT !.dcb = i]
Data(tag, i)  == [Index(tag, i) EXCEPT !.fields = TRUE]

DumpAnswers(r, F) ==
  CASE r.dump = "first" ->
         OrError(Containers([Value("BAT_DATA") EXCEPT !.count = dcbs], "BAT_DATA", F), F)
    [] r.dump = "dcb" /\ r.index < dcbs ->
         OrError(Containers(Data("BAT_DATA", r.index), "BAT_DATA", F), F)
           \cup {Index("BAT_DATA", r.index) : f \in F \cap {"bare"}}
           \cup {Data("DCB_INFO", r.index) : f \in F \cap {"toplevel"}}
    [] OTHER -> {[Value("BAT_DATA") EXCEPT !.err = TRUE]}

\* The answer to a request holds one value per part of it, in its order; one
\* value stands for all of r.others.
Part(selected, S) == IF selected THEN {<<v>> : v \in S} ELSE {<<>>}

Answers(r, F) ==
  IF r.auth
  THEN {<<v>> : v \in OrError({[Value("AUTHENTICATION") EXCEPT !.level = 1]}
                              \cup {Value("AUTHENTICATION") : f \in F \cap {"denied"}}, F)}
  ELSE {a \o b \o c : a \in Part(r.read # "none", ReadAnswers(r, F)),
                     b \in Part(r.dump # "none", DumpAnswers(r, F)),
                     c \in Part(r.others # {}, OrError({Value("PLAIN")}, F))}

DeviceAnswers(S) ==
  /\ toDevice # <<>>
  /\ \E a \in S : toClient' = Append(toClient, a)
  /\ toDevice' = Tail(toDevice)
  /\ UNCHANGED <<cmd, dcbs, progVars>>

\* History: something went wrong on the way.
InTrouble == troubled' = TRUE /\ UNCHANGED tallyVars

DeviceServes ==
  /\ toDevice # <<>>
  /\ DeviceAnswers(Answers(Head(toDevice), {}))
  /\ UNCHANGED histVars

DeviceFails ==
  /\ toDevice # <<>>
  /\ DeviceAnswers(Answers(Head(toDevice), Faults) \ Answers(Head(toDevice), {}))
  /\ InTrouble

DeviceIgnores ==
  /\ "lost" \in Faults
  /\ toDevice # <<>>
  /\ toDevice' = Tail(toDevice)
  /\ InTrouble
  /\ UNCHANGED <<cmd, dcbs, toClient, progVars>>

DeviceStep == DeviceServes \/ DeviceFails \/ DeviceIgnores

-----------------------------------------------------------------------------
(* mainLoop up to the send *)

\* Slip: the flag is looked at before the watch proper has begun only.
SeesInterruptAtFirst == cmd.watch /\ g_watchInterrupted /\ counter = 0

\* Ctrl+C is looked at here and nowhere else.
SeesInterrupt == cmd.watch /\ g_watchInterrupted

StopOnInterrupt ==
  /\ pc = "send"
  /\ SeesInterrupt
  /\ pc' = "done"
  /\ ended' = "interrupt"
  /\ UNCHANGED <<cmd, dcbs, counter, iAuthenticated, g_ctx, values, g_watchInterrupted,
                 netVars, histVars>>

Sendable == pc = "send" /\ ~SeesInterrupt

\* Slip: the PVI flag is cleared but never set.
FlagsWithoutPvi(r) ==
  [g_ctx EXCEPT !.batContainerQuery = IF r.read = "none" THEN @ \/ r.dump # "none"
                                      ELSE r.read = "bat" \/ r.dump # "none",
                !.pviContainerQuery = IF r.read = "none" THEN @ ELSE FALSE]

\* The container flags that say how the answer is to be looked through.
FlagsOf(r) ==
  [g_ctx EXCEPT !.batContainerQuery = IF r.read = "none" THEN @ \/ r.dump # "none"
                                      ELSE r.read = "bat" \/ r.dump # "none",
                !.pviContainerQuery = IF r.read = "none" THEN @ ELSE r.read = "pvi"]

AtMost(n, bound) == IF n > bound THEN bound ELSE n

SendAuthentication ==
  /\ Sendable
  /\ ~iAuthenticated
  /\ toDevice' = Append(toDevice, AuthRequest)
  /\ pc' = "recv"
  /\ UNCHANGED <<cmd, dcbs, ended, counter, iAuthenticated, g_ctx, values,
                 g_watchInterrupted, toClient, histVars>>

SendCommand ==
  /\ Sendable
  /\ iAuthenticated
  /\ toDevice' = Append(toDevice, CommandRequest)
  /\ g_ctx' = FlagsOf(CommandRequest)
  /\ pc' = "recv"
  /\ sent' = AtMost(sent + 1, 2)
  /\ attempts' = IF CommandRequest.dump = "dcb" THEN AtMost(attempts + 1, MaxRetries)
                 ELSE attempts
  /\ UNCHANGED <<cmd, dcbs, ended, counter, iAuthenticated, values, g_watchInterrupted,
                 toClient, shown, blank, warned, jsonPrinted, wrongNotFound, troubled>>

SendFails ==
  /\ "close" \in Faults
  /\ Sendable
  /\ g_ctx' = IF iAuthenticated THEN FlagsOf(CommandRequest) ELSE g_ctx
  /\ ended' = "socket"
  /\ counter' = 1
  /\ pc' = "done"
  /\ UNCHANGED <<cmd, dcbs, iAuthenticated, values, g_watchInterrupted, netVars, histVars>>

-----------------------------------------------------------------------------
(* receiveLoop *)

ReceiveFrame ==
  /\ pc = "recv"
  /\ toClient # <<>>
  /\ values' = Head(toClient)
  /\ toClient' = Tail(toClient)
  /\ pc' = "values"
  /\ UNCHANGED <<cmd, dcbs, ended, counter, iAuthenticated, g_ctx, g_watchInterrupted,
                 toDevice, histVars>>

\* All values handled.  The loop goes on while bytes of a further frame are
\* in the buffer, be it complete or not.
FrameHandled ==
  /\ pc = "values"
  /\ values = <<>>
  /\ \/ pc' = "tail"
     \/ toClient # <<>> /\ pc' = "recv"
  /\ UNCHANGED <<cmd, dcbs, ended, counter, iAuthenticated, g_ctx, values,
                 g_watchInterrupted, netVars, histVars>>

ReceiveTimesOut ==
  /\ pc = "recv"
  /\ Len(toDevice) + Len(toClient) < MaxInFlight
  /\ pc' = "tail"
  /\ InTrouble
  /\ UNCHANGED <<cmd, dcbs, ended, counter, iAuthenticated, g_ctx, values,
                 g_watchInterrupted, netVars>>

\* Closed by the peer, a socket error, or bytes that are no RSCP frame.
ReceiveFails ==
  /\ "close" \in Faults
  /\ pc = "recv"
  /\ ended' = "socket"
  /\ pc' = "tail"
  /\ UNCHANGED <<cmd, dcbs, counter, iAuthenticated, g_ctx, values,
                 g_watchInterrupted, netVars, histVars>>

\* SIGINT; its handler is installed in watch mode only and only sets the flag.
Interrupt ==
  /\ cmd.watch /\ ~g_watchInterrupted /\ ~Final
  /\ g_watchInterrupted' = TRUE
  /\ UNCHANGED <<cmd, dcbs, pc, ended, counter, iAuthenticated, g_ctx, values,
                 netVars, histVars>>

\* SIGINT while recv blocks: it returns EINTR, which is taken for a socket error.
InterruptReceive ==
  /\ cmd.watch
  /\ pc = "recv"
  /\ g_watchInterrupted' = TRUE
  /\ ended' = "socket"
  /\ pc' = "tail"
  /\ UNCHANGED <<cmd, dcbs, counter, iAuthenticated, g_ctx, values, netVars, histVars>>

-----------------------------------------------------------------------------
(* handleResponseValue: one action per way through it *)

\* The next value of the frame is v and is handled by this step.
Handles(v) == pc = "values" /\ values # <<>> /\ v = Head(values) /\ values' = Tail(values)

UnchangedByValue == UNCHANGED <<cmd, dcbs, ended, counter, g_watchInterrupted, netVars,
                                sent, jsonPrinted, troubled>>

Authenticated(v) ==
  /\ Handles(v)
  /\ v.tag = "AUTHENTICATION" /\ v.level > 0
  /\ iAuthenticated' = TRUE
  /\ UNCHANGED <<pc, g_ctx, attempts, shown, blank, warned, wrongNotFound>>
  /\ UnchangedByValue

Refused(v) ==
  /\ Handles(v)
  /\ v.tag = "AUTHENTICATION" /\ v.level = 0
  /\ pc' = "exit"
  /\ UNCHANGED <<iAuthenticated, g_ctx, attempts, shown, blank, warned, wrongNotFound>>
  /\ UnchangedByValue

\* Values that are only printed, and errors on the top level.
PrintOnly(v) ==
  /\ Handles(v)
  /\ v.tag \in {"PLAIN", "ERROR"}
  /\ UNCHANGED <<pc, iAuthenticated, g_ctx, attempts, shown, blank, warned, wrongNotFound>>
  /\ UnchangedByValue

\* In quiet mode the requested tag is looked for only while the flag is set.
Denied(v, flag) == cmd.quiet /\ v.found /\ ~flag

PviData(v) ==
  /\ Handles(v)
  /\ v.tag = "PVI_DATA"
  /\ g_ctx' = [g_ctx EXCEPT !.pviContainerQuery = FALSE]
  /\ wrongNotFound' = (wrongNotFound \/ Denied(v, g_ctx.pviContainerQuery))
  /\ UNCHANGED <<pc, iAuthenticated, attempts, shown, blank, warned>>
  /\ UnchangedByValue

(* TAG_BAT_DATA.  First the elements: DCB_COUNT starts or calls off the dump. *)

\* No walk, as at the start of the program.
Over(g) == [g EXCEPT !.needMoreDCBRequests = FALSE, !.isFirstModuleDumpRequest = TRUE]

StartsDump(v) == cmd.dump /\ v.count > 0 /\ g_ctx.isFirstModuleDumpRequest

\* The walk over n DCBs begins; it is called off; a count comes in between.
Begun(g, n) == [g EXCEPT !.totalDCBs = n, !.needMoreDCBRequests = TRUE,
                         !.currentDCBIndex = 0, !.dcbRequestRetries = 0,
                         !.isFirstModuleDumpRequest = FALSE]
CalledOff(g) == [Over(g) EXCEPT !.totalDCBs = 0]
Counted(g, n) == [g EXCEPT !.totalDCBs = n]

\* Slip: the count is stored whether or not the answer holds one.
CountTakenBlindly(v) ==
  IF StartsDump(v) THEN Begun(g_ctx, v.count) ELSE Counted(g_ctx, v.count)

CountSeen(v) ==
  IF ~cmd.dump \/ v.count = None THEN g_ctx
  ELSE IF StartsDump(v) THEN Begun(g_ctx, v.count)
  ELSE IF v.count = 0 THEN CalledOff(g_ctx)
  ELSE Counted(g_ctx, v.count)

\* The JSON buffer starts anew whenever the dump has not begun, what is on the
\* terminal counts for the dump that begins with it.
Before(v, shownOrBlank) ==
  IF StartsDump(v) \/ (cmd.dump /\ cmd.json /\ g_ctx.isFirstModuleDumpRequest) THEN {}
  ELSE shownOrBlank

\* A DCB is shown if fields of it follow its index, which is held in an int8_t:
\* from 128 on the data is not looked at.  It counts as received all the same.
Holds(v) == v.fields /\ v.dcb \in 0..127
Shows(v) == Holds(v) /\ (cmd.json \/ ~cmd.quiet)

Reports(v) == Before(v, shown) \cup IF cmd.dump /\ Shows(v) THEN {v.dcb} ELSE {}
Blanks(v)  == Before(v, blank) \cup IF cmd.dump /\ v.dcb # None /\ ~Shows(v) THEN {v.dcb} ELSE {}

BatElements(v) ==
  /\ Handles(v)
  /\ v.tag = "BAT_DATA"
  /\ shown' = Reports(v)
  /\ blank' = Blanks(v)
  /\ UNCHANGED <<pc, iAuthenticated>>
  /\ UnchangedByValue

Answered(g) == [g EXCEPT !.batContainerQuery = FALSE]

\* An error element ends the handler on the spot.
BatError(v) ==
  /\ BatElements(v)
  /\ v.err
  /\ g_ctx' = Answered(CountSeen(v))
  /\ attempts' = IF StartsDump(v) THEN 0 ELSE attempts
  /\ warned' = IF StartsDump(v) THEN {} ELSE warned
  /\ UNCHANGED wrongNotFound

\* No dump under way: a single tag was read, or the dump is over.
BatPlain(v) ==
  /\ BatElements(v)
  /\ ~v.err
  /\ ~CountSeen(v).needMoreDCBRequests
  /\ g_ctx' = Answered(CountSeen(v))
  /\ wrongNotFound' = (wrongNotFound \/ (~cmd.dump /\ Denied(v, g_ctx.batContainerQuery)))
  /\ UNCHANGED <<attempts, warned>>

Continues(v) == BatElements(v) /\ ~v.err /\ CountSeen(v).needMoreDCBRequests

NextIndex(g) == (g.currentDCBIndex + 1) % 256          \* uint8_t
NextRetry(g) == (g.dcbRequestRetries + 1) % 256        \* uint8_t

\* On to the next DCB, with all of its retries.
Advanced(g) == [g EXCEPT !.dcbRequestRetries = 0, !.currentDCBIndex = NextIndex(g)]

\* Slip: the loop ends one DCB early.
GotDcbEndsEarly(g) ==
  IF NextIndex(g) + 1 < g.totalDCBs THEN Advanced(g) ELSE Over(Advanced(g))

\* Slip: > for >=, one DCB too many is asked for.
GotDcbEndsLate(g) ==
  IF NextIndex(g) <= g.totalDCBs THEN Advanced(g) ELSE Over(Advanced(g))

\* Data of a DCB arrived; whose is not compared.
GotDcb(g) ==
  IF NextIndex(g) < g.totalDCBs THEN Advanced(g) ELSE Over(Advanced(g))

BatDcb(v) ==
  /\ Continues(v)
  /\ v.dcb # None
  /\ g_ctx' = Answered(GotDcb(CountSeen(v)))
  /\ attempts' = 0
  /\ warned' = IF StartsDump(v) THEN {} ELSE warned
  /\ UNCHANGED wrongNotFound

\* No data, and retries are left.
BatRetry(v) ==
  /\ Continues(v)
  /\ v.dcb = None
  /\ NextRetry(CountSeen(v)) < MaxRetries
  /\ g_ctx' = Answered([CountSeen(v) EXCEPT !.dcbRequestRetries = NextRetry(CountSeen(v))])
  /\ attempts' = IF StartsDump(v) THEN 0 ELSE attempts
  /\ warned' = IF StartsDump(v) THEN {} ELSE warned
  /\ UNCHANGED wrongNotFound

NoneDue(g) == [g EXCEPT !.needMoreDCBRequests = FALSE]

\* Slip: the retries of the skipped DCB are charged to the next one.
SkipKeepsRetries(g) ==
  LET h == [g EXCEPT !.currentDCBIndex = NextIndex(g), !.dcbRequestRetries = NextRetry(g)]
  IN  IF NextIndex(g) < g.totalDCBs THEN h ELSE NoneDue(h)

\* The end of the walk does not put isFirstModuleDumpRequest back.
SkipDcb(g) ==
  IF NextIndex(g) < g.totalDCBs THEN Advanced(g) ELSE NoneDue(Advanced(g))

\* No data, and the DCB is given up with a warning.
BatSkip(v) ==
  /\ Continues(v)
  /\ v.dcb = None
  /\ NextRetry(CountSeen(v)) >= MaxRetries
  /\ g_ctx' = Answered(SkipDcb(CountSeen(v)))
  /\ attempts' = 0
  /\ warned' = (IF StartsDump(v) THEN {} ELSE warned) \cup {CountSeen(v).currentDCBIndex}
  /\ UNCHANGED wrongNotFound

(* TAG_BAT_DCB_INFO on the top level *)

\* Neither a dump, nor in quiet mode: the value is passed over.
DcbInfoIgnored(v) ==
  /\ Handles(v)
  /\ v.tag = "DCB_INFO"
  /\ ~cmd.dump \/ cmd.quiet
  /\ UNCHANGED <<pc, iAuthenticated, g_ctx, attempts, shown, blank, warned, wrongNotFound>>
  /\ UnchangedByValue

\* Printed as text even where JSON is asked for; the retries are not reset.
DcbInfo(v) ==
  /\ Handles(v)
  /\ v.tag = "DCB_INFO"
  /\ cmd.dump /\ ~cmd.quiet
  /\ shown' = IF ~cmd.json /\ Holds(v) THEN shown \cup {v.dcb} ELSE shown
  /\ blank' = IF v.dcb = None \/ (~cmd.json /\ Holds(v)) THEN blank ELSE blank \cup {v.dcb}
  /\ g_ctx' = IF g_ctx.needMoreDCBRequests
              THEN [GotDcb(g_ctx) EXCEPT !.dcbRequestRetries = g_ctx.dcbRequestRetries]
              ELSE g_ctx
  /\ attempts' = IF g_ctx.needMoreDCBRequests THEN 0 ELSE attempts
  /\ UNCHANGED <<pc, iAuthenticated, warned, wrongNotFound>>
  /\ UnchangedByValue

HandleResponseValue ==
  \E v \in {values[k] : k \in DOMAIN values} :
    \/ Authenticated(v) \/ Refused(v) \/ PrintOnly(v) \/ PviData(v)
    \/ BatError(v) \/ BatPlain(v) \/ BatDcb(v) \/ BatRetry(v) \/ BatSkip(v)
    \/ DcbInfoIgnored(v) \/ DcbInfo(v)

-----------------------------------------------------------------------------
(* mainLoop after receiveLoop *)

\* Slip: whether the run is finished is asked before whether it is a watch.
WatchingUnfinished == cmd.watch /\ counter > 0 /\ g_ctx.needMoreDCBRequests

Watching == cmd.watch /\ counter > 0

WatchPause ==
  /\ pc = "tail"
  /\ Watching
  /\ pc' = IF ended = "no" THEN "send" ELSE "done"
  /\ UNCHANGED <<cmd, dcbs, ended, counter, iAuthenticated, g_ctx, values,
                 g_watchInterrupted, netVars, histVars>>

\* The second and every later pass ends the loop unless a DCB is still due.
Finish ==
  /\ pc = "tail"
  /\ ~Watching
  /\ counter > 0 /\ ~g_ctx.needMoreDCBRequests
  /\ ended' = IF ended = "no" THEN "finished" ELSE ended
  /\ jsonPrinted' = (jsonPrinted \/ (cmd.dump /\ cmd.json))
  /\ pc' = "done"
  /\ UNCHANGED <<cmd, dcbs, counter, iAuthenticated, g_ctx, values, g_watchInterrupted,
                 netVars, sent, attempts, shown, blank, warned, wrongNotFound, troubled>>

\* Slip: a further round is made although nothing is due.
NextRoundAnyway ==
  /\ pc = "tail"
  /\ ~Watching
  /\ counter' = 1
  /\ pc' = IF ended = "no" THEN "send" ELSE "done"
  /\ UNCHANGED <<cmd, dcbs, ended, iAuthenticated, g_ctx, values, g_watchInterrupted,
                 netVars, histVars>>

NextRound ==
  /\ pc = "tail"
  /\ ~Watching
  /\ counter = 0 \/ g_ctx.needMoreDCBRequests
  /\ counter' = 1
  /\ pc' = IF ended = "no" THEN "send" ELSE "done"
  /\ UNCHANGED <<cmd, dcbs, ended, iAuthenticated, g_ctx, values, g_watchInterrupted,
                 netVars, histVars>>

\* The program has ended.
Terminated == Final /\ UNCHANGED vars

-----------------------------------------------------------------------------
(* The whole *)

InitialContext == [needMoreDCBRequests |-> FALSE, currentDCBIndex |-> 0, totalDCBs |-> 0,
                   isFirstModuleDumpRequest |-> TRUE, dcbRequestRetries |-> 0,
                   batContainerQuery |-> FALSE, pviContainerQuery |-> FALSE]

ContextType == [needMoreDCBRequests: BOOLEAN, currentDCBIndex: 0..255, totalDCBs: 0..255,
                isFirstModuleDumpRequest: BOOLEAN, dcbRequestRetries: 0..255,
                batContainerQuery: BOOLEAN, pviContainerQuery: BOOLEAN]

Init ==
  /\ cmd \in Commands
  /\ dcbs \in Batteries
  /\ pc = "send" /\ ended = "no" /\ counter = 0
  /\ iAuthenticated = FALSE
  /\ g_ctx = InitialContext
  /\ values = <<>>
  /\ g_watchInterrupted = FALSE
  /\ toDevice = <<>> /\ toClient = <<>>
  /\ sent = 0 /\ attempts = 0 /\ shown = {} /\ blank = {} /\ warned = {}
  /\ jsonPrinted = FALSE /\ wrongNotFound = FALSE /\ troubled = FALSE

Program == \/ StopOnInterrupt \/ SendAuthentication \/ SendCommand
           \/ ReceiveFrame \/ HandleResponseValue \/ FrameHandled
           \/ WatchPause \/ Finish \/ NextRound

Environment == \/ DeviceStep \/ ReceiveTimesOut \/ SendFails \/ ReceiveFails
               \/ Interrupt \/ InterruptReceive

Next == Program \/ Environment \/ Terminated

Spec == Init /\ [][Next]_vars

(* The program always takes its next step, a blocked receive returns (with
   SO_RCVTIMEO, when nothing arrives) and a request that reached the device
   is answered or dropped. *)
Fairness == /\ WF_vars(Program)
            /\ WF_vars(ReceiveTimesOut)
            /\ WF_vars(DeviceStep)

FairSpec == Spec /\ Fairness

-----------------------------------------------------------------------------
(* Properties *)

\* Every variable keeps to its values; the uint8_t fields of g_ctx to theirs.
TypeOK ==
  /\ cmd \in Commands /\ dcbs \in Batteries
  /\ pc \in Places /\ ended \in {"no", "finished", "interrupt", "socket"}
  /\ counter \in {0, 1} /\ iAuthenticated \in BOOLEAN
  /\ g_ctx \in ContextType
  /\ values \in Seq(ValueType)
  /\ g_watchInterrupted \in BOOLEAN
  /\ toDevice \in Seq(RequestType) /\ toClient \in Seq(Seq(ValueType))
  /\ sent \in 0..2 /\ attempts \in 0..MaxRetries
  /\ shown \subseteq 0..127 /\ blank \subseteq 0..255 /\ warned \subseteq 0..255
  /\ jsonPrinted \in BOOLEAN /\ wrongNotFound \in BOOLEAN /\ troubled \in BOOLEAN

\* While DCBs are due, the one to ask for exists, so that its uint8_t index does not
\* wrap around, and retries of it are left.  The latter with max_retries in 1..255
\* only: with 0 there are none, and from 256 on the uint8_t of the retries wraps
\* around and no DCB is ever given up.
DumpInRange ==
  g_ctx.needMoreDCBRequests =>
    /\ cmd.dump /\ ~g_ctx.isFirstModuleDumpRequest
    /\ g_ctx.totalDCBs = dcbs
    /\ g_ctx.currentDCBIndex < g_ctx.totalDCBs
    /\ MaxRetries \in 1..255 => g_ctx.dcbRequestRetries < MaxRetries

\* No request names a DCB the battery does not have.
RequestInRange ==
  \A k \in DOMAIN toDevice : toDevice[k].dump = "dcb" => toDevice[k].index < dcbs

\* That holds for a run that dumps once, outside of watch mode.
OnceRequestInRange == ~cmd.watch => RequestInRange

\* Outside of watch mode and without a dump, the station is sent the command
\* (start charging, set the reserve, ...) at most once, timeouts or not.
CommandSentOnce == ~cmd.watch /\ ~cmd.dump => sent <= 1

\* A run that has logged in and ends of its own accord has sent its command.
CommandWasSent == ended = "finished" /\ iAuthenticated => sent > 0

\* A dump that ends of its own accord accounts for every DCB it was told of: it is
\* shown, it is skipped with a warning, or its answer held nothing to show (its
\* index alone, an index of 128 or more) or came in quiet mode, and nothing is
\* said of it.  A JSON dump has been printed.  It was told of every DCB of the
\* battery, unless a timeout, an error or an empty answer came before the count:
\* then the run ends the same way, with no DCB and no warning for one.
DumpComplete ==
  ended = "finished" /\ cmd.dump =>
    /\ 0..g_ctx.totalDCBs - 1 = shown \cup warned \cup blank
    /\ g_ctx.totalDCBs # dcbs => g_ctx.totalDCBs = 0 /\ troubled
    /\ cmd.json => jsonPrinted

\* A DCB is given up only after it has been asked for max_retries times.
SkipMeansAsked == [][\A i \in warned' \ warned : attempts >= MaxRetries]_vars

\* The same for every DCB but the first, where no tag is read along (its
\* answers are counted as failed attempts, too).
LaterSkipMeansAsked ==
  [][\A i \in warned' \ warned : i > 0 /\ cmd.read = "none" => attempts >= MaxRetries]_vars

\* In quiet mode a value that was asked for and came is not reported missing.
NoWrongNotFound == ~wrongNotFound

\* The dump takes the DCBs one by one, as DumpCursor has it.
Cursor == INSTANCE DumpCursor WITH
  Counts <- Batteries,
  size   <- IF g_ctx.needMoreDCBRequests THEN g_ctx.totalDCBs ELSE 0,
  next   <- IF g_ctx.needMoreDCBRequests THEN g_ctx.currentDCBIndex ELSE 0

WalksDcbsInOrder == Cursor!Spec

\* Outside of watch mode the program ends by itself, however the device behaves.
Terminates == ~cmd.watch => <>Final

\* It does if timeouts and bad answers stop at some point: none of them, in
\* whatever order they come, leaves the dump loop in a state it cannot leave.
Trouble == ReceiveTimesOut \/ DeviceFails \/ DeviceIgnores

TerminatesAfterTrouble == <>[][~Trouble]_vars /\ ~cmd.watch => <>Final

\* Ctrl+C ends the watch, at whatever point of the loop it comes.
InterruptEnds == g_watchInterrupted ~> Final

\* A watch polls on until Ctrl+C or the loss of the connection.
WatchPolls == cmd.watch => []<>(pc = "send") \/ <>(ended \in {"interrupt", "socket"} \/ pc = "exit")
=============================================================================
