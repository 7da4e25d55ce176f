----------------------------- MODULE CommandLine -----------------------------
(***************************************************************************)
(* From the command line to the request: main (src/src/e3dcset.cpp), the   *)
(* checks and the configuration (src/src/config.cpp), the connection and   *)
(* the frames that createRequestExample builds (src/src/rscp_handler.cpp). *)
(* What happens between the frames is the subject of module Session.       *)
(***************************************************************************)
EXTENDS RscpValue, Period, Command, FiniteSets

CONSTANTS
  Options,       \* the options, with their arguments, a command line is made of
  MaxArgs,       \* bound: options on one command line
  TagValue,      \* names of tags (tags file, RscpTags.h) and their numbers
  ConfigFiles,   \* contents of the configuration file and the environment
  Moments,       \* dates at which a request may be built, with tm_isdst
  DcbIndices,    \* indices of DCBs asked for in later rounds of a dump
  NaN,           \* the float that is no number
  Uint32Range    \* bound of uint32_t, 2^32 in the code

\* An option has a number or a word for its argument, or neither; -D has a date, and
\* whether it is one.
Option(opt, n, s) == [opt |-> opt, n |-> n, s |-> s]

ASSUME OptionsAssumption ==
  \A o \in Options : /\ o = Option(o.opt, o.n, o.s) /\ o.n \in Int
                     /\ o.opt = "D" => o.s \in {"today", "date", "malformed"}
ASSUME RangeAssumption == Uint32Range \in Nat /\ Uint32Range > 5      \* the interval's default
ASSUME BoundAssumption == MaxArgs \in Nat
ASSUME DcbAssumption   == DcbIndices \subseteq 0..255
ASSUME NaNAssumption   == NaN \notin Int
ASSUME TagsAssumption ==
  /\ DOMAIN TagValue # {} /\ "none" \in DOMAIN TagValue /\ TagValue["none"] = 0
  /\ \A t \in DOMAIN TagValue : TagValue[t] \in Nat

VARIABLES
  argv,          \* the options read so far
  pc,            \* where main is, see Places
  g_ctx,         \* the fields of CommandContext the options set
  e3dc_config,
  frame,         \* the frame sent last
  asOf           \* history: the moment it was built at

vars == <<argv, pc, g_ctx, e3dc_config, frame, asOf>>

Places == {"options",   \* in the loop over getopt_long
           "config",    \* before readConfig
           "limits",    \* before checkArguments
           "connect",   \* before connectToServer
           "login",     \* in mainLoop, not authenticated
           "command",   \* authenticated
           "sent",      \* a request with the command is sent
           "listed",    \* -l: main returned
           "exit"}

Uint32(n) == n % Uint32Range

Uint32Values == 0..(Uint32Range - 1)
Uint16Values == 0..(Uint16Limit - 1)

-----------------------------------------------------------------------------
(* Options *)

NoTag == "none"

\* The fields of CommandContext that the options set.
Flags == {"leistungAendern", "automatischLeistungEinstellen", "ladeLeistungGesetzt",
          "entladeLeistungGesetzt", "manuelleSpeicherladung", "setEPReserve", "werteAbfragen",
          "modulInfoDump", "batIndexExplicit", "historieAbfrage", "sysInfoAbfrage", "rawOutput",
          "quietMode", "jsonOutput", "watchMode", "listTags", "arguments"}
Words == {"leseTag", "tagName", "historieTyp", "historieDatum"}
Uint32Fields == {"ladeLeistung", "entladeLeistung", "ladungsMenge", "watchInterval"}
Uint16Fields == {"batIndex"}
FloatFields  == {"epReserveWh"}
IntFields    == {"datum"}
Fields == Flags \cup Words \cup Uint32Fields \cup Uint16Fields \cup FloatFields \cup IntFields

\* A float, in whole Wh.
Floats == Int \cup {NaN}

\* The words of the command line, and those that stand for none.
WordsGiven == {NoTag, "today"} \cup {o.s : o \in Options}

InitialContext ==
  [f \in Fields |->
     CASE f \in Flags           -> FALSE
       [] f \in Words           -> NoTag
       [] f = "watchInterval"   -> 5
       [] OTHER                 -> 0]

SetPower(c, o) ==
  IF o.opt = "d"
  THEN [c EXCEPT !.leistungAendern = TRUE, !.entladeLeistungGesetzt = TRUE,
                 !.entladeLeistung = Uint32(o.n)]
  ELSE [c EXCEPT !.leistungAendern = TRUE, !.ladeLeistungGesetzt = TRUE,
                 !.ladeLeistung = Uint32(o.n)]

\* -r with a number replaces the tag, -r with a name is looked up later.
SetTag(c, o) ==
  IF o.opt = "r" THEN [c EXCEPT !.werteAbfragen = TRUE, !.leseTag = o.s]
  ELSE [c EXCEPT !.werteAbfragen = TRUE, !.tagName = o.s]

\* Slip: the index is not cut to its 16 bits.
SetModuleUncut(c, o) == [c EXCEPT !.modulInfoDump = TRUE, !.batIndex = o.n]

\* -m and -b share batIndex.
SetModule(c, o) == [c EXCEPT !.modulInfoDump = TRUE, !.batIndex = Uint16(o.n)]

\* Options that set a flag; "argument" is a word that is no option.
FlagOf == [q |-> "quietMode", j |-> "jsonOutput", l |-> "listTags", w |-> "watchMode",
           raw |-> "rawOutput", info |-> "sysInfoAbfrage", argument |-> "arguments"]

\* atof takes the word "nan" for a number.
atof(o) == IF o.s = "nan" THEN NaN ELSE o.n

SetOption(c, o) ==
  CASE o.opt \in {"c", "d"} -> SetPower(c, o)
    [] o.opt = "a" -> [c EXCEPT !.leistungAendern = TRUE, !.automatischLeistungEinstellen = TRUE]
    [] o.opt = "e" -> [c EXCEPT !.manuelleSpeicherladung = TRUE, !.ladungsMenge = Uint32(o.n)]
    [] o.opt = "E" -> [c EXCEPT !.setEPReserve = TRUE, !.epReserveWh = atof(o)]
    [] o.opt = "H" -> [c EXCEPT !.historieAbfrage = TRUE, !.historieTyp = o.s]
    [] o.opt = "D" -> [c EXCEPT !.historieDatum = o.s, !.datum = o.n]
    [] o.opt \in {"r", "r name"} -> SetTag(c, o)
    [] o.opt = "b" -> [c EXCEPT !.batIndexExplicit = TRUE, !.batIndex = Uint16(o.n)]
    [] o.opt = "m" -> SetModule(c, o)
    [] o.opt = "interval" -> [c EXCEPT !.watchInterval = Uint32(o.n)]
    [] o.opt \in DOMAIN FlagOf -> [c EXCEPT ![FlagOf[o.opt]] = TRUE]
    [] OTHER -> c

\* The second byte of a request's tag is below 0x80.
isRequestTag(tag) == (TagValue[tag] \div 65536) % 256 < 128

\* Options that end the program at once.
EndsAtOnce(o) ==
  \/ o.opt = "r" /\ ~isRequestTag(o.s)
  \/ o.opt = "H" /\ o.s \notin HistoryTypes
  \/ o.opt = "l" /\ o.n # 0 /\ o.n \notin 1..8       \* 0: no category given
  \/ o.opt = "interval" /\ Uint32(o.n) < 1
  \/ o.opt \in {"h", "?"}

ReadOption(o) ==
  /\ pc = "options" /\ Len(argv) < MaxArgs
  /\ argv' = Append(argv, o)
  /\ g_ctx' = SetOption(g_ctx, o)
  /\ pc' = IF EndsAtOnce(o) THEN "exit" ELSE "options"
  /\ UNCHANGED <<e3dc_config, frame, asOf>>

-----------------------------------------------------------------------------
(* main behind the options *)

\* Slip: the reserve is forgotten among the commands.
ControllingButReserve(c) == c.leistungAendern \/ c.manuelleSpeicherladung

Controlling(c) == c.leistungAendern \/ c.manuelleSpeicherladung \/ c.setEPReserve

\* The date given by -D: year, month and day.
DateOf(n) == [year |-> n \div 10000, month |-> (n \div 100) % 100, day |-> n % 100]

\* checkArgumentsEarly has this table a second time.
DateExists(d) == /\ d.month \in 1..12
                 /\ d.day \in 1..getDaysInMonth(d.month, d.year)

ASSUME MomentsAssumption ==
  Moments # {} /\ \A now \in Moments : DateExists(now) /\ now.year \in Int

DateAccepted(c) ==
  /\ c.historieDatum # "none" => c.historieAbfrage
  /\ c.historieDatum # "malformed"
  /\ c.historieDatum = "date" => DateExists(DateOf(c.datum))

\* reserve < 0, which is false of NaN.
IsNegative(reserve) == reserve # NaN /\ reserve < 0

checkArgumentsEarly(c) ==
  /\ c.werteAbfragen => ~Controlling(c) /\ TagValue[c.leseTag] # 0
  /\ c.historieAbfrage => ~Controlling(c) /\ ~c.werteAbfragen
  /\ c.setEPReserve => ~IsNegative(c.epReserveWh)
  /\ c.quietMode \/ c.watchMode => c.werteAbfragen
  /\ c.rawOutput => c.historieAbfrage /\ ~c.sysInfoAbfrage
  /\ DateAccepted(c)
  /\ c.sysInfoAbfrage => ~Controlling(c)
  /\ Controlling(c) \/ c.werteAbfragen \/ c.historieAbfrage \/ c.modulInfoDump \/ c.sysInfoAbfrage

\* A name, once given, is what counts, and it must be a request in the tags file.
LooksUpName == g_ctx.werteAbfragen /\ g_ctx.tagName # NoTag
NameFound   == g_ctx.tagName \in DOMAIN TagValue /\ isRequestTag(g_ctx.tagName)

\* The context checkArgumentsEarly looks at, and what it makes of it.
Looked == IF LooksUpName THEN [g_ctx EXCEPT !.leseTag = g_ctx.tagName, !.tagName = NoTag]
          ELSE g_ctx

Dated(c) == IF c.historieAbfrage /\ c.historieDatum = "none"
            THEN [c EXCEPT !.historieDatum = "today"] ELSE c

ListTags ==
  /\ pc = "options" /\ argv # <<>>
  /\ ~g_ctx.arguments /\ g_ctx.listTags
  /\ pc' = "listed"
  /\ UNCHANGED <<argv, g_ctx, e3dc_config, frame, asOf>>

EndOfOptions ==
  /\ pc = "options" /\ argv # <<>>
  /\ ~g_ctx.arguments /\ ~g_ctx.listTags
  /\ LooksUpName => NameFound
  /\ checkArgumentsEarly(Looked)
  /\ g_ctx' = Dated(Looked)
  /\ pc' = "config"
  /\ UNCHANGED <<argv, e3dc_config, frame, asOf>>

\* No option at all, a word too many, no such tag, a combination that is
\* refused; or the tags file or the category to be listed is missing.
EndsWithUsage ==
  /\ pc = "options"
  /\ pc' = "exit"
  /\ UNCHANGED <<argv, g_ctx, e3dc_config, frame, asOf>>

-----------------------------------------------------------------------------
(* Configuration and limits *)

CONFIG_FIELD_SIZE_IP         == 20
CONFIG_FIELD_SIZE_CREDENTIAL == 128
Credentials == {"e3dc_user", "e3dc_password", "aes_password"}
Numbers     == {"MIN_LEISTUNG", "MAX_LEISTUNG", "MIN_LADUNGSMENGE", "MAX_LADUNGSMENGE",
                "server_port", "timeout_seconds", "max_retries"}

\* The variable of the environment that takes the place of a credential.
EnvOf(credential) == CASE credential = "e3dc_user"     -> "E3DC_USER"
                       [] credential = "e3dc_password" -> "E3DC_PASSWORD"
                       [] credential = "aes_password"  -> "E3DC_AES_PASSWORD"

\* A file f gives numbers, and of texts the lengths (0: empty or not there).
ASSUME ConfigAssumption ==
  \A f \in ConfigFiles :
    /\ \A field \in Numbers \cup Credentials \cup {"server_ip"} : f[field] \in Int
    /\ \A c \in Credentials : f[EnvOf(c)] \in Int

SafeStringCopy(length, size) == length < size

CopiesAll(f) ==
  /\ SafeStringCopy(f["server_ip"], CONFIG_FIELD_SIZE_IP)
  /\ \A c \in Credentials : /\ SafeStringCopy(f[c], CONFIG_FIELD_SIZE_CREDENTIAL)
                            /\ SafeStringCopy(f[EnvOf(c)], CONFIG_FIELD_SIZE_CREDENTIAL)

\* Slip: the environment counts only where the file is silent.
FileFirst(f, c) == IF f[c] > 0 THEN f[c] ELSE f[EnvOf(c)]

CredentialOf(f, c) == IF f[EnvOf(c)] > 0 THEN f[EnvOf(c)] ELSE f[c]

ConfigOf(f) ==
  [field \in Numbers \cup Credentials \cup {"server_ip"} |->
     IF field \in Numbers THEN Uint32(f[field])
     ELSE IF field \in Credentials THEN CredentialOf(f, field) ELSE f[field]]

Complete(config) == \A field \in Credentials \cup {"server_ip", "server_port"} : config[field] > 0

NoConfig == [field \in Numbers \cup Credentials \cup {"server_ip"} |-> 0]

readConfig ==
  /\ pc = "config"
  /\ \E f \in ConfigFiles :
       /\ CopiesAll(f) /\ Complete(ConfigOf(f))
       /\ e3dc_config' = ConfigOf(f)
  /\ pc' = "limits"
  /\ UNCHANGED <<argv, g_ctx, frame, asOf>>

\* There is no file, a text is too long, a field is missing.
ConfigUnusable ==
  /\ pc = "config"
  /\ pc' = "exit"
  /\ UNCHANGED <<argv, g_ctx, e3dc_config, frame, asOf>>

PowerAllowed(power)   == power \in e3dc_config["MIN_LEISTUNG"]..e3dc_config["MAX_LEISTUNG"]
ChargeAllowed(charge) == charge \in e3dc_config["MIN_LADUNGSMENGE"]..e3dc_config["MAX_LADUNGSMENGE"]

\* Slip: automatic mode goes with any power.
WithinLimitsOnly(c) ==
  /\ c.ladeLeistungGesetzt    => PowerAllowed(c.ladeLeistung)
  /\ c.entladeLeistungGesetzt => PowerAllowed(c.entladeLeistung)
  /\ c.manuelleSpeicherladung => ChargeAllowed(c.ladungsMenge)
  /\ c.batIndexExplicit => c.werteAbfragen \/ c.modulInfoDump

LimitsKept(c) ==
  /\ c.ladeLeistungGesetzt    => PowerAllowed(c.ladeLeistung)
  /\ c.entladeLeistungGesetzt => PowerAllowed(c.entladeLeistung)
  /\ c.automatischLeistungEinstellen => c.ladeLeistung = 0 /\ c.entladeLeistung = 0
  /\ c.manuelleSpeicherladung => ChargeAllowed(c.ladungsMenge)
  /\ c.batIndexExplicit => c.werteAbfragen \/ c.modulInfoDump

checkArguments ==
  /\ pc = "limits"
  /\ pc' = IF LimitsKept(g_ctx) THEN "connect" ELSE "exit"
  /\ UNCHANGED <<argv, g_ctx, e3dc_config, frame, asOf>>

\* One attempt; no address, no socket or no connection ends the program.
connectToServer ==
  /\ pc = "connect"
  /\ pc' \in {"login", "exit"}
  /\ UNCHANGED <<argv, g_ctx, e3dc_config, frame, asOf>>

-----------------------------------------------------------------------------
(* createRequestExample *)

Root == CreateContainerValue("root")

\* An element that is appended under a condition.
AppendIf(condition, response, v) ==
  IF condition THEN AppendValue(response, v) ELSE response
AppendContainerIf(condition, response, container) ==
  IF condition THEN AppendContainer(response, container) ELSE response

AuthenContainer ==
  AppendValue(AppendValue(CreateContainerValue("RSCP_REQ_AUTHENTICATION"),
    Data("RSCP_AUTHENTICATION_USER", e3dc_config["e3dc_user"], e3dc_config["e3dc_user"])),
    Data("RSCP_AUTHENTICATION_PASSWORD", e3dc_config["e3dc_password"], e3dc_config["e3dc_password"]))

Namespace(tag) == TagValue[tag] \div 16777216
Prefix(tag)    == TagValue[tag] \div 65536

ReadKind(tag) == CASE Namespace(tag) = 3 /\ Prefix(tag) # 772 -> "bat"     \* 0x03, not 0x0304
                   [] Namespace(tag) = 2 /\ Prefix(tag) # 516 /\ isRequestTag(tag) -> "pvi"
                   [] OTHER -> "plain"

\* An element without data asks for the value of its tag.
Asking(response, tag) == AppendValue(response, Data(tag, 0, 0))

BatContainer(c) == AppendValue(CreateContainerValue("BAT_REQ_DATA"), Data("BAT_INDEX", 2, c.batIndex))
PviContainer(c) == AppendValue(CreateContainerValue("PVI_REQ_DATA"), Data("PVI_INDEX", 2, c.batIndex))

ReadPart(c, root) ==
  CASE ~c.werteAbfragen            -> root
    [] c.werteAbfragen /\ ReadKind(c.leseTag) = "bat"   -> AppendContainer(root, Asking(BatContainer(c), c.leseTag))
    [] c.werteAbfragen /\ ReadKind(c.leseTag) = "pvi"   -> AppendContainer(root, Asking(PviContainer(c), c.leseTag))
    [] c.werteAbfragen /\ ReadKind(c.leseTag) = "plain" -> Asking(root, c.leseTag)

Asking3(response, s, t, u) == Asking(Asking(Asking(response, s), t), u)

\* The first request of a dump, and one for the data of a DCB.
None == -1
FirstDumpContainer(c) ==
  Asking3(Asking3(Asking3(BatContainer(c),
    "BAT_REQ_RSOC", "BAT_REQ_ASOC", "BAT_REQ_CHARGE_CYCLES"),
    "BAT_REQ_CURRENT", "BAT_REQ_MODULE_VOLTAGE", "BAT_REQ_MAX_BAT_VOLTAGE"),
    "BAT_REQ_STATUS_CODE", "BAT_REQ_ERROR_CODE", "BAT_REQ_DCB_COUNT")

\* Slip: the DCB's index where the module's belongs.
DcbContainerSwapped(c, dcb) ==
  AppendValue(AppendValue(CreateContainerValue("BAT_REQ_DATA"), Data("BAT_INDEX", 2, dcb)),
              Data("BAT_REQ_DCB_INFO", 1, dcb))

DcbContainer(c, dcb) == AppendValue(BatContainer(c), Data("BAT_REQ_DCB_INFO", 1, dcb))

DumpPart(c, dcb, root) ==
  AppendContainerIf(c.modulInfoDump, root,
                    IF dcb = None THEN FirstDumpContainer(c) ELSE DcbContainer(c, dcb))

\* The day meant, and the time zone's state it is converted with.
DateMeant(c, now) == IF c.historieDatum = "today"
                     THEN [year |-> now.year, month |-> now.month, day |-> now.day]
                     ELSE DateOf(c.datum)
IsdstMeant(c, now) == IF c.historieDatum = "today" THEN now.isdst ELSE -1

HistoryTag(type) == CASE type = "day"   -> "DB_REQ_HISTORY_DATA_DAY"
                      [] type = "week"  -> "DB_REQ_HISTORY_DATA_WEEK"
                      [] type = "month" -> "DB_REQ_HISTORY_DATA_MONTH"
                      [] type = "year"  -> "DB_REQ_HISTORY_DATA_YEAR"

\* Times in hours, spans in days, intervals in quarters of an hour.
HistoryContainer(c, now) ==
  AppendValue(AppendValue(AppendValue(CreateContainerValue(HistoryTag(c.historieTyp)),
    Data("DB_REQ_HISTORY_TIME_START", 8,
         dateToTimestamp(DateMeant(c, now), c.historieTyp, IsdstMeant(c, now)))),
    Data("DB_REQ_HISTORY_TIME_INTERVAL", 4, HistoryInterval(c.historieTyp))),
    Data("DB_REQ_HISTORY_TIME_SPAN", 4, HistorySpan(DateMeant(c, now), c.historieTyp)))

InfoPart(c, root) ==
  IF c.sysInfoAbfrage
  THEN Asking3(root, "INFO_REQ_SERIAL_NUMBER", "INFO_REQ_PRODUCTION_DATE", "INFO_REQ_SW_RELEASE")
  ELSE root

\* LIMITS_USED is a bool, 0 or 1 here.
PMContainer(c) ==
  LET auto      == AppendIf(c.automatischLeistungEinstellen,
                            CreateContainerValue("EMS_REQ_SET_POWER_SETTINGS"),
                            Data("EMS_POWER_LIMITS_USED", 1, 0))
      limited   == AppendIf(c.ladeLeistungGesetzt \/ c.entladeLeistungGesetzt, auto,
                            Data("EMS_POWER_LIMITS_USED", 1, 1))
      charge    == AppendIf(c.ladeLeistungGesetzt, limited,
                            Data("EMS_MAX_CHARGE_POWER", 4, c.ladeLeistung))
  IN AppendIf(c.entladeLeistungGesetzt, charge,
              Data("EMS_MAX_DISCHARGE_POWER", 4, c.entladeLeistung))

EpContainer(c) ==
  AppendValue(AppendValue(CreateContainerValue("EP_REQ_SET_EP_RESERVE"),
    Data("EP_PARAM_INDEX", 1, 0)), Data("EP_PARAM_EP_RESERVE_ENERGY", 4, c.epReserveWh))

\* The selected parts, in the order of the code.
CommandRoot(c, dcb, now) ==
  LET queries == InfoPart(c,
                   AppendContainerIf(c.historieAbfrage, DumpPart(c, dcb, ReadPart(c, Root)),
                                     HistoryContainer(c, now)))
      charge  == AppendIf(c.manuelleSpeicherladung, queries,
                          Data("EMS_REQ_START_MANUAL_CHARGE", 4, c.ladungsMenge))
  IN AppendContainerIf(c.setEPReserve,
       AppendContainerIf(c.leistungAendern, charge, PMContainer(c)), EpContainer(c))

\* dateToTimestamp looks at the year, which no check before it did.
YearAccepted(c) == c.historieAbfrage /\ c.historieDatum = "date"
                     => DateOf(c.datum).year \in 1970..2100

SendAuthentication ==
  /\ pc = "login"
  /\ frame' = CreateFrameAsBuffer(AppendContainer(Root, AuthenContainer))
  /\ pc' = "command"
  /\ UNCHANGED <<argv, g_ctx, e3dc_config, asOf>>

SendCommand ==
  /\ pc = "command"
  /\ YearAccepted(g_ctx)
  /\ \E now \in Moments :
       /\ frame' = CreateFrameAsBuffer(CommandRoot(g_ctx, None, now))
       /\ asOf' = now
  /\ pc' = "sent"
  /\ UNCHANGED <<argv, g_ctx, e3dc_config>>

YearRefused ==
  /\ pc = "command"
  /\ ~YearAccepted(g_ctx)
  /\ pc' = "exit"
  /\ UNCHANGED <<argv, g_ctx, e3dc_config, frame, asOf>>

\* A poll of a watch and a later round of a dump send all of it again, the dump
\* for a DCB once it has begun; "today" is taken anew.
SendAgain ==
  /\ pc = "sent" /\ (g_ctx.modulInfoDump \/ g_ctx.watchMode)
  /\ \E now \in Moments, dcb \in {None} \cup DcbIndices :
       /\ dcb # None => g_ctx.modulInfoDump
       /\ frame' = CreateFrameAsBuffer(CommandRoot(g_ctx, dcb, now))
       /\ asOf' = now
  /\ UNCHANGED <<argv, pc, g_ctx, e3dc_config>>

-----------------------------------------------------------------------------

Init ==
  /\ argv = <<>> /\ pc = "options"
  /\ g_ctx = InitialContext
  /\ e3dc_config = NoConfig
  /\ frame = CreateFrameAsBuffer(Root)      \* nothing sent yet
  /\ asOf = CHOOSE now \in Moments : TRUE

Next == \/ \E o \in Options : ReadOption(o)
        \/ ListTags \/ EndOfOptions \/ EndsWithUsage
        \/ readConfig \/ ConfigUnusable \/ checkArguments \/ connectToServer
        \/ SendAuthentication \/ SendCommand \/ YearRefused \/ SendAgain

Spec == Init /\ [][Next]_vars

-----------------------------------------------------------------------------
(* Properties *)

ContextOK(c) == /\ \A f \in Flags : c[f] \in BOOLEAN
                /\ \A f \in Words : c[f] \in WordsGiven
                /\ \A f \in Uint32Fields : c[f] \in Uint32Values
                /\ \A f \in Uint16Fields : c[f] \in Uint16Values
                /\ \A f \in FloatFields : c[f] \in Floats
                /\ \A f \in IntFields : c[f] \in Int

\* Every variable keeps to its type; the numbers of the command line and of the
\* configuration are cut to the width of the fields they are stored in.
TypeOK ==
  /\ argv \in Seq(Options) /\ Len(argv) <= MaxArgs
  /\ pc \in Places
  /\ ContextOK(g_ctx)
  /\ \A field \in Numbers : e3dc_config[field] \in Uint32Values
  /\ \A c \in Credentials : e3dc_config[c] \in 0..(CONFIG_FIELD_SIZE_CREDENTIAL - 1)

\* The elements of a container, and all values of the frame sent last.
Elements(v) == {v.items[i].value : i \in DOMAIN v.items}
Sent        == Elements(frame) \cup UNION {Elements(v) : v \in Elements(frame)}

\* Whatever the options and their order, a power or a charge that is sent is
\* within the limits of the configuration, a reserve is not negative (it may be NaN,
\* which no check refuses), and limits are not switched off together with a power above
\* zero (checkArguments and checkArgumentsEarly against what createRequestExample sends).
LimitsRespected ==
  \A v \in {v \in Sent : v.length > 0} :
    /\ v.tag \in {"EMS_MAX_CHARGE_POWER", "EMS_MAX_DISCHARGE_POWER"} => PowerAllowed(v.content)
    /\ v.tag = "EMS_REQ_START_MANUAL_CHARGE" => ChargeAllowed(v.content)
    /\ v.tag = "EP_PARAM_EP_RESERVE_ENERGY" => ~IsNegative(v.content)
    /\ v.tag = "EMS_POWER_LIMITS_USED" /\ v.content = 0 =>
         \A w \in Sent : w.tag \in {"EMS_MAX_CHARGE_POWER", "EMS_MAX_DISCHARGE_POWER"} => w.content = 0

ControlTags == {"EMS_REQ_START_MANUAL_CHARGE", "EMS_REQ_SET_POWER_SETTINGS", "EP_REQ_SET_EP_RESERVE"}

Given(opts) == \E i \in DOMAIN argv : argv[i].opt \in opts

\* A command line with a query (-r, -H, --info) sends nothing that changes the
\* station, whatever else is on it: of the control tags at most the one that -r
\* names itself, which no check keeps out, and that without data
\* (checkArgumentsEarly).
QueriesOnlyRead ==
  Given({"r", "r name", "H", "info"}) =>
    \A v \in Sent : v.tag \in ControlTags => v.tag = g_ctx.leseTag /\ v.length = 0

\* The fields of the context that module Session has for its input.
CommandOf(c) ==
  [read   |-> IF c.werteAbfragen THEN ReadKind(c.leseTag) ELSE "none",
   dump   |-> c.modulInfoDump,
   others |-> {x \in Others : \/ x = "charge"  /\ c.manuelleSpeicherladung
                              \/ x = "power"   /\ c.leistungAendern
                              \/ x = "reserve" /\ c.setEPReserve
                              \/ x = "history" /\ c.historieAbfrage
                              \/ x = "info"    /\ c.sysInfoAbfrage},
   watch  |-> c.watchMode, quiet |-> c.quietMode, json |-> c.jsonOutput]

Connecting == pc \in {"connect", "login", "command", "sent"}

\* main connects only for the commands that Session takes for its inputs.
SessionInputs ==
  Connecting => CommandOf(g_ctx) \in CommandType /\ Accepted(CommandOf(g_ctx))

-----------------------------------------------------------------------------
(* What the command line says, option by option, the last of each counting. *)

Last(opts) == argv[CHOOSE i \in DOMAIN argv : /\ argv[i].opt \in opts
                                              /\ \A j \in DOMAIN argv : argv[j].opt \in opts => j <= i]

Part(tag, content, parts) == {[tag |-> tag, content |-> content, parts |-> parts]}
Leaf(tag, content)        == {[tag |-> tag, content |-> content]}
If(condition, S)          == IF condition THEN S ELSE {}

ModuleAsked == IF Given({"b", "m"}) THEN Uint16(Last({"b", "m"}).n) ELSE 0

ReadAsked(tag) ==
  CASE ReadKind(tag) = "bat" -> Part("BAT_REQ_DATA", 0, Leaf("BAT_INDEX", ModuleAsked) \cup Leaf(tag, 0))
    [] ReadKind(tag) = "pvi" -> Part("PVI_REQ_DATA", 0, Leaf("PVI_INDEX", ModuleAsked) \cup Leaf(tag, 0))
    [] OTHER -> Part(tag, 0, {})

PowerAsked ==
  If(Given({"a"}), Leaf("EMS_POWER_LIMITS_USED", 0)) \cup
  If(Given({"c", "d"}), Leaf("EMS_POWER_LIMITS_USED", 1)) \cup
  If(Given({"c"}), Leaf("EMS_MAX_CHARGE_POWER", Uint32(Last({"c"}).n))) \cup
  If(Given({"d"}), Leaf("EMS_MAX_DISCHARGE_POWER", Uint32(Last({"d"}).n)))

\* All of what was asked for but the history, which PeriodAsked is about.
Asked ==
  UNION {
    If(Given({"r", "r name"}), ReadAsked(Last({"r", "r name"}).s)),
    If(Given({"info"}), Part("INFO_REQ_SERIAL_NUMBER", 0, {}) \cup
                        Part("INFO_REQ_PRODUCTION_DATE", 0, {}) \cup
                        Part("INFO_REQ_SW_RELEASE", 0, {})),
    If(Given({"e"}), Part("EMS_REQ_START_MANUAL_CHARGE", Uint32(Last({"e"}).n), {})),
    If(Given({"a", "c", "d"}), Part("EMS_REQ_SET_POWER_SETTINGS", 0, PowerAsked)),
    If(Given({"E"}), Part("EP_REQ_SET_EP_RESERVE", 0,
         Leaf("EP_PARAM_INDEX", 0) \cup Leaf("EP_PARAM_EP_RESERVE_ENERGY", atof(Last({"E"})))))}

\* The request a dump begins with, and that for a DCB.
FirstDumpAsked ==
  Part("BAT_REQ_DATA", 0, Leaf("BAT_INDEX", ModuleAsked) \cup
    {[tag |-> t, content |-> 0] :
       t \in {"BAT_REQ_RSOC", "BAT_REQ_ASOC", "BAT_REQ_CHARGE_CYCLES", "BAT_REQ_CURRENT",
              "BAT_REQ_MODULE_VOLTAGE", "BAT_REQ_MAX_BAT_VOLTAGE", "BAT_REQ_STATUS_CODE",
              "BAT_REQ_ERROR_CODE", "BAT_REQ_DCB_COUNT"}})
DcbAsked(dcb) ==
  Part("BAT_REQ_DATA", 0, Leaf("BAT_INDEX", ModuleAsked) \cup Leaf("BAT_REQ_DCB_INFO", dcb))

DumpsAsked == IF Given({"m"}) THEN {FirstDumpAsked} \cup {DcbAsked(dcb) : dcb \in DcbIndices} ELSE {{}}

\* The same of the frame, as a station reads it that takes it apart as parseFrame does.
Values    == ParseFrame(frame)
PartsOf(v) == LET inner == GetValueAsContainer(v)
              IN {[tag |-> inner[i].tag, content |-> inner[i].content] : i \in DOMAIN inner}
PartOf(v)  == [tag |-> v.tag, content |-> v.content, parts |-> PartsOf(v)]
HistoryTags == {HistoryTag(type) : type \in HistoryTypes}

\* Command lines on which one option silently takes the place of another: -b and
\* -m, and a tag by number behind a tag by name.
Overridden ==
  \/ Given({"b"}) /\ Given({"m"})
  \/ Given({"r"}) /\ Given({"r name"})

\* The frame, taken apart again, holds what the command line says, all of it and
\* nothing else, on every other command line, in every round of a dump or a watch: no
\* option is mixed up with another, no part is refused for its size, written short or
\* hidden behind a wrong length (main, createRequestExample, appendValue,
\* createFrameAsBuffer).
SaysWhatWasAsked ==
  pc = "sent" /\ ~Overridden =>
    LET others == {i \in DOMAIN Values : Given({"H"}) => Values[i].tag \notin HistoryTags}
    IN \E dump \in DumpsAsked : {PartOf(Values[i]) : i \in others} = Asked \cup dump

\* -b and -m share a field: whatever is read of a module, by -r or by -m and in whatever
\* round of a dump, is asked of the one that was named last, also where they
\* override each other.
OneModuleAsked ==
  \A v \in Sent : v.tag \in {"BAT_INDEX", "PVI_INDEX"} /\ v.length > 0 => v.content = ModuleAsked

\* The login carries the credentials of the environment, and where there are none
\* those of the file; nothing is sent without them.
LogsInCompletely ==
  pc = "command" =>
    \E f \in ConfigFiles :
      [i \in DOMAIN Values |-> PartOf(Values[i])] =
        <<[tag |-> "RSCP_REQ_AUTHENTICATION", content |-> 0,
           parts |-> Leaf("RSCP_AUTHENTICATION_USER",
                          IF f["E3DC_USER"] > 0 THEN f["E3DC_USER"] ELSE f["e3dc_user"]) \cup
                     Leaf("RSCP_AUTHENTICATION_PASSWORD",
                          IF f["E3DC_PASSWORD"] > 0 THEN f["E3DC_PASSWORD"] ELSE f["e3dc_password"])]>>

\* A history query starts at midnight of the first day of the period its date
\* lies in and spans all its days: for every date of its own (not for a year that is a
\* leap year), and for "today" when tm_isdst of now is that of the first day
\* (dateToTimestamp).
PeriodAsked ==
  pc = "sent" /\ g_ctx.historieAbfrage =>
    LET type  == Last({"H"}).s
        date  == DateMeant(g_ctx, asOf)
        days  == PeriodOf(date, type)
        first == CHOOSE d \in days : \A e \in days : d <= e
        parts == UNION {PartsOf(Values[i]) : i \in {i \in DOMAIN Values : Values[i].tag = HistoryTag(type)}}
    IN /\ IsdstMeant(g_ctx, asOf) \in {-1, Isdst(date.year, 24 * first)} =>
            Leaf("DB_REQ_HISTORY_TIME_START", Midnight(date.year, first)) \subseteq parts
       /\ type # "year" \/ ~IsLeapYear(date.year) =>
            Leaf("DB_REQ_HISTORY_TIME_SPAN", Cardinality(days)) \subseteq parts
       /\ g_ctx.historieDatum = "date" => DateExists(date)
=============================================================================
