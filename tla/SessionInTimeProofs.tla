------------------------ MODULE SessionInTimeProofs -------------------------
(***************************************************************************)
(* What holds of Session where no answer is late: a receive times out only *)
(* when nothing is under way (MaxInFlight = 1).  Requests and answers then *)
(* take turns, and every answer finds g_ctx as its request left it.        *)
(***************************************************************************)
EXTENDS SessionProofs

-----------------------------------------------------------------------------
(* One message at a time *)

\* Between two receives nothing is under way, and within one at most one message,
\* unless the run is about to end.
Lockstep ==
  /\ pc \in {"send", "recv", "values"} => ended = "no"
  /\ pc \in {"send", "recv", "tail"} => values = <<>>
  /\ ended = "no" /\ pc # "recv" => toDevice = <<>> /\ toClient = <<>>
  /\ toDevice # <<>> => Tail(toDevice) = <<>> /\ toClient = <<>>
  /\ toClient # <<>> => Tail(toClient) = <<>>

LEMMA AppendedFirst ==
  ASSUME NEW S, NEW x \in S
  PROVE  /\ Append(<<>>, x) # <<>>
         /\ Head(Append(<<>>, x)) = x /\ Tail(Append(<<>>, x)) = <<>>
<1>1. <<>> \in Seq(S)
  BY EmptySeq
<1>2. Append(<<>>, x) = <<x>>
  BY <1>1
<1> QED BY <1>2

\* A step of the device, in lockstep: the one request is answered or dropped.
LEMMA DeviceInTime ==
  ASSUME Safe, Lockstep, DeviceStep
  PROVE  /\ UNCHANGED <<cmd, dcbs, progVars, tallyVars>>
         /\ toDevice # <<>> /\ toDevice' = <<>>
         /\ Head(toDevice) \in RequestType
         /\ \/ toClient' = <<>>
            \/ \E F \in SUBSET Faults : \E a \in Answers(Head(toDevice), F) :
                 toClient' # <<>> /\ Head(toClient') = a /\ Tail(toClient') = <<>>
<1>1. /\ UNCHANGED <<cmd, dcbs, progVars, tallyVars>>
      /\ toDevice # <<>> /\ toDevice' = Tail(toDevice)
  BY DEF DeviceStep, DeviceServes, DeviceFails, DeviceAnswers, DeviceIgnores, InTrouble, histVars
<1>2. toDevice' = <<>> /\ toClient = <<>>
  BY <1>1 DEF Lockstep
<1>3. Head(toDevice) \in RequestType
  BY <1>1, HeadTailProperties DEF Safe, TypeOK
<1>4. ASSUME NEW S, NEW F \in SUBSET Faults, S \subseteq Answers(Head(toDevice), F), DeviceAnswers(S)
      PROVE  \E a \in Answers(Head(toDevice), F) :
               toClient' # <<>> /\ Head(toClient') = a /\ Tail(toClient') = <<>>
  <2>1. PICK a \in S : toClient' = Append(<<>>, a)
    BY <1>2, <1>4 DEF DeviceAnswers
  <2> QED BY <1>4, <2>1, AppendedFirst
<1>5. CASE DeviceServes
  <2>1. {} \in SUBSET Faults /\ DeviceAnswers(Answers(Head(toDevice), {}))
    BY <1>5 DEF DeviceServes
  <2> QED BY <1>1, <1>2, <1>3, <1>4, <2>1
<1>6. CASE DeviceFails
  <2>1. Faults \in SUBSET Faults
        /\ DeviceAnswers(Answers(Head(toDevice), Faults) \ Answers(Head(toDevice), {}))
    BY <1>6 DEF DeviceFails
  <2> QED BY <1>1, <1>2, <1>3, <1>4, <2>1
<1>7. CASE DeviceIgnores
  BY <1>1, <1>2, <1>3, <1>7 DEF DeviceIgnores
<1> QED BY <1>5, <1>6, <1>7 DEF DeviceStep

\* The step leaves nothing behind that would be late.
NoneLate == ReceiveTimesOut => toDevice = <<>> /\ toClient = <<>>

LEMMA NothingUnderWay ==
  ASSUME MaxInFlight = 1, Safe
  PROVE  NoneLate
<1> SUFFICES ASSUME ReceiveTimesOut PROVE toDevice = <<>> /\ toClient = <<>>
  BY DEF NoneLate
<1>1. Len(toDevice) \in Nat /\ Len(toClient) \in Nat /\ Len(toDevice) + Len(toClient) < 1
  BY LenProperties DEF Safe, TypeOK, ReceiveTimesOut
<1>2. Len(toDevice) = 0 /\ Len(toClient) = 0
  BY <1>1
<1> QED BY <1>2, EmptySeq DEF Safe, TypeOK

LEMMA LockstepKept ==
  ASSUME NoneLate, Safe, Lockstep, [Next]_vars
  PROVE  Lockstep'
<1>1. CASE DeviceStep
  BY <1>1, DeviceInTime DEF Lockstep, progVars
<1>2. CASE SendAuthentication \/ SendCommand
  <2>1. toDevice = <<>> /\ toClient = <<>> /\ values = <<>> /\ ended = "no"
    BY <1>2 DEF Lockstep, SendAuthentication, SendCommand, Sendable
  <2>2. PICK r \in RequestType : toDevice' = Append(<<>>, r)
    BY <1>2, <2>1, RequestsTyped DEF SendAuthentication, SendCommand
  <2>3. Tail(toDevice') = <<>>
    BY <2>2, AppendedFirst
  <2> QED BY <1>2, <2>1, <2>3 DEF Lockstep, SendAuthentication, SendCommand
<1>3. CASE ReceiveFrame
  BY <1>3 DEF ReceiveFrame, Lockstep
<1>4. CASE FrameHandled
  BY <1>4 DEF FrameHandled, Lockstep, netVars
<1>5. CASE ReceiveTimesOut
  BY <1>5 DEF NoneLate, ReceiveTimesOut, Lockstep, netVars
<1>6. CASE ReceiveFails \/ InterruptReceive
  BY <1>6 DEF ReceiveFails, InterruptReceive, Lockstep, netVars
<1>7. CASE Interrupt \/ StopOnInterrupt \/ SendFails
  BY <1>7 DEF Interrupt, StopOnInterrupt, SendFails, Lockstep, netVars
<1>8. CASE WatchPause \/ NextRound \/ Finish
  BY <1>8 DEF WatchPause, NextRound, Finish, Lockstep, netVars
<1>9. CASE HandleResponseValue
  <2>1. UNCHANGED <<ended, netVars>> /\ pc = "values" /\ pc' \in {"values", "exit"}
    BY <1>9 DEF HandleResponseValue, Authenticated, Refused, PrintOnly, PviData, BatError,
       BatPlain, BatDcb, BatRetry, BatSkip, Continues, BatElements, DcbInfoIgnored, DcbInfo,
       Handles, UnchangedByValue
  <2> QED BY <2>1 DEF Lockstep, netVars
<1>10. CASE UNCHANGED vars
  BY <1>10 DEF vars, progVars, netVars, Lockstep
<1> QED BY <1>1, <1>2, <1>3, <1>4, <1>5, <1>6, <1>7, <1>8, <1>9, <1>10
        DEF Next, Program, Environment, Terminated

-----------------------------------------------------------------------------
(* The value asked for is looked for *)

\* The flags are set for the container that the request reads.
LookedThrough(r) ==
  /\ r.read = "bat" => g_ctx.batContainerQuery
  /\ r.read = "pvi" => g_ctx.pviContainerQuery

\* The value asked for, if it came, comes first, and while its flag is up.
Missing == {v \in ValueType : ~v.found}
Findable(f) ==
  f # <<>> =>
    /\ Tail(f) \in Seq(Missing)
    /\ Head(f).found => \/ Head(f).tag = "BAT_DATA" /\ g_ctx.batContainerQuery
                        \/ Head(f).tag = "PVI_DATA" /\ g_ctx.pviContainerQuery

Found ==
  /\ toDevice # <<>> => LookedThrough(Head(toDevice))
  /\ toClient # <<>> => Findable(Head(toClient))
  /\ Findable(values)
  /\ NoWrongNotFound

LEMMA FirstOfCat ==
  ASSUME NEW S, NEW x \in S, NEW T, T \subseteq S, NEW s \in Seq(T)
  PROVE  Head(<<x>> \o s) = x /\ Tail(<<x>> \o s) = s
<1>1. <<x>> \in Seq(S) /\ s \in Seq(S) /\ Len(<<x>>) = 1 /\ <<x>>[1] = x
  BY SeqMonotonic
<1>2. Len(s) \in Nat
  BY LenProperties
<1>3. /\ <<x>> \o s \in Seq(S) /\ Len(<<x>> \o s) = 1 + Len(s)
      /\ \A i \in 1..1 + Len(s) : (<<x>> \o s)[i] = IF i <= 1 THEN <<x>>[i] ELSE s[i - 1]
  BY <1>1, ConcatProperties
<1> DEFINE t == <<x>> \o s
<1> HIDE DEF t
<1>4. t \in Seq(S) /\ Len(t) = 1 + Len(s)
      /\ \A i \in 1..1 + Len(s) : t[i] = IF i <= 1 THEN <<x>>[i] ELSE s[i - 1]
  BY <1>3 DEF t
<1>5. t # <<>> /\ t[1] = x
  BY <1>1, <1>2, <1>4
<1>6. Head(t) = x
  BY <1>4, <1>5
<1>7. Tail(t) \in Seq(S) /\ Len(Tail(t)) = Len(s) /\ \A i \in 1..Len(s) : Tail(t)[i] = s[i]
  <2>1. Tail(t) \in Seq(S) /\ Len(Tail(t)) = Len(t) - 1
        /\ \A i \in 1..Len(Tail(t)) : Tail(t)[i] = t[i + 1]
    BY <1>4, <1>5, HeadTailProperties
  <2> QED BY <1>2, <1>4, <2>1
<1>8. Tail(t) = s
  BY <1>1, <1>7, SeqEqual
<1> QED BY <1>6, <1>8 DEF t

\* Only what is made with found holds the value asked for.
LEMMA MissingValues ==
  ASSUME NEW tag \in Tags
  PROVE  /\ Value(tag) \in Missing /\ Value(tag).tag = tag
         /\ [Value(tag) EXCEPT !.level = 1] \in Missing
         /\ [Value(tag) EXCEPT !.err = TRUE] \in Missing
         /\ [Value(tag) EXCEPT !.found = TRUE] \in ValueType
         /\ [Value(tag) EXCEPT !.found = TRUE].tag = tag
         /\ dcbs \in 0..255 => [Value(tag) EXCEPT !.count = dcbs] \in Missing
         /\ \A i \in 0..255 : Index(tag, i) \in Missing /\ Data(tag, i) \in Missing
<1> DEFINE v == Value(tag)
<1>1. v.found = FALSE /\ v.tag = tag
  BY DEF Value
<1>2. /\ v \in ValueType
      /\ [v EXCEPT !.level = 1] \in ValueType /\ [v EXCEPT !.err = TRUE] \in ValueType
      /\ [v EXCEPT !.found = TRUE] \in ValueType
      /\ dcbs \in 0..255 => [v EXCEPT !.count = dcbs] \in ValueType
      /\ \A i \in 0..255 : Index(tag, i) \in ValueType /\ Data(tag, i) \in ValueType
  BY PlainValueGood DEF GoodValue
<1>7. \A i : Index(tag, i) = [v EXCEPT !.dcb = i] /\ Data(tag, i) = [Index(tag, i) EXCEPT !.fields = TRUE]
  BY DEF Index, Data
<1> HIDE DEF v
<1>3. v \in ValueType /\ v.found = FALSE /\ v.tag = tag
  BY <1>1, <1>2
<1>4. [v EXCEPT !.level = 1].found = FALSE /\ [v EXCEPT !.err = TRUE].found = FALSE
  BY <1>3 DEF ValueType
<1>5. [v EXCEPT !.found = TRUE].tag = tag
  BY <1>3 DEF ValueType
<1>6. ASSUME NEW i
      PROVE  [v EXCEPT !.dcb = i].found = FALSE /\ [v EXCEPT !.count = i].found = FALSE
  BY <1>3 DEF ValueType
<1>8. ASSUME NEW i \in 0..255
      PROVE  Index(tag, i) \in Missing /\ Data(tag, i) \in Missing
  <2> DEFINE w == Index(tag, i)
  <2>1. w \in ValueType /\ w.found = FALSE
    BY <1>2, <1>6, <1>7
  <2>2. [w EXCEPT !.fields = TRUE].found = w.found
    <3> HIDE DEF w
    <3> QED BY <2>1 DEF ValueType
  <2> QED BY <1>2, <1>7, <2>1, <2>2 DEF Missing
<1> QED BY <1>2, <1>3, <1>4, <1>5, <1>6, <1>8 DEF Missing, v

\* A part is the empty sequence or one value.
LEMMA PartIs ==
  ASSUME NEW selected \in BOOLEAN, NEW S, NEW x \in Part(selected, S)
  PROVE  x = <<>> \/ (selected /\ \E v \in S : x = <<v>>)
BY DEF Part

LEMMA PartIn ==
  ASSUME NEW selected \in BOOLEAN, NEW S, NEW T, S \subseteq T, NEW x \in Part(selected, S)
  PROVE  x \in Seq(T)
<1>1. x = <<>> \/ \E v \in T : x = <<v>>
  BY PartIs
<1> QED BY <1>1, Singleton, EmptySeq

\* The parts of the answer: what was read, the dump's, the rest.
ReadPart(r, F)  == Part(r.read # "none", ReadAnswers(r, F))
DumpPart(r, F)  == Part(r.dump # "none", DumpAnswers(r, F))
OtherPart(r, F) == Part(r.others # {}, OrError({Value("PLAIN")}, F))

LEMMA AnswerParts ==
  ASSUME NEW r \in RequestType, ~r.auth, NEW F, NEW x \in Answers(r, F)
  PROVE  \E a \in ReadPart(r, F), b \in DumpPart(r, F), c \in OtherPart(r, F) : x = a \o b \o c
<1>1. Answers(r, F)
        = {a \o b \o c : a \in ReadPart(r, F), b \in DumpPart(r, F), c \in OtherPart(r, F)}
  BY DEF Answers, ReadPart, DumpPart, OtherPart
<1> QED BY <1>1

LEMMA ReadPartIs ==
  ASSUME NEW r, NEW F, NEW a \in ReadPart(r, F)
  PROVE  a = <<>> \/ (r.read # "none" /\ \E v \in ReadAnswers(r, F) : a = <<v>>)
<1>1. (r.read # "none") \in BOOLEAN
  OBVIOUS
<1> QED BY <1>1, PartIs DEF ReadPart

LEMMA ReadFinds ==
  ASSUME NEW r \in RequestType, NEW F, r.read # "none", NEW v \in ReadAnswers(r, F)
  PROVE  /\ v \in ValueType
         /\ v.found => \/ r.read = "bat" /\ v.tag = "BAT_DATA"
                       \/ r.read = "pvi" /\ v.tag = "PVI_DATA"
<1>1. r.read \in {"none", "plain", "bat", "pvi"}
  BY DEF RequestType
<1>2. Value("ERROR") \in Missing /\ Value("PLAIN") \in Missing /\ Missing \subseteq ValueType
  BY MissingValues DEF Tags, Missing
<1>3. CASE r.read = "plain"
  BY <1>2, <1>3 DEF ReadAnswers, OrError, Missing
<1>4. CASE r.read = "bat"
  <2>1. \/ v \in Missing
        \/ v = [Value("BAT_DATA") EXCEPT !.found = TRUE]
    BY <1>2, <1>4, MissingValues DEF ReadAnswers, OrError, Containers, Tags
  <2>2. /\ [Value("BAT_DATA") EXCEPT !.found = TRUE] \in ValueType
        /\ [Value("BAT_DATA") EXCEPT !.found = TRUE].tag = "BAT_DATA"
    BY MissingValues DEF Tags
  <2> QED BY <1>4, <2>1, <2>2 DEF Missing
<1>5. CASE r.read = "pvi"
  <2>1. \/ v \in Missing
        \/ v = [Value("PVI_DATA") EXCEPT !.found = TRUE]
    BY <1>2, <1>5, MissingValues DEF ReadAnswers, OrError, Containers, Tags
  <2>2. /\ [Value("PVI_DATA") EXCEPT !.found = TRUE] \in ValueType
        /\ [Value("PVI_DATA") EXCEPT !.found = TRUE].tag = "PVI_DATA"
    BY MissingValues DEF Tags
  <2> QED BY <1>5, <2>1, <2>2 DEF Missing
<1> QED BY <1>1, <1>3, <1>4, <1>5

LEMMA RestIsMissing ==
  ASSUME NEW r \in RequestType, NEW F, dcbs \in 0..255,
         NEW b \in DumpPart(r, F), NEW c \in OtherPart(r, F)
  PROVE  b \in Seq(Missing) /\ c \in Seq(Missing) /\ b \o c \in Seq(Missing)
<1>1. r.index \in 0..255
  BY DEF RequestType
<1>2. DumpAnswers(r, F) \subseteq Missing
  <2>1. /\ Value("ERROR") \in Missing /\ Value("BAT_DATA") \in Missing
        /\ [Value("BAT_DATA") EXCEPT !.err = TRUE] \in Missing
        /\ [Value("BAT_DATA") EXCEPT !.count = dcbs] \in Missing
        /\ Index("BAT_DATA", r.index) \in Missing
        /\ Data("BAT_DATA", r.index) \in Missing /\ Data("DCB_INFO", r.index) \in Missing
    BY <1>1, MissingValues DEF Tags
  <2> QED BY <2>1 DEF DumpAnswers, OrError, Containers
<1>3. OrError({Value("PLAIN")}, F) \subseteq Missing
  BY MissingValues DEF OrError, Tags
<1>4. b \in Seq(Missing)
  BY <1>2, PartIn DEF DumpPart
<1>5. c \in Seq(Missing)
  BY <1>3, PartIn DEF OtherPart
<1> QED BY <1>4, <1>5, ConcatProperties

LEMMA AnswerFindable ==
  ASSUME NEW r \in RequestType, NEW F, dcbs \in 0..255, LookedThrough(r), NEW x \in Answers(r, F)
  PROVE  Findable(x)
<1>1. Missing \subseteq ValueType
  BY DEF Missing
<1>2. ASSUME NEW v \in ValueType, NEW s \in Seq(Missing), x = <<v>> \o s,
             v.found => \/ r.read = "bat" /\ v.tag = "BAT_DATA"
                        \/ r.read = "pvi" /\ v.tag = "PVI_DATA"
      PROVE  Findable(x)
  <2>1. Head(x) = v /\ Tail(x) = s
    BY <1>1, <1>2, FirstOfCat
  <2> QED BY <1>2, <2>1 DEF Findable, LookedThrough
<1>3. ASSUME x \in Seq(Missing) PROVE Findable(x)
  BY <1>3, HeadTailProperties DEF Findable, Missing
<1>4. CASE r.auth
  <2>1. PICK v \in Missing : x = <<v>>
    <3>1. /\ Value("AUTHENTICATION") \in Missing /\ Value("ERROR") \in Missing
          /\ [Value("AUTHENTICATION") EXCEPT !.level = 1] \in Missing
      BY MissingValues DEF Tags
    <3> QED BY <1>4, <3>1 DEF Answers, OrError
  <2> QED BY <1>3, <2>1, Singleton
<1>5. CASE ~r.auth
  <2>1. PICK a \in ReadPart(r, F), b \in DumpPart(r, F), c \in OtherPart(r, F) : x = a \o b \o c
    BY <1>5, AnswerParts
  <2>2. b \in Seq(Missing) /\ c \in Seq(Missing) /\ b \o c \in Seq(Missing)
    BY RestIsMissing
  <2>3. CASE a = <<>>
    <3>1. a \o b = b
      BY <2>2, <2>3, ConcatEmptySeq
    <3> QED BY <1>3, <2>1, <2>2, <3>1
  <2>4. CASE r.read # "none" /\ \E v \in ReadAnswers(r, F) : a = <<v>>
    <3>1. PICK v \in ReadAnswers(r, F) : a = <<v>>
      BY <2>4
    <3>2. v \in ValueType
      BY <2>4, ReadFinds
    <3>3. a \in Seq(ValueType) /\ b \in Seq(ValueType) /\ c \in Seq(ValueType)
      BY <1>1, <2>2, <3>1, <3>2, Singleton, SeqMonotonic
    <3>4. x = <<v>> \o (b \o c)
      BY <2>1, <3>1, <3>3, ConcatAssociative
    <3> QED BY <1>2, <2>2, <2>4, <3>2, <3>4, ReadFinds
  <2> QED BY <2>3, <2>4, ReadPartIs
<1> QED BY <1>4, <1>5

LEMMA FlagsLookThrough ==
  ASSUME g_ctx \in ContextType, NEW r \in RequestType
  PROVE  /\ r.read = "bat" => FlagsOf(r).batContainerQuery
         /\ r.read = "pvi" => FlagsOf(r).pviContainerQuery
BY DEF FlagsOf, ContextType

\* The handlers deny no value that came.
LEMMA HandlerFound ==
  ASSUME Safe, Lockstep, Found, HandleResponseValue
  PROVE  Found'
<1>1. PICK v : \/ Authenticated(v) \/ Refused(v) \/ PrintOnly(v) \/ PviData(v)
               \/ BatError(v) \/ BatPlain(v) \/ BatDcb(v) \/ BatRetry(v) \/ BatSkip(v)
               \/ DcbInfoIgnored(v) \/ DcbInfo(v)
  BY DEF HandleResponseValue
<1>2. Handles(v) /\ UnchangedByValue
  BY <1>1 DEF Authenticated, Refused, PrintOnly, PviData, BatError, BatPlain, BatDcb,
     BatRetry, BatSkip, Continues, BatElements, DcbInfoIgnored, DcbInfo
<1>3. toDevice' = <<>> /\ toClient' = <<>>
  BY <1>2 DEF Handles, UnchangedByValue, Lockstep, netVars
<1>4. values' \in Seq(Missing)
  BY <1>2 DEF Handles, Found, Findable
<1>5. Findable(values)'
  BY <1>4, HeadTailProperties DEF Findable, Missing, ValueType
<1>6. v.found => \/ v.tag = "BAT_DATA" /\ g_ctx.batContainerQuery
                 \/ v.tag = "PVI_DATA" /\ g_ctx.pviContainerQuery
  BY <1>2 DEF Handles, Found, Findable
<1>7. wrongNotFound' = FALSE
  <2>1. wrongNotFound = FALSE
    BY DEF Found, NoWrongNotFound, Safe, TypeOK
  <2>2. CASE PviData(v)
    BY <1>6, <2>1, <2>2 DEF PviData, Denied
  <2>3. CASE BatPlain(v)
    BY <1>6, <2>1, <2>3 DEF BatPlain, BatElements, Denied
  <2>4. CASE ~PviData(v) /\ ~BatPlain(v)
    BY <1>1, <2>1, <2>4 DEF Authenticated, Refused, PrintOnly, BatError, BatDcb, BatRetry, BatSkip,
       DcbInfoIgnored, DcbInfo
  <2> QED BY <2>2, <2>3, <2>4
<1> QED BY <1>3, <1>5, <1>7 DEF Found, NoWrongNotFound

LEMMA FoundKept ==
  ASSUME Safe, Lockstep, Found, [Next]_vars
  PROVE  Found'
<1>1. CASE DeviceStep
  <2>1. /\ toDevice' = <<>> /\ UNCHANGED <<g_ctx, values, wrongNotFound>>
        /\ LookedThrough(Head(toDevice)) /\ Head(toDevice) \in RequestType
    BY <1>1, DeviceInTime DEF Found, progVars, histVars, tallyVars
  <2>2. Findable(values)' /\ NoWrongNotFound'
    BY <2>1 DEF Found, Findable, NoWrongNotFound
  <2>3. CASE toClient' = <<>>
    BY <2>1, <2>2, <2>3 DEF Found
  <2>4. CASE \E F \in SUBSET Faults : \E a \in Answers(Head(toDevice), F) :
                 toClient' # <<>> /\ Head(toClient') = a /\ Tail(toClient') = <<>>
    <3>1. PICK F \in SUBSET Faults : \E a \in Answers(Head(toDevice), F) : Head(toClient') = a
      BY <2>4
    <3>2. dcbs \in 0..255
      BY BatteriesAssumption DEF Safe, TypeOK
    <3>3. Findable(Head(toClient'))
      BY <2>1, <3>1, <3>2, AnswerFindable
    <3>4. Findable(Head(toClient))'
      BY <2>1, <3>3 DEF Findable
    <3> QED BY <2>1, <2>2, <3>4 DEF Found
  <2> QED BY <1>1, <2>3, <2>4, DeviceInTime
<1>2. CASE SendAuthentication \/ SendCommand
  <2>1. toDevice = <<>> /\ toClient = <<>> /\ values = <<>>
    BY <1>2 DEF Lockstep, SendAuthentication, SendCommand, Sendable
  <2>2. PICK r \in RequestType : /\ toDevice' = Append(<<>>, r)
                                 /\ \/ r.read = "none" /\ g_ctx' = g_ctx
                                    \/ g_ctx' = FlagsOf(r)
    BY <1>2, <2>1, RequestsTyped DEF SendAuthentication, SendCommand, AuthRequest
  <2>3. Head(toDevice') = r
    BY <2>2, AppendedFirst
  <2>4. LookedThrough(Head(toDevice))'
    BY <2>2, <2>3, FlagsLookThrough DEF LookedThrough, Safe, TypeOK
  <2>5. UNCHANGED <<toClient, values, wrongNotFound>>
    BY <1>2 DEF SendAuthentication, SendCommand, histVars, tallyVars
  <2> QED BY <2>1, <2>4, <2>5 DEF Found, Findable, NoWrongNotFound
<1>3. CASE ReceiveFrame
  <2>1. /\ UNCHANGED <<g_ctx, wrongNotFound>> /\ toDevice' = <<>> /\ toClient' = <<>>
        /\ toClient # <<>> /\ values' = Head(toClient)
    BY <1>3 DEF ReceiveFrame, Lockstep, histVars, tallyVars
  <2> QED BY <2>1 DEF Found, Findable, NoWrongNotFound
<1>4. CASE SendFails
  <2>1. toDevice' = <<>> /\ toClient' = <<>> /\ values' = <<>> /\ UNCHANGED wrongNotFound
    BY <1>4 DEF SendFails, Sendable, Lockstep, netVars, histVars, tallyVars
  <2> QED BY <2>1 DEF Found, Findable, NoWrongNotFound
<1>5. CASE HandleResponseValue
  BY <1>5, HandlerFound
<1>6. CASE \/ StopOnInterrupt \/ FrameHandled \/ ReceiveTimesOut \/ ReceiveFails \/ Interrupt
           \/ InterruptReceive \/ WatchPause \/ Finish \/ NextRound \/ UNCHANGED vars
  <2>1. UNCHANGED <<g_ctx, values, toDevice, toClient, wrongNotFound>>
    BY <1>6 DEF StopOnInterrupt, FrameHandled, ReceiveTimesOut, InTrouble, ReceiveFails, Interrupt,
       InterruptReceive, WatchPause, Finish, NextRound, vars, progVars, netVars, histVars, tallyVars
  <2> QED BY <2>1 DEF Found, Findable, LookedThrough, NoWrongNotFound
<1> QED BY <1>1, <1>2, <1>3, <1>4, <1>5, <1>6 DEF Next, Program, Environment, Terminated

LEMMA InitInTime == Init => Lockstep /\ Found
BY DEF Init, Lockstep, Found, Findable, NoWrongNotFound

LEMMA FoundAlways == ASSUME MaxInFlight = 1 PROVE Spec => [](Safe /\ Lockstep /\ Found)
<1>1. Init => Safe /\ Lockstep /\ Found
  BY InitSafe, InitInTime
<1>2. Safe /\ Lockstep /\ Found /\ [Next]_vars => (Safe /\ Lockstep /\ Found)'
  BY NothingUnderWay, NextSafe, LockstepKept, FoundKept
<1> QED BY <1>1, <1>2, PTL DEF Spec

\* With answers in time a quiet query never reports a value missing that came:
\* the container flags of createRequestExample are still up when its answer is
\* handled, for every command line, watched or not, and whatever goes wrong.
THEOREM ValuesAreFound == ASSUME MaxInFlight = 1 PROVE Spec => []NoWrongNotFound
<1>1. Found => NoWrongNotFound
  BY DEF Found
<1> QED BY <1>1, FoundAlways, PTL
-----------------------------------------------------------------------------
(* The dump, outside of watch mode and without a tag of the battery read   *)
(* along.  Every answer is to the request for the DCB that is due, and it  *)
(* holds the battery's container once.                                     *)

Due(g)  == g.needMoreDCBRequests
Done(g) == ~g.needMoreDCBRequests /\ g.totalDCBs # 0

\* A walk that has not begun may begin.
MayBegin(g) == Due(g) \/ Done(g) \/ g.isFirstModuleDumpRequest

\* The DCBs something is known of: those before the one that is due, in the end
\* all, which are none where no number of them has been told.
Accounted == shown \cup warned \cup blank

Account(g, S) == /\ Due(g) => S = 0..(g.currentDCBIndex - 1)
                 /\ ~Due(g) => S = 0..(g.totalDCBs - 1) /\ g.totalDCBs \in {0, dcbs}

\* n failures more would be no more than the k requests for the DCB that is due.
Tried(g, n, k) ==
  Due(g) /\ g.currentDCBIndex > 0 => k >= MaxRetries \/ g.dcbRequestRetries + n <= k

\* All that is said of a walk, but for what is under way.
WalkKept(g, S, k) == MayBegin(g) /\ Tried(g, 0, k) /\ Account(g, S)

LEMMA Interval ==
  ASSUME NEW i \in Nat
  PROVE  (0..(i - 1)) \cup {i} = 0..i
OBVIOUS

\* The two ends of the walk: nothing is due, and the number of DCBs stays.
LEMMA EndFields ==
  ASSUME NEW g \in ContextType, NEW h \in {Over(g), NoneDue(g)}
  PROVE  h.needMoreDCBRequests = FALSE /\ h.totalDCBs = g.totalDCBs
BY DEF ContextType, Over, NoneDue

LEMMA AdvancedRetries ==
  ASSUME NEW g \in ContextType
  PROVE  Advanced(g).dcbRequestRetries = 0
BY DEF ContextType, Advanced

\* Data of the DCB that is due, or a warning, accounts for it; both ways on leave
\* the next one due with no failures, or all done.
LEMMA AccountOn ==
  ASSUME NEW g \in ContextType, Walk(g), Due(g), dcbs \in 0..255,
         NEW S, NEW h \in {GotDcb(g), SkipDcb(g)}
  PROVE  /\ MayBegin(h) /\ Tried(h, 0, 0)
         /\ S = 0..(g.currentDCBIndex - 1) => Account(h, S \cup {g.currentDCBIndex})
<1> DEFINE i == g.currentDCBIndex
           a == Advanced(g)
<1>1. i \in Nat /\ i < dcbs /\ g.totalDCBs = dcbs
  BY DEF Walk, Due, ContextType
<1>2. NextIndex(g) = i + 1
  BY <1>1, NoWrap
<1>3. /\ a \in ContextType
      /\ a.needMoreDCBRequests = g.needMoreDCBRequests /\ a.totalDCBs = dcbs
      /\ a.currentDCBIndex = i + 1 /\ a.dcbRequestRetries = 0
  BY <1>1, <1>2, AdvancedTyped, AdvancedFields, AdvancedRetries
<1>4. ASSUME S = 0..(i - 1) PROVE S \cup {i} = 0..i
  BY <1>1, <1>4, Interval
<1>5. CASE i + 1 < dcbs
  <2>1. h = a
    BY <1>1, <1>2, <1>5 DEF GotDcb, SkipDcb
  <2>5. g.needMoreDCBRequests = TRUE
    BY DEF Due, ContextType
  <2> HIDE DEF a, i
  <2>2. h.needMoreDCBRequests = TRUE /\ h.currentDCBIndex - 1 = i /\ h.dcbRequestRetries + 0 <= 0
    <3>1. h.needMoreDCBRequests = TRUE /\ h.currentDCBIndex = i + 1 /\ h.dcbRequestRetries = 0
      BY <1>3, <2>1, <2>5
    <3> QED BY <1>1, <3>1
  <2>3. MayBegin(h) /\ Tried(h, 0, 0)
    BY <2>2 DEF MayBegin, Tried, Due
  <2>4. ASSUME S = 0..(i - 1) PROVE Account(h, S \cup {i})
    BY <1>4, <2>2, <2>4 DEF Account, Due
  <2> QED BY <2>3, <2>4 DEF i
<1>6. CASE ~(i + 1 < dcbs)
  <2>1. h \in {Over(a), NoneDue(a)}
    BY <1>1, <1>2, <1>6 DEF GotDcb, SkipDcb
  <2> HIDE DEF a, i
  <2>2. h.needMoreDCBRequests = FALSE /\ h.totalDCBs = dcbs
    BY <1>3, <2>1, EndFields
  <2>3. dcbs - 1 = i /\ dcbs # 0
    BY <1>1, <1>6
  <2>4. MayBegin(h) /\ Tried(h, 0, 0)
    BY <2>2, <2>3 DEF MayBegin, Tried, Due, Done
  <2>5. ASSUME S = 0..(i - 1) PROVE Account(h, S \cup {i})
    BY <1>4, <2>2, <2>3, <2>5 DEF Account, Due
  <2> QED BY <2>4, <2>5 DEF i
<1> QED BY <1>5, <1>6

\* Only the fields of the walk matter.
SameFields(g, h) ==
  /\ h.needMoreDCBRequests = g.needMoreDCBRequests
  /\ h.isFirstModuleDumpRequest = g.isFirstModuleDumpRequest
  /\ h.totalDCBs = g.totalDCBs /\ h.currentDCBIndex = g.currentDCBIndex
  /\ h.dcbRequestRetries = g.dcbRequestRetries

LEMMA AnsweredSame ==
  ASSUME NEW g \in ContextType
  PROVE  SameFields(g, Answered(g))
BY AnsweredFields DEF SameFields

LEMMA FlagsSame ==
  ASSUME g_ctx \in ContextType, NEW r
  PROVE  SameFields(g_ctx, FlagsOf(r))
BY DEF SameFields, FlagsOf, ContextType

LEMMA PviSame ==
  ASSUME NEW g \in ContextType
  PROVE  SameFields(g, [g EXCEPT !.pviContainerQuery = FALSE])
BY DEF SameFields, ContextType

LEMMA WalkStays ==
  ASSUME NEW g, NEW h, SameFields(g, h), NEW S, NEW k, WalkKept(g, S, k)
  PROVE  WalkKept(h, S, k)
BY DEF SameFields, WalkKept, Due, Done, MayBegin, Account, Tried

-----------------------------------------------------------------------------
(* The dump's requests and answers *)

\* n is the counter: the login is over.  No more than k requests for the DCB
\* that is due were sent, the one that is under way counted.
Awaited(n, g, k) == n = 1 /\ ~Done(g) /\ Tried(g, 1, k)

AnswersDue(g, v) == IF Due(g) THEN v.count = None /\ v.dcb \in {None, g.currentDCBIndex}
                    ELSE v.dcb = None

\* It asks for what is due; it tells what was asked for, or fails; once in a frame.
TimelyRequest(n, g, k, r) ==
  /\ r.read # "bat"
  /\ r.dump # "none" =>
       /\ Awaited(n, g, k)
       /\ IF Due(g) THEN r.dump = "dcb" /\ r.index = g.currentDCBIndex ELSE r.dump = "first"

TimelyValue(n, g, k, v) ==
  /\ v.tag # "DCB_INFO"
  /\ v.tag = "BAT_DATA" => /\ Awaited(n, g, k) /\ AnswersDue(g, v)
                           /\ v.err => v.count = None /\ v.dcb = None

TimelyFrame(n, g, k, f) ==
  /\ \A i \in DOMAIN f : TimelyValue(n, g, k, f[i])
  /\ \A i, j \in DOMAIN f : f[i].tag = "BAT_DATA" /\ f[j].tag = "BAT_DATA" => i = j

LEMMA SameAwaited ==
  ASSUME NEW g, NEW h, SameFields(g, h), NEW n, NEW k, NEW v
  PROVE  /\ Awaited(n, g, k) => Awaited(n, h, k)
         /\ TimelyValue(n, g, k, v) => TimelyValue(n, h, k, v)
BY DEF SameFields, Awaited, Due, Done, Tried, TimelyValue, AnswersDue

LEMMA SameFrame ==
  ASSUME NEW g, NEW h, SameFields(g, h), NEW n, NEW k, NEW f, TimelyFrame(n, g, k, f)
  PROVE  TimelyFrame(n, h, k, f)
BY SameAwaited DEF TimelyFrame

\* Values that do not concern the dump.
NotOfDump == {v \in GoodValue : v.tag \notin {"BAT_DATA", "DCB_INFO"}}

LEMMA FirstTimely ==
  ASSUME NEW f \in Seq(GoodValue), f # <<>>, NEW n, NEW g, NEW k, TimelyFrame(n, g, k, f)
  PROVE  /\ TimelyValue(n, g, k, Head(f)) /\ TimelyFrame(n, g, k, Tail(f))
         /\ Head(f).tag = "BAT_DATA" => \A m, h, l : TimelyFrame(m, h, l, Tail(f))
<1> DEFINE t == Tail(f)
<1>1. /\ DOMAIN f = 1..Len(f) /\ Len(f) \in Nat /\ Len(f) # 0 /\ Head(f) = f[1]
      /\ t \in Seq(GoodValue) /\ Len(t) = Len(f) - 1 /\ DOMAIN t = 1..Len(t)
      /\ \A i \in 1..Len(t) : t[i] = f[i + 1]
  BY HeadTailProperties, EmptySeq, LenProperties
<1> HIDE DEF t
<1>2. 1 \in DOMAIN f /\ \A i \in DOMAIN t : i + 1 \in DOMAIN f /\ t[i] = f[i + 1] /\ i \in Nat /\ i + 1 # 1
  BY <1>1
<1>3. TimelyValue(n, g, k, Head(f))
  BY <1>1, <1>2 DEF TimelyFrame
<1>4. TimelyFrame(n, g, k, t)
  <2>1. \A i \in DOMAIN t : TimelyValue(n, g, k, t[i])
    BY <1>2 DEF TimelyFrame
  <2>2. ASSUME NEW i \in DOMAIN t, NEW j \in DOMAIN t, t[i].tag = "BAT_DATA", t[j].tag = "BAT_DATA"
        PROVE  i = j
    <3>1. i + 1 = j + 1
      BY <1>2, <2>2 DEF TimelyFrame
    <3> QED BY <1>2, <3>1
  <2> QED BY <2>1, <2>2 DEF TimelyFrame
<1>5. ASSUME Head(f).tag = "BAT_DATA", NEW m, NEW h, NEW l
      PROVE  TimelyFrame(m, h, l, t)
  <2>1. ASSUME NEW i \in DOMAIN t PROVE t[i].tag \notin {"BAT_DATA", "DCB_INFO"}
    BY <1>1, <1>2, <1>5 DEF TimelyFrame, TimelyValue
  <2> QED BY <2>1 DEF TimelyFrame, TimelyValue
<1> QED BY <1>3, <1>4, <1>5 DEF t

\* A frame with one value that is timely among others that are not the dump's.
LEMMA AmongOthers ==
  ASSUME NEW a \in Seq(NotOfDump), NEW c \in Seq(NotOfDump),
         NEW n, NEW g, NEW k, NEW b,
         b = <<>> \/ (\E v \in GoodValue : b = <<v>> /\ TimelyValue(n, g, k, v))
  PROVE  TimelyFrame(n, g, k, a \o b \o c)
<1> DEFINE x == a \o b \o c
<1>1. NotOfDump \subseteq GoodValue
  BY DEF NotOfDump
<1>2. /\ a \in Seq(GoodValue) /\ b \in Seq(GoodValue) /\ c \in Seq(GoodValue)
      /\ Len(a) \in Nat /\ Len(b) \in {0, 1} /\ Len(c) \in Nat
      /\ \A i \in 1..Len(b) : i = 1 /\ TimelyValue(n, g, k, b[i])
  <2>1. a \in Seq(GoodValue) /\ c \in Seq(GoodValue)
    BY <1>1, SeqMonotonic
  <2>2. Len(a) \in Nat /\ Len(c) \in Nat
    BY <2>1, LenProperties
  <2>3. CASE b = <<>>
    BY <2>1, <2>2, <2>3, EmptySeq
  <2>4. CASE \E v \in GoodValue : b = <<v>> /\ TimelyValue(n, g, k, v)
    <3>1. PICK v \in GoodValue : b = <<v>> /\ TimelyValue(n, g, k, v)
      BY <2>4
    <3>2. b \in Seq(GoodValue) /\ Len(b) = 1 /\ b[1] = v
      BY <3>1, Singleton
    <3>3. ASSUME NEW i \in 1..Len(b) PROVE i = 1 /\ TimelyValue(n, g, k, b[i])
      <4>1. i = 1
        BY <3>2
      <4> QED BY <3>1, <3>2, <4>1
    <3> QED BY <2>1, <2>2, <3>2, <3>3
  <2> QED BY <2>3, <2>4
<1>3. /\ a \o b \in Seq(GoodValue) /\ Len(a \o b) = Len(a) + Len(b)
      /\ \A i \in 1..Len(a) + Len(b) : (a \o b)[i] = IF i <= Len(a) THEN a[i] ELSE b[i - Len(a)]
  BY <1>2, ConcatProperties
<1>4. /\ DOMAIN x = 1..Len(a \o b) + Len(c)
      /\ \A i \in 1..Len(a \o b) + Len(c) :
           x[i] = IF i <= Len(a \o b) THEN (a \o b)[i] ELSE c[i - Len(a \o b)]
  BY <1>2, <1>3, ConcatProperties, LenProperties
<1> HIDE DEF x
<1>5. /\ \A i \in 1..Len(a) : a[i] \in NotOfDump
      /\ \A i \in 1..Len(c) : c[i] \in NotOfDump
  BY ElementOfSeq
<1>6. ASSUME NEW i \in DOMAIN x
      PROVE  x[i] \in NotOfDump \/ (i = Len(a) + 1 /\ TimelyValue(n, g, k, x[i]))
  <2>1. i \in 1..Len(a) + Len(b) + Len(c)
    BY <1>2, <1>3, <1>4
  <2>2. CASE i <= Len(a)
    <3>1. x[i] = a[i] /\ i \in 1..Len(a)
      BY <1>2, <1>3, <1>4, <2>1, <2>2
    <3> QED BY <1>5, <3>1
  <2>3. CASE i > Len(a) /\ i <= Len(a) + Len(b)
    <3>1. x[i] = b[i - Len(a)] /\ i - Len(a) \in 1..Len(b)
      BY <1>2, <1>3, <1>4, <2>1, <2>3
    <3>2. i - Len(a) = 1 /\ TimelyValue(n, g, k, b[i - Len(a)])
      BY <1>2, <3>1
    <3> QED BY <1>2, <2>1, <3>1, <3>2
  <2>4. CASE i > Len(a) + Len(b)
    <3>1. x[i] = c[i - Len(a \o b)] /\ i - Len(a \o b) \in 1..Len(c)
      BY <1>2, <1>3, <1>4, <2>1, <2>4
    <3> QED BY <1>5, <3>1
  <2> QED BY <1>2, <2>1, <2>2, <2>3, <2>4
<1>7. \A i \in DOMAIN x : TimelyValue(n, g, k, x[i])
  BY <1>6 DEF NotOfDump, TimelyValue
<1>8. \A i, j \in DOMAIN x : x[i].tag = "BAT_DATA" /\ x[j].tag = "BAT_DATA" => i = j
  BY <1>6 DEF NotOfDump
<1> QED BY <1>7, <1>8 DEF TimelyFrame, x

\* What there is in a value as the station makes it.
LEMMA MadeValues ==
  ASSUME NEW tag
  PROVE  /\ Value(tag).tag = tag /\ Value(tag).count = None /\ Value(tag).dcb = None
         /\ [Value(tag) EXCEPT !.level = 1].tag = tag
         /\ [Value(tag) EXCEPT !.found = TRUE].tag = tag
         /\ LET e == [Value(tag) EXCEPT !.err = TRUE]
            IN e.tag = tag /\ e.count = None /\ e.dcb = None
         /\ \A i : LET w == [Value(tag) EXCEPT !.count = i]
                   IN w.tag = tag /\ w.dcb = None /\ ~w.err
         /\ \A i : /\ Index(tag, i).tag = tag /\ Index(tag, i).count = None
                   /\ Index(tag, i).dcb = i /\ ~Index(tag, i).err
         /\ \A i : /\ Data(tag, i).tag = tag /\ Data(tag, i).count = None
                   /\ Data(tag, i).dcb = i /\ ~Data(tag, i).err
<1>1. Value(tag).tag = tag /\ Value(tag).count = None /\ Value(tag).dcb = None
  BY DEF Value
<1>2. [Value(tag) EXCEPT !.level = 1].tag = tag
  BY DEF Value
<1>3. [Value(tag) EXCEPT !.found = TRUE].tag = tag
  BY DEF Value
<1>4. LET e == [Value(tag) EXCEPT !.err = TRUE] IN e.tag = tag /\ e.count = None /\ e.dcb = None
  BY DEF Value
<1>5. ASSUME NEW i PROVE LET w == [Value(tag) EXCEPT !.count = i] IN w.tag = tag /\ w.dcb = None /\ ~w.err
  BY DEF Value
<1>6. ASSUME NEW i
      PROVE  /\ Index(tag, i).tag = tag /\ Index(tag, i).count = None
             /\ Index(tag, i).dcb = i /\ ~Index(tag, i).err
  BY DEF Index, Value
<1>7. ASSUME NEW i
      PROVE  /\ Data(tag, i).tag = tag /\ Data(tag, i).count = None
             /\ Data(tag, i).dcb = i /\ ~Data(tag, i).err
  BY DEF Data, Index, Value
<1> QED BY <1>1, <1>2, <1>3, <1>4, <1>5, <1>6, <1>7

\* Values of any other kind do not concern the dump, whatever is in them.
LEMMA ValuesNotOfDump ==
  ASSUME NEW t \in {"PLAIN", "ERROR", "PVI_DATA"}
  PROVE  /\ Value(t) \in NotOfDump
         /\ [Value(t) EXCEPT !.err = TRUE] \in NotOfDump
         /\ [Value(t) EXCEPT !.found = TRUE] \in NotOfDump
<1>1. t \in Tags /\ t \notin {"BAT_DATA", "DCB_INFO"}
  BY DEF Tags
<1>2. /\ Value(t) \in GoodValue /\ [Value(t) EXCEPT !.err = TRUE] \in GoodValue
      /\ [Value(t) EXCEPT !.found = TRUE] \in GoodValue
  BY <1>1, PlainValueGood
<1>3. /\ Value(t).tag = t /\ [Value(t) EXCEPT !.err = TRUE].tag = t
      /\ [Value(t) EXCEPT !.found = TRUE].tag = t
  BY MadeValues
<1> QED BY <1>1, <1>2, <1>3 DEF NotOfDump

\* What is read outside of the battery, and what else is asked for, does not concern it.
LEMMA ReadNotOfDump ==
  ASSUME NEW r \in RequestType, r.read # "bat", NEW F, NEW a \in ReadPart(r, F)
  PROVE  a \in Seq(NotOfDump)
<1>1. r.read \in {"none", "plain", "bat", "pvi"}
  BY DEF RequestType
<1>2. /\ Value("PLAIN") \in NotOfDump /\ Value("ERROR") \in NotOfDump /\ Value("PVI_DATA") \in NotOfDump
      /\ [Value("PVI_DATA") EXCEPT !.err = TRUE] \in NotOfDump
      /\ [Value("PVI_DATA") EXCEPT !.found = TRUE] \in NotOfDump
  BY ValuesNotOfDump
<1>3. r.read # "none" => ReadAnswers(r, F) \subseteq NotOfDump
  BY <1>1, <1>2 DEF ReadAnswers, OrError, Containers
<1>4. a = <<>> \/ \E v \in NotOfDump : a = <<v>>
  BY <1>3, ReadPartIs
<1> QED BY <1>4, Singleton, EmptySeq

LEMMA OtherNotOfDump ==
  ASSUME NEW r, NEW F, NEW c \in OtherPart(r, F)
  PROVE  c \in Seq(NotOfDump)
<1>1. Value("PLAIN") \in NotOfDump /\ Value("ERROR") \in NotOfDump
  BY ValuesNotOfDump
<1>2. OrError({Value("PLAIN")}, F) \subseteq NotOfDump
  BY <1>1 DEF OrError
<1>3. (r.others # {}) \in BOOLEAN
  OBVIOUS
<1> QED BY <1>2, <1>3, PartIn DEF OtherPart

\* The answer to the dump's part is what is due: the number of DCBs, or data of the
\* DCB that was asked for, or neither.
LEMMA DumpAnswerDue ==
  ASSUME NEW r \in RequestType, NEW F, "toplevel" \notin F, dcbs \in 0..255,
         NEW g \in ContextType, Walk(g), NEW n, NEW k, TimelyRequest(n, g, k, r),
         r.dump # "none", NEW v \in DumpAnswers(r, F)
  PROVE  v \in GoodValue /\ TimelyValue(n, g, k, v)
<1>1. Awaited(n, g, k) /\ IF Due(g) THEN r.dump = "dcb" /\ r.index = g.currentDCBIndex ELSE r.dump = "first"
  BY DEF TimelyRequest
<1>2. r.index \in 0..255
  BY DEF RequestType
<1> DEFINE e == Value("ERROR")
           p == Value("BAT_DATA")
           f == [Value("BAT_DATA") EXCEPT !.err = TRUE]
           c == [Value("BAT_DATA") EXCEPT !.count = dcbs]
           i == Index("BAT_DATA", r.index)
           d == Data("BAT_DATA", r.index)
<1>3. /\ e \in GoodValue /\ p \in GoodValue /\ f \in GoodValue /\ c \in GoodValue
      /\ i \in GoodValue /\ d \in GoodValue
  BY <1>2, PlainValueGood DEF Tags
<1>4. TimelyValue(n, g, k, e)
  BY MadeValues DEF TimelyValue
<1>5. TimelyValue(n, g, k, p) /\ TimelyValue(n, g, k, f)
  BY <1>1, MadeValues DEF TimelyValue, AnswersDue
<1>6. ~Due(g) => TimelyValue(n, g, k, c)
  BY <1>1, MadeValues DEF TimelyValue, AnswersDue
<1>7. Due(g) => TimelyValue(n, g, k, i) /\ TimelyValue(n, g, k, d)
  BY <1>1, MadeValues DEF TimelyValue, AnswersDue
<1>8. CASE Due(g)
  <2>1. r.dump = "dcb" /\ r.index < dcbs
    BY <1>1, <1>8 DEF Walk, Due
  <2>2. v \in {e, p, f, i, d}
    BY <2>1 DEF DumpAnswers, OrError, Containers
  <2> HIDE DEF e, p, f, i, d
  <2> QED BY <1>3, <1>4, <1>5, <1>7, <1>8, <2>2
<1>9. CASE ~Due(g)
  <2>1. r.dump = "first"
    BY <1>1, <1>9
  <2>2. v \in {e, p, f, c}
    BY <2>1 DEF DumpAnswers, OrError, Containers
  <2> HIDE DEF e, p, f, c
  <2> QED BY <1>3, <1>4, <1>5, <1>6, <1>9, <2>2
<1> QED BY <1>8, <1>9

LEMMA AnswerTimely ==
  ASSUME NEW r \in RequestType, NEW F, "toplevel" \notin F, dcbs \in 0..255,
         NEW g \in ContextType, Walk(g), NEW n, NEW k, TimelyRequest(n, g, k, r),
         NEW x \in Answers(r, F)
  PROVE  TimelyFrame(n, g, k, x)
<1>1. CASE r.auth
  <2>1. PICK v : x = <<v>> /\ v.tag \in {"AUTHENTICATION", "ERROR"}
    <3> DEFINE y == [Value("AUTHENTICATION") EXCEPT !.level = 1]
               S == OrError({y} \cup {Value("AUTHENTICATION") : f \in F \cap {"denied"}}, F)
    <3>1. PICK v \in S : x = <<v>>
      BY <1>1 DEF Answers
    <3>2. v \in {y, Value("AUTHENTICATION"), Value("ERROR")}
      BY DEF OrError
    <3>3. y.tag = "AUTHENTICATION" /\ Value("AUTHENTICATION").tag = "AUTHENTICATION"
          /\ Value("ERROR").tag = "ERROR"
      BY MadeValues
    <3> HIDE DEF y
    <3> QED BY <3>1, <3>2, <3>3
  <2>2. DOMAIN x = {1} /\ x[1] = v
    BY <2>1
  <2> QED BY <2>1, <2>2 DEF TimelyFrame, TimelyValue
<1>2. CASE ~r.auth
  <2>1. PICK a \in ReadPart(r, F), b \in DumpPart(r, F), c \in OtherPart(r, F) : x = a \o b \o c
    BY <1>2, AnswerParts
  <2>2. a \in Seq(NotOfDump) /\ c \in Seq(NotOfDump)
    BY ReadNotOfDump, OtherNotOfDump DEF TimelyRequest
  <2>3. b = <<>> \/ (r.dump # "none" /\ \E v \in DumpAnswers(r, F) : b = <<v>>)
    <3>1. (r.dump # "none") \in BOOLEAN
      OBVIOUS
    <3> QED BY <3>1, PartIs DEF DumpPart
  <2>4. b = <<>> \/ \E v \in GoodValue : b = <<v>> /\ TimelyValue(n, g, k, v)
    BY <2>3, DumpAnswerDue
  <2> QED BY <2>1, <2>2, <2>4, AmongOthers
<1> QED BY <1>1, <1>2

-----------------------------------------------------------------------------
(* The BAT_DATA handler on a timely answer *)

\* A walk that is neither under way nor over has nothing to account for.
LEMMA NothingDue ==
  ASSUME NEW h, ~h.needMoreDCBRequests, h.totalDCBs = 0, h.isFirstModuleDumpRequest
  PROVE  \A k : WalkKept(h, {}, k)
<1>1. 0..(h.totalDCBs - 1) = {}
  OBVIOUS
<1> QED BY <1>1 DEF WalkKept, MayBegin, Tried, Account, Due, Done

LEMMA WalkedOn ==
  ASSUME NEW g \in ContextType, Walk(g), Due(g), dcbs \in 0..255,
         NEW h \in {GotDcb(g), SkipDcb(g)},
         NEW S, NEW T, S = 0..(g.currentDCBIndex - 1), T = S \cup {g.currentDCBIndex}
  PROVE  WalkKept(Answered(h), T, 0)
<1>1. h \in ContextType
  BY WalkOnTyped
<1>2. MayBegin(h) /\ Tried(h, 0, 0)
  BY AccountOn
<1>3. Account(h, T)
  BY AccountOn
<1>4. WalkKept(h, T, 0)
  BY <1>2, <1>3 DEF WalkKept
<1> QED BY <1>1, <1>4, AnsweredSame, WalkStays

\* One failure more for the DCB that is due.
LEMMA Retried ==
  ASSUME NEW g \in ContextType, Due(g), NEW S, NEW k \in Nat, MayBegin(g), Tried(g, 1, k),
         Account(g, S)
  PROVE  WalkKept(Answered([g EXCEPT !.dcbRequestRetries = NextRetry(g)]), S, k)
<1> DEFINE h == [g EXCEPT !.dcbRequestRetries = NextRetry(g)]
<1>1. NextRetry(g) \in 0..255 /\ NextRetry(g) <= g.dcbRequestRetries + 1
      /\ g.dcbRequestRetries + 1 \in Nat
  BY DEF NextRetry, ContextType
<1>2. h \in ContextType
  BY <1>1, FieldTyped
<1>3. /\ h.needMoreDCBRequests = g.needMoreDCBRequests /\ h.totalDCBs = g.totalDCBs
      /\ h.isFirstModuleDumpRequest = g.isFirstModuleDumpRequest
      /\ h.currentDCBIndex = g.currentDCBIndex /\ h.dcbRequestRetries = NextRetry(g)
  BY <1>1, RetriesFields
<1> HIDE DEF h
<1>4. MayBegin(h) /\ Account(h, S)
  BY <1>3 DEF MayBegin, Account, Due, Done
<1>5. Tried(h, 0, k)
  <2> SUFFICES ASSUME g.currentDCBIndex > 0, ~(k >= MaxRetries)
               PROVE  h.dcbRequestRetries + 0 <= k
    BY <1>3 DEF Tried
  <2>1. g.dcbRequestRetries + 1 <= k
    BY DEF Tried
  <2> QED BY <1>1, <1>3, <2>1
<1>6. WalkKept(h, S, k)
  BY <1>4, <1>5 DEF WalkKept
<1> QED BY <1>2, <1>6, AnsweredSame, WalkStays DEF h

\* A DCB is given up when its failures are as many as max_retries.
LEMMA SkippedWhenTried ==
  ASSUME NEW g \in ContextType, Due(g), g.currentDCBIndex > 0, NEW k \in Nat, Tried(g, 1, k),
         NextRetry(g) >= MaxRetries
  PROVE  k >= MaxRetries
<1>1. NextRetry(g) <= g.dcbRequestRetries + 1 /\ NextRetry(g) \in Nat /\ g.dcbRequestRetries + 1 \in Nat
  BY DEF NextRetry, ContextType
<1>2. k >= MaxRetries \/ g.dcbRequestRetries + 1 <= k
  BY DEF Tried
<1> QED BY <1>1, <1>2, RetriesAssumption

\* The number of DCBs stays on every way on.
LEMMA TotalStays ==
  ASSUME NEW g \in ContextType
  PROVE  /\ Answered(GotDcb(g)).totalDCBs = g.totalDCBs
         /\ Answered(SkipDcb(g)).totalDCBs = g.totalDCBs
         /\ Answered([g EXCEPT !.dcbRequestRetries = NextRetry(g)]).totalDCBs = g.totalDCBs
<1> DEFINE a == Advanced(g)
           r == [g EXCEPT !.dcbRequestRetries = NextRetry(g)]
<1>1. a \in ContextType /\ a.totalDCBs = g.totalDCBs
  BY AdvancedTyped, AdvancedFields
<1>2. NextRetry(g) \in 0..255
  BY DEF NextRetry, ContextType
<1>3. r \in ContextType /\ r.totalDCBs = g.totalDCBs
  BY <1>2, FieldTyped, RetriesFields
<1>4. GotDcb(g) \in {a, Over(a)} /\ SkipDcb(g) \in {a, NoneDue(a)}
  BY DEF GotDcb, SkipDcb
<1> HIDE DEF a, r
<1>5. /\ GotDcb(g) \in ContextType /\ GotDcb(g).totalDCBs = g.totalDCBs
      /\ SkipDcb(g) \in ContextType /\ SkipDcb(g).totalDCBs = g.totalDCBs
  BY <1>1, <1>4, EndFields, WalkOnTyped
<1> QED BY <1>3, <1>5, AnsweredFields DEF r

BatData(v) == BatError(v) \/ BatPlain(v) \/ BatDcb(v) \/ BatRetry(v) \/ BatSkip(v)

\* While a DCB is due.
LEMMA AnswerToDcb ==
  ASSUME Safe, NEW v \in GoodValue, TimelyValue(counter, g_ctx, attempts, v), v.tag = "BAT_DATA",
         WalkKept(g_ctx, Accounted, attempts), Due(g_ctx), BatData(v)
  PROVE  /\ WalkKept(g_ctx', Accounted', attempts') /\ g_ctx'.totalDCBs = dcbs
         /\ \A i \in warned' \ warned : i > 0 => attempts >= MaxRetries
<1> DEFINE i == g_ctx.currentDCBIndex
           S == Accounted
<1>1. g_ctx \in ContextType /\ Walk(g_ctx) /\ dcbs \in 0..255 /\ attempts \in Nat
  BY BatteriesAssumption, RetriesAssumption DEF Safe, TypeOK
<1>2. /\ Tried(g_ctx, 1, attempts) /\ v.count = None /\ v.dcb \in {None, i}
      /\ v.err => v.dcb = None
  BY DEF TimelyValue, Awaited, AnswersDue
<1>3. /\ cmd.dump /\ ~g_ctx.isFirstModuleDumpRequest /\ i < dcbs /\ i \in Nat
  BY <1>1 DEF Walk, Due, ContextType
<1>4. ~StartsDump(v) /\ CountSeen(v) = g_ctx /\ Before(v, shown) = shown /\ Before(v, blank) = blank
  BY <1>2, <1>3 DEF StartsDump, CountSeen, Before, None
<1>5. /\ v.dcb = None => Reports(v) = shown /\ Blanks(v) = blank
      /\ v.dcb = i => Reports(v) \cup Blanks(v) = shown \cup blank \cup {i}
  <2>1. v.dcb = None => Reports(v) = shown /\ Blanks(v) = blank
    BY <1>4 DEF Reports, Blanks, Shows, Holds, None
  <2>2. CASE v.dcb = i /\ Shows(v)
    <3>1. Reports(v) = shown \cup {i} /\ Blanks(v) = blank
      BY <1>3, <1>4, <2>2 DEF Reports, Blanks
    <3> QED BY <1>3, <2>2, <3>1 DEF None
  <2>3. CASE v.dcb = i /\ ~Shows(v)
    <3>1. Reports(v) = shown /\ Blanks(v) = blank \cup {i}
      BY <1>3, <1>4, <2>3 DEF Reports, Blanks, None
    <3> QED BY <1>3, <2>3, <3>1 DEF None
  <2> QED BY <2>1, <2>2, <2>3
<1>6. S = 0..(i - 1)
  BY DEF WalkKept, Account
<1>12. g_ctx.totalDCBs = dcbs
  BY <1>1 DEF Walk, Due
<1>7. CASE BatError(v)
  <2>1. /\ g_ctx' = Answered(g_ctx) /\ attempts' = attempts /\ warned' = warned
        /\ shown' = shown /\ blank' = blank
    BY <1>2, <1>4, <1>5, <1>7 DEF BatError, BatElements
  <2>2. SameFields(g_ctx, g_ctx') /\ Accounted' = S
    BY <1>1, <2>1, AnsweredSame DEF Accounted
  <2>3. g_ctx'.totalDCBs = dcbs
    BY <1>12, <2>2 DEF SameFields
  <2> QED BY <2>1, <2>2, <2>3, WalkStays
<1>8. CASE BatPlain(v)
  BY <1>4, <1>8 DEF BatPlain, Due
<1>9. CASE BatDcb(v)
  <2>1. /\ g_ctx' = Answered(GotDcb(g_ctx)) /\ attempts' = 0 /\ warned' = warned
        /\ shown' = Reports(v) /\ blank' = Blanks(v) /\ v.dcb = i
    BY <1>2, <1>4, <1>9 DEF BatDcb, Continues, BatElements
  <2>2. Accounted' = S \cup {i}
    BY <1>5, <2>1 DEF Accounted
  <2>3. WalkKept(Answered(GotDcb(g_ctx)), Accounted', 0)
    BY <1>1, <1>6, <2>2, WalkedOn
  <2>4. Answered(GotDcb(g_ctx)).totalDCBs = dcbs
    BY <1>1, <1>12, TotalStays
  <2> QED BY <2>1, <2>3, <2>4
<1>10. CASE BatRetry(v)
  <2>1. /\ g_ctx' = Answered([g_ctx EXCEPT !.dcbRequestRetries = NextRetry(g_ctx)])
        /\ attempts' = attempts /\ warned' = warned /\ shown' = shown /\ blank' = blank
    BY <1>4, <1>5, <1>10 DEF BatRetry, Continues, BatElements
  <2>2. MayBegin(g_ctx) /\ Account(g_ctx, S)
    BY DEF WalkKept
  <2>3. WalkKept(Answered([g_ctx EXCEPT !.dcbRequestRetries = NextRetry(g_ctx)]), S, attempts)
    BY <1>1, <1>2, <2>2, Retried
  <2>4. Answered([g_ctx EXCEPT !.dcbRequestRetries = NextRetry(g_ctx)]).totalDCBs = dcbs
    BY <1>1, <1>12, TotalStays
  <2>5. Accounted' = S
    BY <2>1 DEF Accounted
  <2> QED BY <2>1, <2>3, <2>4, <2>5
<1>11. CASE BatSkip(v)
  <2>1. /\ g_ctx' = Answered(SkipDcb(g_ctx)) /\ attempts' = 0 /\ warned' = warned \cup {i}
        /\ shown' = shown /\ blank' = blank /\ NextRetry(g_ctx) >= MaxRetries
    BY <1>4, <1>5, <1>11 DEF BatSkip, Continues, BatElements
  <2>2. Accounted' = S \cup {i}
    BY <2>1 DEF Accounted
  <2>3. WalkKept(Answered(SkipDcb(g_ctx)), Accounted', 0)
    BY <1>1, <1>6, <2>2, WalkedOn
  <2>5. Answered(SkipDcb(g_ctx)).totalDCBs = dcbs
    BY <1>1, <1>12, TotalStays
  <2>4. i > 0 => attempts >= MaxRetries
    BY <1>1, <1>2, <2>1, SkippedWhenTried
  <2> QED BY <2>1, <2>3, <2>4, <2>5
<1> QED BY <1>7, <1>8, <1>9, <1>10, <1>11 DEF BatData

\* At the beginning: the number of DCBs, none, or an answer that does not tell.
LEMMA AnswerWithCount ==
  ASSUME Safe, cmd.dump,
         NEW v \in GoodValue, TimelyValue(counter, g_ctx, attempts, v), v.tag = "BAT_DATA",
         WalkKept(g_ctx, Accounted, attempts), ~Due(g_ctx), BatData(v)
  PROVE  /\ WalkKept(g_ctx', Accounted', attempts')
         /\ v.count = dcbs \/ dcbs = 0 => g_ctx'.totalDCBs = dcbs
         /\ \A i \in warned' \ warned : i > 0 => attempts >= MaxRetries
<1>1. g_ctx \in ContextType /\ Walk(g_ctx) /\ dcbs \in 0..255
  BY BatteriesAssumption DEF Safe, TypeOK
<1>2. /\ g_ctx.totalDCBs = 0 /\ ~g_ctx.needMoreDCBRequests /\ g_ctx.isFirstModuleDumpRequest
      /\ v.dcb = None /\ (v.err => v.count = None)
  BY DEF TimelyValue, Awaited, AnswersDue, WalkKept, MayBegin, Due, Done
<1>5. shown = {} /\ warned = {} /\ blank = {}
  <2>1. Accounted = {}
    BY <1>2 DEF WalkKept, Account, Due
  <2> QED BY <2>1 DEF Accounted
<1>6. Reports(v) = {} /\ Blanks(v) = {}
  BY <1>2, <1>5 DEF Reports, Blanks, Before, Shows, Holds, None
<1>3. CASE StartsDump(v)
  <2> DEFINE h == Begun(g_ctx, dcbs)
  <2>1. CountSeen(v) = h /\ dcbs > 0 /\ dcbs \in 0..255 /\ ~v.err
    BY <1>2, <1>3, CountStarts DEF StartsDump, None
  <2>2. h \in ContextType /\ Walk(h)
    BY <1>1, <2>1, CountTyped, CountWalks
  <2>3. /\ h.needMoreDCBRequests = TRUE /\ h.currentDCBIndex = 0 /\ h.isFirstModuleDumpRequest = FALSE
    BY <1>1, CountFields
  <2>4. h.totalDCBs = dcbs
    BY <1>1, CountFields
  <2> HIDE DEF h
  <2>5. CASE BatError(v) \/ BatPlain(v) \/ BatDcb(v)
    BY <1>2, <2>1, <2>3, <2>5 DEF BatError, BatPlain, BatDcb
  <2>6. CASE BatRetry(v)
    <3>1. /\ g_ctx' = Answered([h EXCEPT !.dcbRequestRetries = NextRetry(h)])
          /\ attempts' = 0 /\ warned' = {} /\ shown' = {} /\ blank' = {}
      BY <1>3, <1>6, <2>1, <2>6 DEF BatRetry, Continues, BatElements
    <3>2. Due(h) /\ MayBegin(h) /\ Tried(h, 1, 0) /\ Account(h, {})
      BY <2>3 DEF Due, MayBegin, Tried, Account, Done
    <3>3. WalkKept(Answered([h EXCEPT !.dcbRequestRetries = NextRetry(h)]), {}, 0)
      BY <2>2, <3>2, Retried
    <3>4. Answered([h EXCEPT !.dcbRequestRetries = NextRetry(h)]).totalDCBs = dcbs
      BY <2>2, <2>4, TotalStays
    <3>5. Accounted' = {}
      BY <3>1 DEF Accounted
    <3> QED BY <3>1, <3>3, <3>4, <3>5
  <2>7. CASE BatSkip(v)
    <3>1. /\ g_ctx' = Answered(SkipDcb(h)) /\ attempts' = 0 /\ warned' = {0}
          /\ shown' = {} /\ blank' = {}
      BY <1>3, <1>6, <2>1, <2>3, <2>7 DEF BatSkip, Continues, BatElements
    <3>2. Due(h) /\ {} = 0..(h.currentDCBIndex - 1) /\ {0} = {} \cup {h.currentDCBIndex}
      BY <2>3 DEF Due
    <3>3. WalkKept(Answered(SkipDcb(h)), {0}, 0)
      BY <1>1, <2>2, <3>2, WalkedOn
    <3>4. Accounted' = {0}
      BY <3>1 DEF Accounted
    <3>5. Answered(SkipDcb(h)).totalDCBs = dcbs
      BY <2>2, <2>4, TotalStays
    <3> QED BY <3>1, <3>3, <3>4, <3>5
  <2> QED BY <2>5, <2>6, <2>7 DEF BatData
<1>4. CASE ~StartsDump(v)
  <2>1. CountSeen(v) \in {g_ctx, CalledOff(g_ctx)}
    <3>1. v.count \in {None} \cup 0..255
      BY DEF GoodValue, ValueType
    <3>2. v.count # None /\ v.count # 0 => v.count > 0
      BY <3>1
    <3> QED BY <1>2, <1>4, <3>2 DEF CountSeen, StartsDump
  <2>2. /\ CalledOff(g_ctx) \in ContextType /\ CalledOff(g_ctx).totalDCBs = 0
        /\ ~CalledOff(g_ctx).needMoreDCBRequests /\ CalledOff(g_ctx).isFirstModuleDumpRequest
    <3>1. CalledOff(g_ctx).totalDCBs = 0
      BY <1>1 DEF CalledOff, Over, ContextType
    <3>2. CalledOff(g_ctx) \in ContextType
      BY <1>1, CountTyped
    <3> QED BY <1>1, <3>1, <3>2, CountFields
  <2> DEFINE h == CountSeen(v)
  <2>3. h \in ContextType /\ h.totalDCBs = 0 /\ ~h.needMoreDCBRequests /\ h.isFirstModuleDumpRequest
    BY <1>1, <1>2, <2>1, <2>2
  <2>4. g_ctx' = Answered(h) /\ warned' = warned /\ shown' = {} /\ blank' = {}
    BY <1>4, <1>6, <2>3 DEF BatData, BatError, BatPlain, BatDcb, BatRetry, BatSkip, Continues, BatElements
  <2>7. v.count = dcbs => dcbs = 0
    BY <1>1, <1>2, <1>4 DEF StartsDump
  <2> HIDE DEF h
  <2>5. \A k : WalkKept(h, {}, k)
    BY <2>3, NothingDue
  <2>6. WalkKept(Answered(h), {}, attempts') /\ Answered(h).totalDCBs = 0
    BY <2>3, <2>5, AnsweredSame, AnsweredFields, WalkStays
  <2>8. Accounted' = {}
    BY <1>5, <2>4 DEF Accounted
  <2> QED BY <2>4, <2>6, <2>7, <2>8
<1> QED BY <1>3, <1>4

-----------------------------------------------------------------------------
(* The invariant of the dump in time *)

\* A dump that has the battery's containers to itself and comes to an end.
InTimeDump == cmd.dump /\ ~cmd.watch /\ cmd.read # "bat"

\* Of the request, the answer or the values that are under way, whichever it is,
\* what belongs to the dump is for the DCB that is due; the rest is about the walk.
Timely ==
  InTimeDump =>
    /\ toDevice # <<>> => TimelyRequest(counter, g_ctx, attempts, Head(toDevice))
    /\ toClient # <<>> => TimelyFrame(counter, g_ctx, attempts, Head(toClient))
    /\ TimelyFrame(counter, g_ctx, attempts, values)
    /\ WalkKept(g_ctx, Accounted, attempts)
    /\ Done(g_ctx) => counter = 1 /\ pc \notin {"send", "recv"}

LEMMA TimelyAgain ==
  ASSUME Fixed,
         InTimeDump =>
           /\ toDevice' # <<>> => TimelyRequest(counter', g_ctx', attempts', Head(toDevice'))
           /\ toClient' # <<>> => TimelyFrame(counter', g_ctx', attempts', Head(toClient'))
           /\ TimelyFrame(counter', g_ctx', attempts', values')
           /\ WalkKept(g_ctx', Accounted', attempts')
           /\ Done(g_ctx') => counter' = 1 /\ pc' \notin {"send", "recv"}
  PROVE  Timely'
BY DEF Timely, InTimeDump, Fixed, TimelyRequest, TimelyFrame, TimelyValue, Awaited, AnswersDue,
       WalkKept, MayBegin, Tried, Account, Due, Done

\* The number of DCBs has been told, it is told in a frame.
Told == g_ctx.totalDCBs = dcbs

TellsCount(v) == v.tag = "BAT_DATA" /\ v.count = dcbs
Counts(f)     == \E k \in DOMAIN f : TellsCount(f[k])

LEMMA CountsLater ==
  ASSUME NEW S, NEW f \in Seq(S), f # <<>>, Counts(f), ~TellsCount(Head(f))
  PROVE  Counts(Tail(f))
<1> DEFINE t == Tail(f)
<1>1. /\ DOMAIN f = 1..Len(f) /\ Len(f) \in Nat /\ Len(f) # 0 /\ Head(f) = f[1]
      /\ t \in Seq(S) /\ Len(t) = Len(f) - 1 /\ DOMAIN t = 1..Len(t)
      /\ \A i \in 1..Len(t) : t[i] = f[i + 1]
  BY HeadTailProperties, EmptySeq, LenProperties
<1> HIDE DEF t
<1>2. PICK k \in DOMAIN f : TellsCount(f[k])
  BY DEF Counts
<1>3. k # 1
  BY <1>1, <1>2
<1>4. k - 1 \in DOMAIN t /\ t[k - 1] = f[k]
  <2>1. k - 1 \in 1..Len(t) /\ (k - 1) + 1 = k
    BY <1>1, <1>2, <1>3
  <2> QED BY <1>1, <2>1
<1>5. Counts(t)
  BY <1>2, <1>4 DEF Counts
<1> QED BY <1>5 DEF t

LEMMA NoneTimely == \A n, g, k : TimelyFrame(n, g, k, <<>>)
BY DEF TimelyFrame

\* createRequestExample asks for what is due, one request more being sent.
LEMMA RequestTimely ==
  ASSUME Safe, BeforeLogin, Timely, InTimeDump, SendCommand
  PROVE  /\ TimelyRequest(counter, g_ctx, attempts', CommandRequest)
         /\ WalkKept(g_ctx, Accounted, attempts')
<1>1. pc = "send" /\ counter = 1 /\ ~Done(g_ctx)
  BY DEF SendCommand, Sendable, BeforeLogin, Timely, Safe, TypeOK
<1>2. WalkKept(g_ctx, Accounted, attempts) /\ attempts \in Nat /\ Walk(g_ctx)
      /\ g_ctx \in ContextType
  BY RetriesAssumption DEF Timely, Safe, TypeOK
<1>3. CASE Due(g_ctx)
  <2>1. ~g_ctx.isFirstModuleDumpRequest
    BY <1>2, <1>3 DEF Walk, Due
  <2>2. CommandRequest.read # "bat" /\ CommandRequest.dump = "dcb"
        /\ CommandRequest.index = g_ctx.currentDCBIndex
    BY <2>1 DEF CommandRequest, InTimeDump
  <2>3. attempts' = AtMost(attempts + 1, MaxRetries)
    BY <2>2 DEF SendCommand
  <2>4. attempts' >= MaxRetries \/ attempts' = attempts + 1
    BY <1>2, <2>3, RetriesAssumption DEF AtMost
  <2>5. Tried(g_ctx, 0, attempts) /\ g_ctx.dcbRequestRetries \in Nat
    BY <1>2 DEF WalkKept, ContextType
  <2>6. attempts \in Nat /\ attempts <= MaxRetries
    BY <1>2, RetriesAssumption DEF Safe, TypeOK
  <2>7. ASSUME g_ctx.currentDCBIndex > 0
        PROVE  attempts' >= MaxRetries \/ g_ctx.dcbRequestRetries + 1 <= attempts'
    <3>1. CASE attempts >= MaxRetries
      BY <2>3, <2>6, <3>1, RetriesAssumption DEF AtMost
    <3>2. CASE g_ctx.dcbRequestRetries + 0 <= attempts
      BY <2>4, <2>5, <2>6, <3>2
    <3> QED BY <1>3, <2>5, <2>7, <3>1, <3>2 DEF Tried
  <2>8. ASSUME g_ctx.currentDCBIndex > 0
        PROVE  attempts' >= MaxRetries \/ g_ctx.dcbRequestRetries + 0 <= attempts'
    <3>1. attempts' \in Nat
      BY <2>3, <2>6, RetriesAssumption DEF AtMost
    <3> QED BY <2>5, <2>7, <2>8, <3>1, RetriesAssumption
  <2>9. Tried(g_ctx, 1, attempts') /\ Tried(g_ctx, 0, attempts')
    BY <2>7, <2>8 DEF Tried
  <2> QED BY <1>1, <1>2, <1>3, <2>2, <2>9 DEF TimelyRequest, Awaited, WalkKept
<1>4. CASE ~Due(g_ctx)
  <2>1. g_ctx.isFirstModuleDumpRequest
    BY <1>1, <1>2, <1>4 DEF WalkKept, MayBegin
  <2>2. CommandRequest.read # "bat" /\ CommandRequest.dump = "first"
    BY <2>1 DEF CommandRequest, InTimeDump
  <2>3. attempts' = attempts
    BY <2>2 DEF SendCommand
  <2>4. Tried(g_ctx, 1, attempts')
    BY <1>4 DEF Tried
  <2> QED BY <1>1, <1>2, <1>4, <2>2, <2>3, <2>4 DEF TimelyRequest, Awaited
<1> QED BY <1>3, <1>4

\* The handlers.
LEMMA HandlerTimely ==
  ASSUME Safe, Lockstep, Timely, InTimeDump, HandleResponseValue
  PROVE  /\ TimelyFrame(counter', g_ctx', attempts', values')
         /\ WalkKept(g_ctx', Accounted', attempts')
         /\ Told \/ Counts(values) => Told' \/ Counts(values')
         /\ \A i \in warned' \ warned : i > 0 => attempts >= MaxRetries
<1>1. PICK v : \/ Authenticated(v) \/ Refused(v) \/ PrintOnly(v) \/ PviData(v)
               \/ BatError(v) \/ BatPlain(v) \/ BatDcb(v) \/ BatRetry(v) \/ BatSkip(v)
               \/ DcbInfoIgnored(v) \/ DcbInfo(v)
  BY DEF HandleResponseValue
<1>2. Handles(v) /\ UnchangedByValue
  BY <1>1 DEF Authenticated, Refused, PrintOnly, PviData, BatError, BatPlain, BatDcb,
     BatRetry, BatSkip, Continues, BatElements, DcbInfoIgnored, DcbInfo
<1>3. /\ values \in Seq(GoodValue) /\ values # <<>> /\ v = Head(values) /\ values' = Tail(values)
      /\ counter' = counter /\ dcbs' = dcbs
  BY <1>2 DEF Handles, UnchangedByValue, Safe, GoodMessages
<1>4. /\ v \in GoodValue /\ TimelyValue(counter, g_ctx, attempts, v)
      /\ TimelyFrame(counter, g_ctx, attempts, values')
      /\ v.tag = "BAT_DATA" => \A m, h, l : TimelyFrame(m, h, l, values')
  BY <1>3, FirstTimely, HeadTailProperties DEF Timely
<1>5. WalkKept(g_ctx, Accounted, attempts) /\ g_ctx \in ContextType
  BY DEF Timely, Safe, TypeOK
<1>6. CASE BatData(v)
  <2>1. v.tag = "BAT_DATA" /\ cmd.dump
    BY <1>6 DEF BatData, BatError, BatPlain, BatDcb, BatRetry, BatSkip, Continues, BatElements, InTimeDump
  <2>2. /\ WalkKept(g_ctx', Accounted', attempts')
        /\ \A i \in warned' \ warned : i > 0 => attempts >= MaxRetries
    BY <1>4, <1>5, <1>6, <2>1, AnswerToDcb, AnswerWithCount
  <2>3. ASSUME Told \/ Counts(values) PROVE Told' \/ Counts(values')
    <3>1. CASE Due(g_ctx)
      <4>1. g_ctx'.totalDCBs = dcbs
        BY <1>4, <1>5, <1>6, <2>1, <3>1, AnswerToDcb
      <4> QED BY <1>3, <4>1 DEF Told
    <3>2. CASE ~Due(g_ctx) /\ (TellsCount(v) \/ dcbs = 0)
      <4>1. v.count = dcbs \/ dcbs = 0
        BY <3>2 DEF TellsCount
      <4>2. g_ctx'.totalDCBs = dcbs
        BY <1>4, <1>5, <1>6, <2>1, <3>2, <4>1, AnswerWithCount
      <4> QED BY <1>3, <4>2 DEF Told
    <3>3. CASE ~Due(g_ctx) /\ ~TellsCount(v) /\ dcbs # 0
      <4>1. g_ctx.totalDCBs = 0
        BY <1>4, <2>1, <3>3 DEF TimelyValue, Awaited, Done, Due
      <4>2. Counts(values)
        BY <2>3, <3>3, <4>1 DEF Told
      <4> QED BY <1>3, <3>3, <4>2, CountsLater
    <3> QED BY <3>1, <3>2, <3>3
  <2> QED BY <1>4, <2>1, <2>2, <2>3
<1>7. CASE ~BatData(v)
  <2>1. SameFields(g_ctx, g_ctx') /\ UNCHANGED <<attempts, warned, Accounted>>
    <3>1. CASE PviData(v)
      BY <1>2, <1>5, <3>1, PviSame DEF PviData, Accounted
    <3>2. CASE Authenticated(v) \/ Refused(v) \/ PrintOnly(v) \/ DcbInfoIgnored(v)
      BY <3>2 DEF SameFields, Authenticated, Refused, PrintOnly, DcbInfoIgnored, Accounted
    <3>3. CASE DcbInfo(v)
      BY <1>4, <3>3 DEF DcbInfo, TimelyValue
    <3> QED BY <1>1, <1>7, <3>1, <3>2, <3>3 DEF BatData
  <2>2. TimelyFrame(counter, g_ctx', attempts, values')
    BY <1>4, <2>1, SameFrame
  <2>3. WalkKept(g_ctx', Accounted, attempts)
    BY <1>5, <2>1, WalkStays
  <2>4. v.tag # "BAT_DATA"
    BY <1>1, <1>7 DEF BatData, Authenticated, Refused, PrintOnly, PviData, DcbInfoIgnored, DcbInfo
  <2>5. Told => Told'
    BY <1>3, <2>1 DEF Told, SameFields
  <2>6. Counts(values) => Counts(values')
    BY <1>3, <2>4, CountsLater DEF TellsCount
  <2> QED BY <1>3, <2>1, <2>2, <2>3, <2>5, <2>6
<1> QED BY <1>6, <1>7

LEMMA TimelyKept ==
  ASSUME "toplevel" \notin Faults, Safe, Lockstep, BeforeLogin, Timely, [Next]_vars
  PROVE  Timely'
<1>1. Fixed
  BY NextFixed
<1> SUFFICES ASSUME InTimeDump
             PROVE  /\ toDevice' # <<>> => TimelyRequest(counter', g_ctx', attempts', Head(toDevice'))
                    /\ toClient' # <<>> => TimelyFrame(counter', g_ctx', attempts', Head(toClient'))
                    /\ TimelyFrame(counter', g_ctx', attempts', values')
                    /\ WalkKept(g_ctx', Accounted', attempts')
                    /\ Done(g_ctx') => counter' = 1 /\ pc' \notin {"send", "recv"}
  BY <1>1, TimelyAgain
<1>2. /\ WalkKept(g_ctx, Accounted, attempts) /\ TimelyFrame(counter, g_ctx, attempts, values)
      /\ Done(g_ctx) => counter = 1 /\ pc \notin {"send", "recv"}
      /\ g_ctx \in ContextType /\ Walk(g_ctx) /\ dcbs \in 0..255 /\ counter \in {0, 1}
  BY BatteriesAssumption DEF Timely, Safe, TypeOK
<1>3. CASE DeviceStep
  <2>1. /\ UNCHANGED <<pc, counter, g_ctx, attempts, Accounted, values>> /\ toDevice' = <<>>
        /\ TimelyRequest(counter, g_ctx, attempts, Head(toDevice)) /\ Head(toDevice) \in RequestType
    BY <1>3, DeviceInTime DEF Timely, Accounted, progVars, histVars, tallyVars
  <2>2. CASE toClient' = <<>>
    BY <1>2, <2>1, <2>2
  <2>3. CASE \E F \in SUBSET Faults : \E a \in Answers(Head(toDevice), F) :
                 toClient' # <<>> /\ Head(toClient') = a /\ Tail(toClient') = <<>>
    <3>1. PICK F \in SUBSET Faults : \E a \in Answers(Head(toDevice), F) : Head(toClient') = a
      BY <2>3
    <3>2. "toplevel" \notin F
      OBVIOUS
    <3>3. TimelyFrame(counter, g_ctx, attempts, Head(toClient'))
      BY <1>2, <2>1, <3>1, <3>2, AnswerTimely
    <3> QED BY <1>2, <2>1, <3>3
  <2> QED BY <1>3, <2>2, <2>3, DeviceInTime
<1>4. CASE SendAuthentication
  <2>1. toDevice = <<>> /\ toClient = <<>> /\ pc = "send"
    BY <1>4 DEF Lockstep, SendAuthentication, Sendable
  <2>2. Head(toDevice') = AuthRequest
    BY <1>4, <2>1, RequestsTyped, AppendedFirst DEF SendAuthentication
  <2>3. TimelyRequest(counter, g_ctx, attempts, AuthRequest)
    BY DEF TimelyRequest, AuthRequest
  <2>4. Accounted' = Accounted
    BY <1>4 DEF SendAuthentication, Accounted, histVars, tallyVars
  <2> QED BY <1>2, <1>4, <2>1, <2>2, <2>3, <2>4 DEF SendAuthentication, histVars, tallyVars
<1>5. CASE SendCommand
  <2>1. toDevice = <<>> /\ toClient = <<>> /\ values = <<>> /\ pc = "send"
    BY <1>5 DEF Lockstep, SendCommand, Sendable
  <2>2. Head(toDevice') = CommandRequest
    BY <1>5, <2>1, RequestsTyped, AppendedFirst DEF SendCommand
  <2>3. /\ TimelyRequest(counter, g_ctx, attempts', CommandRequest)
        /\ WalkKept(g_ctx, Accounted, attempts')
    BY <1>5, RequestTimely
  <2>4. SameFields(g_ctx, g_ctx') /\ UNCHANGED <<counter, Accounted, values, toClient>>
    BY <1>2, <1>5, FlagsSame DEF SendCommand, Accounted
  <2>5. TimelyRequest(counter, g_ctx', attempts', CommandRequest)
    BY <2>3, <2>4 DEF TimelyRequest, SameFields, Awaited, Tried, Due, Done
  <2>6. WalkKept(g_ctx', Accounted, attempts')
    BY <2>3, <2>4, WalkStays
  <2>7. ~Done(g_ctx')
    BY <1>2, <2>1, <2>4 DEF SameFields, Done
  <2> QED BY <2>1, <2>2, <2>4, <2>5, <2>6, <2>7, NoneTimely
<1>6. CASE ReceiveFrame
  <2>1. /\ UNCHANGED <<counter, g_ctx, attempts, Accounted>> /\ pc' = "values" /\ pc = "recv"
        /\ toDevice' = <<>> /\ toClient' = <<>> /\ toClient # <<>> /\ values' = Head(toClient)
    BY <1>6 DEF ReceiveFrame, Lockstep, Accounted, histVars, tallyVars
  <2> QED BY <1>2, <2>1 DEF Timely
<1>7. CASE SendFails
  <2>1. /\ toDevice' = <<>> /\ toClient' = <<>> /\ values' = <<>> /\ counter' = 1 /\ pc' = "done"
        /\ UNCHANGED <<attempts, Accounted>>
    BY <1>7 DEF SendFails, Sendable, Lockstep, Accounted, netVars, histVars, tallyVars
  <2>2. SameFields(g_ctx, g_ctx')
    BY <1>2, <1>7, FlagsSame DEF SendFails, SameFields
  <2> QED BY <1>2, <2>1, <2>2, WalkStays, NoneTimely
<1>8. CASE HandleResponseValue
  <2>1. /\ toDevice' = <<>> /\ toClient' = <<>> /\ counter' = counter /\ pc' \notin {"send", "recv"}
    BY <1>8 DEF HandleResponseValue, Authenticated, Refused, PrintOnly, PviData, BatError,
       BatPlain, BatDcb, BatRetry, BatSkip, Continues, BatElements, DcbInfoIgnored, DcbInfo,
       Handles, UnchangedByValue, Lockstep, netVars
  <2>2. counter = 0 => g_ctx' = g_ctx
    <3>1. ASSUME counter = 0 PROVE \A v : Handles(v) => v.tag \in {"AUTHENTICATION", "ERROR"}
      BY <3>1, HeadTailProperties DEF Handles, BeforeLogin, LoginValue
    <3> QED BY <1>8, <3>1 DEF HandleResponseValue, Authenticated, Refused, PrintOnly, PviData, BatError,
       BatPlain, BatDcb, BatRetry, BatSkip, Continues, BatElements, DcbInfoIgnored, DcbInfo
  <2>3. Done(g_ctx') => counter' = 1
    BY <1>2, <2>1, <2>2
  <2> QED BY <1>8, <2>1, <2>3, HandlerTimely
<1>9. CASE NextRound
  <2>1. /\ UNCHANGED <<g_ctx, attempts, Accounted, values, toDevice, toClient>> /\ counter' = 1
        /\ (counter = 0 \/ g_ctx.needMoreDCBRequests)
    BY <1>9 DEF NextRound, Accounted, netVars, histVars, tallyVars
  <2>2. ~Done(g_ctx)
    BY <1>2, <2>1 DEF Done
  <2>3. /\ \A r : TimelyRequest(counter, g_ctx, attempts, r) => TimelyRequest(1, g_ctx, attempts, r)
        /\ \A f : TimelyFrame(counter, g_ctx, attempts, f) => TimelyFrame(1, g_ctx, attempts, f)
    BY DEF TimelyRequest, TimelyFrame, TimelyValue, Awaited
  <2> QED BY <1>2, <2>1, <2>2, <2>3 DEF Timely
<1>10. CASE \/ StopOnInterrupt \/ FrameHandled \/ ReceiveTimesOut \/ ReceiveFails \/ Interrupt
            \/ InterruptReceive \/ WatchPause \/ Finish \/ UNCHANGED vars
  <2>1. UNCHANGED <<counter, g_ctx, attempts, Accounted, values, toDevice, toClient>>
    BY <1>10 DEF StopOnInterrupt, FrameHandled, ReceiveTimesOut, InTrouble, ReceiveFails, Interrupt,
       InterruptReceive, WatchPause, Finish, Accounted, vars, progVars, netVars, histVars, tallyVars
  <2>2. pc' \in {"send", "recv"} => pc \in {"send", "recv"}
    BY <1>10 DEF StopOnInterrupt, FrameHandled, ReceiveTimesOut, ReceiveFails, Interrupt,
       InterruptReceive, WatchPause, Watching, Finish, vars, progVars, Lockstep, InTimeDump
  <2> QED BY <1>2, <2>1, <2>2 DEF Timely
<1> QED BY <1>3, <1>4, <1>5, <1>6, <1>7, <1>8, <1>9, <1>10 DEF Next, Program, Environment, Terminated
-----------------------------------------------------------------------------
(* The end of the run *)

\* mainLoop finishes outside of a watch only, with no DCB due and the buffered
\* JSON printed, and nothing happens to the program after that.
Finished ==
  ended = "finished" =>
    /\ pc = "done" /\ ~Due(g_ctx) /\ ~cmd.watch
    /\ cmd.dump /\ cmd.json => jsonPrinted

LEMMA FinishedKept ==
  ASSUME Safe, Finished, [Next]_vars
  PROVE  Finished'
<1>1. CASE DeviceStep \/ UNCHANGED vars
  <2>1. UNCHANGED <<cmd, progVars, tallyVars>>
    BY <1>1 DEF DeviceStep, DeviceServes, DeviceFails, DeviceAnswers, DeviceIgnores, InTrouble,
       vars, histVars
  <2> QED BY <2>1 DEF Finished, Due, progVars, histVars, tallyVars
<1>2. CASE Finish
  <2>1. ended # "finished"
    BY <1>2 DEF Finish, Finished
  <2>2. counter > 0 /\ ~cmd.watch /\ ~Due(g_ctx)
    BY <1>2 DEF Finish, Watching, Due
  <2> QED BY <1>2, <2>2 DEF Finish, Finished, Due
<1>3. CASE \/ StopOnInterrupt \/ SendAuthentication \/ SendCommand \/ ReceiveFrame
           \/ FrameHandled \/ WatchPause \/ NextRound \/ ReceiveTimesOut \/ SendFails
           \/ ReceiveFails \/ Interrupt \/ InterruptReceive
  <2>1. pc # "done" /\ ended' \in {ended, "interrupt", "socket"}
    BY <1>3 DEF StopOnInterrupt, SendAuthentication, SendCommand, Sendable, ReceiveFrame,
       FrameHandled, WatchPause, NextRound, ReceiveTimesOut, SendFails, ReceiveFails,
       Interrupt, InterruptReceive, Final
  <2> QED BY <2>1 DEF Finished
<1>4. CASE HandleResponseValue
  <2>1. pc = "values" /\ ended' = ended
    BY <1>4 DEF HandleResponseValue, Authenticated, Refused, PrintOnly, PviData, BatError,
       BatPlain, BatDcb, BatRetry, BatSkip, Continues, BatElements, DcbInfoIgnored, DcbInfo,
       Handles, UnchangedByValue
  <2> QED BY <2>1 DEF Finished
<1> QED BY <1>1, <1>2, <1>3, <1>4 DEF Next, Program, Environment, Terminated

LEMMA InitTimely == Init => Timely /\ Finished
<1> SUFFICES ASSUME Init PROVE Timely /\ Finished
  OBVIOUS
<1>1. /\ toDevice = <<>> /\ toClient = <<>> /\ values = <<>> /\ ended = "no"
      /\ ~Due(g_ctx) /\ g_ctx.totalDCBs = 0 /\ g_ctx.isFirstModuleDumpRequest
  BY DEF Init, InitialContext, Due
<1>2. WalkKept(g_ctx, Accounted, attempts)
  <2>1. Accounted = {}
    BY DEF Init, Accounted
  <2> QED BY <1>1, <2>1, NothingDue DEF Due
<1>3. Timely
  BY <1>1, <1>2, NoneTimely DEF Timely, Done
<1> QED BY <1>1, <1>3 DEF Finished

-----------------------------------------------------------------------------
(* The count, where nothing goes wrong before it *)

LogsIn(f) == f # <<>> /\ Head(f).tag = "AUTHENTICATION" /\ Head(f).level > 0

LoginComes == \/ pc = "send" \/ toDevice # <<>>
              \/ toClient # <<>> /\ LogsIn(Head(toClient))
              \/ LogsIn(values)

CountComes == \/ pc = "send"
              \/ toDevice # <<>> /\ ~Head(toDevice).auth /\ Head(toDevice).dump = "first"
              \/ toClient # <<>> /\ Counts(Head(toClient))
              \/ Counts(values)

\* The login is on its way or done in the first round, the count in the second.
Served ==
  InTimeDump /\ ~troubled /\ pc # "exit" /\ ended \in {"no", "finished"} =>
    /\ counter = 0 => ended = "no" /\ (iAuthenticated \/ LoginComes)
    /\ counter = 1 => iAuthenticated /\ (Told \/ (ended = "no" /\ CountComes))

LEMMA NothingComes == ~LogsIn(<<>>) /\ ~Counts(<<>>)
BY DEF LogsIn, Counts

LEMMA LoginServed ==
  ASSUME NEW x \in Answers(AuthRequest, {})
  PROVE  LogsIn(x)
<1> DEFINE y == [Value("AUTHENTICATION") EXCEPT !.level = 1]
<1>1. x = <<y>>
  BY DEF Answers, AuthRequest, OrError
<1>2. y.tag = "AUTHENTICATION" /\ y.level = 1
  BY DEF Value
<1> HIDE DEF y
<1> QED BY <1>1, <1>2 DEF LogsIn

LEMMA CountServed ==
  ASSUME NEW r \in RequestType, ~r.auth, r.read # "bat", r.dump = "first",
         NEW x \in Answers(r, {})
  PROVE  Counts(x)
<1> DEFINE w == [Value("BAT_DATA") EXCEPT !.count = dcbs]
<1>1. PICK a \in ReadPart(r, {}), b \in DumpPart(r, {}), c \in OtherPart(r, {}) : x = a \o b \o c
  BY AnswerParts
<1>2. b = <<w>>
  BY DEF DumpPart, Part, DumpAnswers, OrError, Containers
<1>3. w.tag = "BAT_DATA" /\ w.count = dcbs
  BY DEF Value
<1>4. a \in Seq(NotOfDump) /\ c \in Seq(NotOfDump)
  BY ReadNotOfDump, OtherNotOfDump
<1> HIDE DEF w
<1> DEFINE T == NotOfDump \cup {w}
<1>5. a \in Seq(T) /\ b \in Seq(T) /\ c \in Seq(T) /\ Len(b) = 1 /\ b[1] = w
  BY <1>2, <1>4, SeqMonotonic
<1> HIDE DEF T
<1>6. PICK k \in Nat : Len(a) \in Nat /\ Len(c) \in Nat /\ k = Len(a) + 1
  BY <1>5, LenProperties
<1>7. /\ a \o b \in Seq(T) /\ Len(a \o b) = Len(a) + Len(b)
      /\ \A i \in 1..Len(a) + Len(b) : (a \o b)[i] = IF i <= Len(a) THEN a[i] ELSE b[i - Len(a)]
  BY <1>5, ConcatProperties
<1>8. /\ Len(a \o b) = k /\ k \in 1..Len(a) + Len(b) /\ ~(k <= Len(a)) /\ k - Len(a) = 1
      /\ k \in 1..k + Len(c) /\ k <= k
  BY <1>5, <1>6, <1>7
<1>9. (a \o b)[k] = w
  BY <1>5, <1>7, <1>8
<1> DEFINE ab == a \o b
<1>10. x = ab \o c /\ ab \in Seq(T) /\ Len(ab) = k /\ ab[k] = w
  BY <1>1, <1>7, <1>8, <1>9
<1> HIDE DEF ab
<1>11. /\ x \in Seq(T) /\ Len(x) = Len(ab) + Len(c)
       /\ \A i \in 1..Len(ab) + Len(c) : x[i] = IF i <= Len(ab) THEN ab[i] ELSE c[i - Len(ab)]
  BY <1>5, <1>10, ConcatProperties
<1>12. DOMAIN x = 1..k + Len(c) /\ x[k] = w
  BY <1>8, <1>10, <1>11, LenProperties
<1>13. k \in DOMAIN x
  BY <1>8, <1>12
<1> QED BY <1>3, <1>12, <1>13 DEF Counts, TellsCount

LEMMA InitServed == Init => Served
BY DEF Init, Served, LoginComes

LEMMA ServedKept ==
  ASSUME Safe, Lockstep, BeforeLogin, Timely, Finished, Served, [Next]_vars
  PROVE  Served'
<1> SUFFICES ASSUME InTimeDump', ~troubled', pc' # "exit", ended' \in {"no", "finished"}
             PROVE  /\ counter' = 0 => ended' = "no" /\ (iAuthenticated' \/ LoginComes')
                    /\ counter' = 1 => /\ iAuthenticated'
                                       /\ Told' \/ (ended' = "no" /\ CountComes')
  BY DEF Served
<1>1. InTimeDump /\ dcbs' = dcbs
  BY NextFixed DEF Fixed, InTimeDump
<1>2. /\ WalkKept(g_ctx, Accounted, attempts) /\ Walk(g_ctx) /\ g_ctx \in ContextType
      /\ Done(g_ctx) => pc # "send"
  BY <1>1 DEF Timely, Safe, TypeOK
\* Nothing is under way, and the round is over.
<1>3. ASSUME pc = "values" \/ pc = "tail", ended = "no", values = <<>>
      PROVE  ~LoginComes /\ ~CountComes
  BY <1>3, NothingComes DEF Lockstep, LoginComes, CountComes
<1>4. CASE DeviceStep
  <2>1. DeviceServes /\ UNCHANGED <<progVars, histVars>>
    BY <1>4 DEF DeviceStep, DeviceFails, DeviceIgnores, InTrouble, DeviceServes, DeviceAnswers
  <2>2. /\ UNCHANGED <<pc, ended, counter, iAuthenticated, g_ctx, values, troubled>>
        /\ toDevice # <<>> /\ toClient = <<>> /\ Head(toDevice) \in RequestType
    BY <1>4, <2>1, DeviceInTime DEF progVars, histVars, Lockstep
  <2>3. PICK a \in Answers(Head(toDevice), {}) : toClient' = Append(<<>>, a)
    BY <2>1, <2>2 DEF DeviceServes, DeviceAnswers
  <2>4. toClient' # <<>> /\ Head(toClient') = a
    BY <2>3, AppendedFirst
  <2>5. ASSUME counter = 0 PROVE ended' = "no" /\ LoginComes'
    <3>1. Head(toDevice) = AuthRequest
      BY <2>2, <2>5, HeadTailProperties DEF BeforeLogin
    <3>2. LogsIn(Head(toClient'))
      BY <2>4, <3>1, LoginServed
    <3>3. LogsIn(Head(toClient))'
      BY <3>2 DEF LogsIn
    <3> QED BY <1>1, <2>2, <2>4, <2>5, <3>3 DEF Served, LoginComes
  <2>6. ASSUME counter = 1 PROVE iAuthenticated' /\ (Told' \/ (ended' = "no" /\ CountComes'))
    <3>1. iAuthenticated /\ (Told \/ (ended = "no" /\ CountComes))
      BY <1>1, <2>2, <2>6 DEF Served
    <3>2. CASE Told
      BY <1>1, <2>2, <3>1, <3>2 DEF Told
    <3>3. CASE ended = "no" /\ pc = "send"
      BY <2>2, <3>1, <3>3 DEF CountComes
    <3>4. CASE ended = "no" /\ Counts(values)
      <4>1. Counts(values)'
        BY <1>1, <2>2, <3>4 DEF Counts, TellsCount
      <4> QED BY <2>2, <3>1, <3>4, <4>1 DEF CountComes
    <3>5. CASE ended = "no" /\ ~Head(toDevice).auth /\ Head(toDevice).dump = "first"
      <4>1. Head(toDevice).read # "bat"
        BY <1>1, <2>2 DEF Timely, TimelyRequest
      <4>2. Counts(a)
        BY <2>2, <2>3, <3>5, <4>1, CountServed
      <4>3. Counts(Head(toClient))'
        BY <1>1, <2>4, <4>2 DEF Counts, TellsCount
      <4> QED BY <2>2, <2>4, <3>1, <3>5, <4>3 DEF CountComes
    <3> QED BY <2>2, <3>1, <3>2, <3>3, <3>4, <3>5 DEF CountComes
  <2> QED BY <2>2, <2>5, <2>6
<1>5. CASE SendAuthentication
  <2>1. /\ pc = "send" /\ ended = "no" /\ toDevice = <<>> /\ ~iAuthenticated /\ ~troubled
        /\ UNCHANGED <<counter, ended>>
    BY <1>5 DEF SendAuthentication, Sendable, Lockstep, histVars
  <2>2. toDevice' # <<>>
    BY <1>5, <2>1, RequestsTyped, AppendedFirst DEF SendAuthentication
  <2> QED BY <1>1, <2>1, <2>2 DEF Served, LoginComes
<1>6. CASE SendCommand
  <2>1. /\ pc = "send" /\ ended = "no" /\ toDevice = <<>> /\ iAuthenticated /\ ~troubled /\ counter # 0
        /\ UNCHANGED <<counter, ended, iAuthenticated>>
    BY <1>6 DEF SendCommand, Sendable, Lockstep, BeforeLogin
  <2>2. toDevice' # <<>> /\ Head(toDevice') = CommandRequest
    BY <1>6, <2>1, RequestsTyped, AppendedFirst DEF SendCommand
  <2>3. CASE Told
    <3>1. SameFields(g_ctx, g_ctx')
      BY <1>2, <1>6, FlagsSame DEF SendCommand
    <3> QED BY <1>1, <2>1, <2>3, <3>1 DEF Told, SameFields
  <2>4. CASE ~Told
    <3>1. ~Due(g_ctx) /\ ~Done(g_ctx)
      BY <1>2, <2>1, <2>4 DEF Told, Walk, Due
    <3>2. g_ctx.isFirstModuleDumpRequest
      BY <1>2, <3>1 DEF WalkKept, MayBegin
    <3>3. CommandRequest.dump = "first" /\ ~CommandRequest.auth
      BY <1>1, <3>2 DEF CommandRequest, InTimeDump
    <3> QED BY <2>1, <2>2, <3>3 DEF CountComes
  <2> QED BY <2>3, <2>4
<1>7. CASE ReceiveFrame
  <2>1. /\ UNCHANGED <<ended, counter, iAuthenticated, g_ctx, troubled>> /\ pc = "recv" /\ ended = "no"
        /\ values = <<>> /\ toDevice = <<>> /\ toClient # <<>> /\ values' = Head(toClient)
    BY <1>7 DEF ReceiveFrame, Lockstep, histVars
  <2>2. LoginComes => LoginComes'
    BY <2>1, NothingComes DEF LoginComes, LogsIn
  <2>3. CountComes => CountComes'
    BY <1>1, <2>1, NothingComes DEF CountComes, Counts, TellsCount
  <2>4. Told => Told'
    BY <1>1, <2>1 DEF Told
  <2> QED BY <1>1, <2>1, <2>2, <2>3, <2>4 DEF Served
<1>8. CASE FrameHandled
  <2>1. /\ UNCHANGED <<ended, counter, iAuthenticated, g_ctx, troubled>> /\ pc = "values"
        /\ ended = "no" /\ values = <<>>
    BY <1>8 DEF FrameHandled, Lockstep, histVars
  <2> QED BY <1>1, <1>3, <2>1 DEF Served, Told
<1>9. CASE NextRound
  <2>1. /\ UNCHANGED <<ended, iAuthenticated, g_ctx, troubled>> /\ pc = "tail" /\ counter' = 1
        /\ ended = "no" /\ values = <<>> /\ pc' = "send" /\ counter \in {0, 1}
    BY <1>9 DEF NextRound, Lockstep, Finished, histVars, Safe, TypeOK
  <2>2. iAuthenticated
    BY <1>1, <1>3, <2>1 DEF Served
  <2> QED BY <2>1, <2>2 DEF CountComes
<1>10. CASE Finish
  <2>1. /\ UNCHANGED <<counter, iAuthenticated, g_ctx, troubled>> /\ pc = "tail" /\ counter = 1
        /\ ended = "no" /\ values = <<>>
    BY <1>10 DEF Finish, Lockstep, Finished, Safe, TypeOK
  <2> QED BY <1>1, <1>3, <2>1 DEF Served, Told
<1>11. CASE HandleResponseValue
  <2>1. PICK v : \/ Authenticated(v) \/ Refused(v) \/ PrintOnly(v) \/ PviData(v)
                 \/ BatError(v) \/ BatPlain(v) \/ BatDcb(v) \/ BatRetry(v) \/ BatSkip(v)
                 \/ DcbInfoIgnored(v) \/ DcbInfo(v)
    BY <1>11 DEF HandleResponseValue
  <2>2. Handles(v) /\ UnchangedByValue
    BY <2>1 DEF Authenticated, Refused, PrintOnly, PviData, BatError, BatPlain, BatDcb,
       BatRetry, BatSkip, Continues, BatElements, DcbInfoIgnored, DcbInfo
  <2>3. /\ UNCHANGED <<counter, ended, troubled>> /\ pc = "values" /\ ended = "no"
        /\ toDevice = <<>> /\ toClient = <<>> /\ v = Head(values)
    BY <2>2 DEF Handles, UnchangedByValue, Lockstep
  <2>4. iAuthenticated => iAuthenticated'
    BY <2>1 DEF Authenticated, Refused, PrintOnly, PviData, BatError, BatPlain, BatDcb,
       BatRetry, BatSkip, Continues, BatElements, DcbInfoIgnored, DcbInfo
  <2>5. ASSUME counter = 0 PROVE iAuthenticated'
    <3>1. iAuthenticated \/ LogsIn(values)
      BY <1>1, <2>3, <2>5 DEF Served, LoginComes
    <3>2. CASE LogsIn(values)
      BY <2>1, <2>3, <3>2 DEF LogsIn, Authenticated, Refused, PrintOnly, PviData, BatError, BatPlain,
         BatDcb, BatRetry, BatSkip, Continues, BatElements, DcbInfoIgnored, DcbInfo
    <3> QED BY <2>4, <3>1, <3>2
  <2>6. ASSUME counter = 1 PROVE iAuthenticated' /\ (Told' \/ CountComes')
    <3>1. iAuthenticated /\ (Told \/ Counts(values))
      BY <1>1, <2>3, <2>6 DEF Served, CountComes
    <3>2. Told' \/ Counts(values')
      BY <1>1, <1>11, <3>1, HandlerTimely
    <3>3. Counts(values') => Counts(values)'
      BY <1>1 DEF Counts, TellsCount
    <3> QED BY <2>4, <3>1, <3>2, <3>3 DEF CountComes
  <2> QED BY <2>3, <2>5, <2>6
<1>12. CASE \/ StopOnInterrupt \/ ReceiveTimesOut \/ SendFails \/ ReceiveFails
            \/ Interrupt \/ InterruptReceive \/ WatchPause
  BY <1>1, <1>12 DEF StopOnInterrupt, ReceiveTimesOut, InTrouble, SendFails, ReceiveFails, Interrupt,
     InterruptReceive, WatchPause, Watching, InTimeDump
<1>13. CASE UNCHANGED vars
  BY <1>1, <1>13 DEF vars, progVars, netVars, histVars, Served, LoginComes, CountComes, LogsIn,
     Counts, TellsCount, Told
<1> QED BY <1>4, <1>5, <1>6, <1>7, <1>8, <1>9, <1>10, <1>11, <1>12, <1>13
        DEF Next, Program, Environment, Terminated

\* All of it together.
InTime == Safe /\ Lockstep /\ BeforeLogin /\ Timely /\ Finished /\ Served

LEMMA InTimeKept ==
  ASSUME NoneLate, "toplevel" \notin Faults, InTime, [Next]_vars
  PROVE  InTime'
<1>1. Safe'
  BY NextSafe DEF InTime
<1>2. Lockstep'
  BY LockstepKept DEF InTime
<1>3. BeforeLogin'
  BY BeforeLoginKept DEF InTime
<1>4. Timely'
  BY TimelyKept DEF InTime
<1>5. Finished'
  BY FinishedKept DEF InTime
<1>6. Served'
  BY ServedKept DEF InTime
<1> QED BY <1>1, <1>2, <1>3, <1>4, <1>5, <1>6 DEF InTime

LEMMA InTimeAlways ==
  ASSUME MaxInFlight = 1, "toplevel" \notin Faults
  PROVE  Spec => []InTime
<1>1. Init => InTime
  BY InitSafe, InitInTime, InitOnce, InitTimely, InitServed DEF InTime
<1>2. InTime /\ [Next]_vars => InTime'
  <2> SUFFICES ASSUME InTime, [Next]_vars PROVE InTime'
    OBVIOUS
  <2>1. NoneLate
    BY NothingUnderWay DEF InTime
  <2> QED BY <2>1, InTimeKept
<1> QED BY <1>1, <1>2, PTL DEF Spec

\* With answers in time, a dump of its own that ends of its own accord accounts
\* for every DCB of the battery, whatever their number: each is shown, skipped with
\* a warning, or came with nothing to show.  A dump in which nothing was lost, bad or
\* empty has been told of all of them; one that was never told their number has shown
\* none and warned of none.  A JSON dump has been printed.  An element of the battery
\* read along outside of a watch takes the dump's turn.
THEOREM DumpIsComplete ==
  ASSUME MaxInFlight = 1, "toplevel" \notin Faults,
         \A c \in Commands : c.dump /\ c.read = "bat" => c.watch
  PROVE  Spec => []DumpComplete
<1>1. ASSUME InTime, ended = "finished", cmd.dump
      PROVE  /\ 0..g_ctx.totalDCBs - 1 = shown \cup warned \cup blank
             /\ g_ctx.totalDCBs # dcbs => g_ctx.totalDCBs = 0 /\ troubled
             /\ cmd.json => jsonPrinted
  <2>1. pc = "done" /\ ~Due(g_ctx) /\ ~cmd.watch /\ (cmd.json => jsonPrinted)
    BY <1>1 DEF InTime, Finished
  <2>2. cmd \in Commands /\ counter \in {0, 1} /\ troubled \in BOOLEAN
    BY <1>1 DEF InTime, Safe, TypeOK
  <2>3. InTimeDump
    BY <1>1, <2>1, <2>2 DEF InTimeDump
  <2>4. WalkKept(g_ctx, Accounted, attempts)
    BY <1>1, <2>3 DEF InTime, Timely
  <2>5. Accounted = 0..(g_ctx.totalDCBs - 1) /\ g_ctx.totalDCBs \in {0, dcbs}
    BY <2>1, <2>4 DEF WalkKept, Account
  <2>6. troubled \/ g_ctx.totalDCBs = dcbs
    BY <1>1, <2>1, <2>2, <2>3 DEF InTime, Served, Told
  <2> QED BY <2>1, <2>2, <2>5, <2>6 DEF Accounted
<1>2. InTime => DumpComplete
  BY <1>1 DEF DumpComplete
<1> QED BY <1>2, InTimeAlways, PTL

\* With answers in time, no DCB but the first is given up with a warning before
\* it has been asked for max_retries times: a failure is counted for the DCB
\* whose request it answers.
THEOREM LaterSkipsAreEarned ==
  ASSUME MaxInFlight = 1, "toplevel" \notin Faults
  PROVE  Spec => LaterSkipMeansAsked
<1> DEFINE A == \A i \in warned' \ warned : i > 0 /\ cmd.read = "none" => attempts >= MaxRetries
<1>1. ASSUME InTime, Next PROVE A
  <2>1. CASE HandleResponseValue /\ cmd.dump /\ cmd.read = "none"
    <3>1. cmd \in CommandType /\ Accepted(cmd)
      BY <1>1, CommandsAssumption DEF InTime, Safe, TypeOK
    <3>2. ~cmd.watch
      BY <2>1, <3>1 DEF Accepted
    <3>3. InTimeDump
      BY <2>1, <3>2 DEF InTimeDump
    <3> QED BY <1>1, <2>1, <3>3, HandlerTimely DEF InTime
  <2>2. CASE HandleResponseValue /\ ~cmd.dump
    <3>1. ~g_ctx.needMoreDCBRequests
      BY <1>1, <2>2 DEF InTime, Safe, Walk
    <3>2. warned' = warned
      BY <2>2, <3>1 DEF HandleResponseValue, Authenticated, Refused, PrintOnly, PviData, BatError,
         BatPlain, BatDcb, BatRetry, BatSkip, Continues, BatElements, DcbInfoIgnored, DcbInfo,
         CountSeen, StartsDump
    <3> QED BY <3>2
  <2>3. CASE ~HandleResponseValue
    <3>1. warned' = warned
      BY <1>1, <2>3 DEF Next, Program, Environment, Terminated, StopOnInterrupt,
         SendAuthentication, SendCommand, ReceiveFrame, FrameHandled, WatchPause, Finish,
         NextRound, DeviceStep, DeviceServes, DeviceFails, DeviceIgnores, DeviceAnswers,
         ReceiveTimesOut, InTrouble, SendFails, ReceiveFails, Interrupt, InterruptReceive, vars,
         histVars, tallyVars
    <3> QED BY <3>1
  <2> QED BY <2>1, <2>2, <2>3
<1>2. InTime /\ [Next]_vars => [A]_vars
  BY <1>1
<1>3. Spec => [][A]_vars
  BY <1>2, InTimeAlways, PTL DEF Spec
<1> QED BY <1>3 DEF LaterSkipMeansAsked
=============================================================================
