--------------------------- MODULE SessionProofs ----------------------------
(***************************************************************************)
(* What holds of Session for every set of command lines and batteries,     *)
(* every max_retries and every way the device may misbehave.               *)
(***************************************************************************)
EXTENDS Session, SequenceTheorems, TLAPS

-----------------------------------------------------------------------------
(* What the handlers make of g_ctx *)

\* An update of one field of g_ctx within its type keeps the record typed.
LEMMA FieldTyped ==
  ASSUME NEW g \in ContextType
  PROVE  /\ \A n \in 0..255 : /\ [g EXCEPT !.currentDCBIndex = n] \in ContextType
                              /\ [g EXCEPT !.totalDCBs = n] \in ContextType
                              /\ [g EXCEPT !.dcbRequestRetries = n] \in ContextType
         /\ \A b \in BOOLEAN : /\ [g EXCEPT !.needMoreDCBRequests = b] \in ContextType
                               /\ [g EXCEPT !.isFirstModuleDumpRequest = b] \in ContextType
                               /\ [g EXCEPT !.batContainerQuery = b] \in ContextType
                               /\ [g EXCEPT !.pviContainerQuery = b] \in ContextType
BY DEF ContextType

\* So do the handlers' updates of several fields, chains of single ones.
LEMMA AdvancedTyped ==
  ASSUME NEW g \in ContextType
  PROVE  /\ Advanced(g) \in ContextType /\ Over(g) \in ContextType
         /\ NoneDue(g) \in ContextType /\ Answered(g) \in ContextType
<1> DEFINE a == [g EXCEPT !.dcbRequestRetries = 0]
           o == [g EXCEPT !.needMoreDCBRequests = FALSE]
<1>1. 0 \in 0..255 /\ TRUE \in BOOLEAN /\ FALSE \in BOOLEAN
  OBVIOUS
<1>2. NextIndex(g) \in 0..255
  BY DEF NextIndex, ContextType
<1>3. a \in ContextType /\ o \in ContextType
  BY <1>1, FieldTyped
<1> HIDE DEF a, o
<1>4. /\ [a EXCEPT !.currentDCBIndex = NextIndex(g)] \in ContextType
      /\ [o EXCEPT !.isFirstModuleDumpRequest = TRUE] \in ContextType
  BY <1>1, <1>2, <1>3, FieldTyped
<1> QED BY <1>1, <1>3, <1>4, FieldTyped DEF Advanced, Over, NoneDue, Answered, a, o

LEMMA CountTyped ==
  ASSUME NEW g \in ContextType, NEW n \in 0..255
  PROVE  Counted(g, n) \in ContextType /\ CalledOff(g) \in ContextType
         /\ Begun(g, n) \in ContextType
<1> DEFINE t == [g EXCEPT !.totalDCBs = n]
           u == [t EXCEPT !.needMoreDCBRequests = TRUE]
           w == [u EXCEPT !.currentDCBIndex = 0]
           x == [w EXCEPT !.dcbRequestRetries = 0]
<1>1. 0 \in 0..255 /\ TRUE \in BOOLEAN /\ FALSE \in BOOLEAN
  OBVIOUS
<1>2. t \in ContextType
  BY FieldTyped
<1> HIDE DEF t
<1>3. u \in ContextType
  BY <1>1, <1>2, FieldTyped
<1> HIDE DEF u
<1>4. w \in ContextType
  BY <1>1, <1>3, FieldTyped
<1> HIDE DEF w
<1>5. x \in ContextType
  BY <1>1, <1>4, FieldTyped
<1> HIDE DEF x
<1>6. [x EXCEPT !.isFirstModuleDumpRequest = FALSE] \in ContextType
  BY <1>1, <1>5, FieldTyped
<1>7. Over(g) \in ContextType
  BY AdvancedTyped
<1>8. CalledOff(g) \in ContextType
  BY <1>1, <1>7, FieldTyped DEF CalledOff
<1>9. Begun(g, n) \in ContextType
  BY <1>6 DEF x, w, u, t, Begun
<1> QED BY <1>2, <1>8, <1>9 DEF t, Counted

LEMMA FlagsTyped ==
  ASSUME NEW g \in ContextType, NEW m \in BOOLEAN, NEW p \in BOOLEAN
  PROVE  [g EXCEPT !.batContainerQuery = m, !.pviContainerQuery = p] \in ContextType
<1> DEFINE b == [g EXCEPT !.batContainerQuery = m]
<1>1. b \in ContextType
  BY FieldTyped
<1> HIDE DEF b
<1>2. [b EXCEPT !.pviContainerQuery = p] \in ContextType
  BY <1>1, FieldTyped
<1> QED BY <1>2 DEF b

\* What GotDcb and SkipDcb make of g is of its type.
LEMMA WalkOnTyped ==
  ASSUME NEW g \in ContextType
  PROVE  GotDcb(g) \in ContextType /\ SkipDcb(g) \in ContextType
<1>1. Advanced(g) \in ContextType
  BY AdvancedTyped
<1>2. Over(Advanced(g)) \in ContextType /\ NoneDue(Advanced(g)) \in ContextType
  BY <1>1, AdvancedTyped
<1> QED BY <1>1, <1>2 DEF GotDcb, SkipDcb

\* What the updates do to the fields the walk over the DCBs depends on.
LEMMA AdvancedFields ==
  ASSUME NEW g \in ContextType
  PROVE  /\ Advanced(g).needMoreDCBRequests = g.needMoreDCBRequests
         /\ Advanced(g).isFirstModuleDumpRequest = g.isFirstModuleDumpRequest
         /\ Advanced(g).totalDCBs = g.totalDCBs
         /\ Advanced(g).currentDCBIndex = NextIndex(g)
         /\ Advanced(g).dcbRequestRetries = 0
         /\ Over(g).needMoreDCBRequests = FALSE
         /\ Over(g).isFirstModuleDumpRequest = TRUE
         /\ NoneDue(g).needMoreDCBRequests = FALSE
         /\ NoneDue(g).isFirstModuleDumpRequest = g.isFirstModuleDumpRequest
BY DEF ContextType, Advanced, Over, NoneDue

LEMMA AnsweredFields ==
  ASSUME NEW g \in ContextType
  PROVE  /\ Answered(g).needMoreDCBRequests = g.needMoreDCBRequests
         /\ Answered(g).isFirstModuleDumpRequest = g.isFirstModuleDumpRequest
         /\ Answered(g).totalDCBs = g.totalDCBs
         /\ Answered(g).currentDCBIndex = g.currentDCBIndex
         /\ Answered(g).dcbRequestRetries = g.dcbRequestRetries
BY DEF ContextType, Answered

LEMMA RetriesFields ==
  ASSUME NEW g \in ContextType, NEW n \in 0..255
  PROVE  /\ [g EXCEPT !.dcbRequestRetries = n].needMoreDCBRequests = g.needMoreDCBRequests
         /\ [g EXCEPT !.dcbRequestRetries = n].isFirstModuleDumpRequest
              = g.isFirstModuleDumpRequest
         /\ [g EXCEPT !.dcbRequestRetries = n].totalDCBs = g.totalDCBs
         /\ [g EXCEPT !.dcbRequestRetries = n].currentDCBIndex = g.currentDCBIndex
         /\ [g EXCEPT !.dcbRequestRetries = n].dcbRequestRetries = n
BY DEF ContextType

-----------------------------------------------------------------------------
(* The invariant.  DumpInRange depends on the device telling one number of *)
(* DCBs only, so the messages under way have to be spoken of.              *)

\* A count in an answer is the device's, and comes without data of a DCB.
GoodValue == {v \in ValueType : /\ v.count \in {None, dcbs}
                                /\ v.count # None => v.dcb = None}

GoodMessages == values \in Seq(GoodValue) /\ toClient \in Seq(Seq(GoodValue))

\* DumpInRange of any context in place of g_ctx.
Attempting(g) == MaxRetries \in 1..255 => g.dcbRequestRetries < MaxRetries

Walk(g) ==
  g.needMoreDCBRequests =>
    /\ cmd.dump /\ ~g.isFirstModuleDumpRequest
    /\ g.totalDCBs = dcbs
    /\ g.currentDCBIndex < g.totalDCBs
    /\ Attempting(g)

Safe == TypeOK /\ GoodMessages /\ Walk(g_ctx)

\* The index of a walk under way does not wrap around when it is counted up.
LEMMA NoWrap ==
  ASSUME NEW g \in ContextType, g.currentDCBIndex < g.totalDCBs
  PROVE  NextIndex(g) = g.currentDCBIndex + 1
BY DEF ContextType, NextIndex

LEMMA AttemptsAfresh ==
  ASSUME NEW g, g.dcbRequestRetries = 0
  PROVE  Attempting(g)
BY DEF Attempting

\* Both ways on from a DCB leave a walk that is in range, or none.
LEMMA WalkOn ==
  ASSUME NEW g \in ContextType, Walk(g)
  PROVE  Walk(GotDcb(g)) /\ Walk(SkipDcb(g))
<1>1. Advanced(g) \in ContextType
  BY AdvancedTyped
<1>2. CASE NextIndex(g) < g.totalDCBs
  BY <1>2, AdvancedFields, AttemptsAfresh DEF Walk, GotDcb, SkipDcb
<1>3. CASE ~(NextIndex(g) < g.totalDCBs)
  BY <1>1, <1>3, AdvancedFields DEF Walk, GotDcb, SkipDcb
<1> QED BY <1>2, <1>3

LEMMA WalkAnswered ==
  ASSUME NEW g \in ContextType, Walk(g)
  PROVE  Walk(Answered(g))
BY AnsweredFields DEF Walk, Attempting

LEMMA WalkRetries ==
  ASSUME NEW g \in ContextType, Walk(g), NEW n \in 0..255,
         MaxRetries \in 1..255 => n < MaxRetries
  PROVE  Walk([g EXCEPT !.dcbRequestRetries = n])
BY RetriesFields DEF Walk, Attempting

\* A count that starts the dump is the device's, and comes without data.
LEMMA CountStarts ==
  ASSUME NEW v \in GoodValue, StartsDump(v)
  PROVE  /\ CountSeen(v) = Begun(g_ctx, v.count)
         /\ v.count = dcbs /\ v.count \in 1..255 /\ v.dcb = None /\ cmd.dump
<1>1. v.count \in {None} \cup 0..255 /\ v.count > 0 /\ cmd.dump
  BY DEF GoodValue, ValueType, StartsDump
<1>2. v.count \in 1..255 /\ v.count # None
  BY <1>1 DEF None
<1>3. v.count = dcbs /\ v.dcb = None
  BY <1>2 DEF GoodValue
<1> QED BY <1>1, <1>2, <1>3 DEF CountSeen

LEMMA CountFields ==
  ASSUME NEW g \in ContextType
  PROVE  /\ \A n : /\ Counted(g, n).needMoreDCBRequests = g.needMoreDCBRequests
                   /\ Counted(g, n).isFirstModuleDumpRequest = g.isFirstModuleDumpRequest
                   /\ Counted(g, n).totalDCBs = n
                   /\ Counted(g, n).currentDCBIndex = g.currentDCBIndex
                   /\ Counted(g, n).dcbRequestRetries = g.dcbRequestRetries
         /\ CalledOff(g).needMoreDCBRequests = FALSE
         /\ CalledOff(g).isFirstModuleDumpRequest = TRUE
         /\ \A n : /\ Begun(g, n).needMoreDCBRequests = TRUE
                   /\ Begun(g, n).isFirstModuleDumpRequest = FALSE
                   /\ Begun(g, n).totalDCBs = n
                   /\ Begun(g, n).currentDCBIndex = 0
                   /\ Begun(g, n).dcbRequestRetries = 0
BY DEF ContextType, Counted, CalledOff, Over, Begun

\* A count starts a walk in range, calls it off, or says what is known.
LEMMA CountWalks ==
  ASSUME NEW g \in ContextType
  PROVE  /\ Walk(g) => Walk(Counted(g, dcbs))
         /\ Walk(CalledOff(g))
         /\ dcbs > 0 /\ cmd.dump => Walk(Begun(g, dcbs))
<1>1. Walk(g) => Walk(Counted(g, dcbs))
  <2> DEFINE h == Counted(g, dcbs)
  <2>1. /\ h.needMoreDCBRequests = g.needMoreDCBRequests
        /\ h.isFirstModuleDumpRequest = g.isFirstModuleDumpRequest
        /\ h.totalDCBs = dcbs /\ h.currentDCBIndex = g.currentDCBIndex
        /\ h.dcbRequestRetries = g.dcbRequestRetries
    BY DEF Counted, ContextType
  <2> HIDE DEF h
  <2>2. Walk(g) => Walk(h)
    BY <2>1 DEF Walk, Attempting
  <2> QED BY <2>2 DEF h
<1>2. Walk(CalledOff(g))
  BY CountFields DEF Walk
<1>3. ASSUME dcbs > 0, cmd.dump PROVE Walk(Begun(g, dcbs))
  <2> DEFINE h == Begun(g, dcbs)
  <2>1. /\ h.needMoreDCBRequests = TRUE /\ h.isFirstModuleDumpRequest = FALSE
        /\ h.totalDCBs = dcbs /\ h.currentDCBIndex = 0 /\ h.dcbRequestRetries = 0
    BY DEF Begun, ContextType
  <2> HIDE DEF h
  <2>2. Attempting(h)
    BY <2>1, AttemptsAfresh
  <2>3. Walk(h)
    BY <1>3, <2>1, <2>2 DEF Walk
  <2> QED BY <2>3 DEF h
<1> QED BY <1>1, <1>2, <1>3

LEMMA CountSeenSafe ==
  ASSUME NEW v \in GoodValue, g_ctx \in ContextType, Walk(g_ctx)
  PROVE  CountSeen(v) \in ContextType /\ Walk(CountSeen(v))
<1>1. CASE ~cmd.dump \/ v.count = None
  BY <1>1 DEF CountSeen
<1>2. CASE cmd.dump /\ v.count # None
  <2>1. v.count \in 0..255 /\ v.count = dcbs
    BY <1>2 DEF GoodValue, ValueType
  <2>2. /\ Counted(g_ctx, v.count) \in ContextType /\ CalledOff(g_ctx) \in ContextType
        /\ Begun(g_ctx, v.count) \in ContextType
    BY <2>1, CountTyped
  <2>3. Walk(Counted(g_ctx, v.count)) /\ Walk(CalledOff(g_ctx))
    BY <2>1, CountWalks
  <2>4. ASSUME StartsDump(v) PROVE Walk(Begun(g_ctx, v.count))
    BY <2>1, <2>4, CountStarts, CountWalks
  <2> QED BY <1>2, <2>2, <2>3, <2>4 DEF CountSeen
<1> QED BY <1>1, <1>2

-----------------------------------------------------------------------------
(* What the device says *)

Tags == {"AUTHENTICATION", "BAT_DATA", "PVI_DATA", "DCB_INFO", "PLAIN", "ERROR"}

LEMMA ValueFieldTyped ==
  ASSUME NEW v \in ValueType
  PROVE  /\ [v EXCEPT !.level = 1] \in ValueType
         /\ [v EXCEPT !.err = TRUE] \in ValueType
         /\ [v EXCEPT !.found = TRUE] \in ValueType
         /\ [v EXCEPT !.fields = TRUE] \in ValueType
         /\ \A n \in {None} \cup 0..255 : /\ [v EXCEPT !.count = n] \in ValueType
                                          /\ [v EXCEPT !.dcb = n] \in ValueType
<1>1. [v EXCEPT !.level = 1] \in ValueType
  BY DEF ValueType
<1>2. [v EXCEPT !.err = TRUE] \in ValueType /\ [v EXCEPT !.found = TRUE] \in ValueType
  BY DEF ValueType
<1>4. [v EXCEPT !.fields = TRUE] \in ValueType
  BY DEF ValueType
<1>3. ASSUME NEW n \in {None} \cup 0..255
      PROVE  [v EXCEPT !.count = n] \in ValueType /\ [v EXCEPT !.dcb = n] \in ValueType
  <2> DEFINE C == {None} \cup 0..255
  <2>1. n \in C
    OBVIOUS
  <2>2. ValueType = [tag: Tags, level: {0, 1}, count: C, dcb: C,
                      fields: BOOLEAN, err: BOOLEAN, found: BOOLEAN]
    BY DEF ValueType, Tags
  <2> HIDE DEF C
  <2> QED BY <2>1, <2>2
<1> QED BY <1>1, <1>2, <1>3, <1>4

LEMMA ValueFields ==
  ASSUME NEW v \in ValueType
  PROVE  /\ [v EXCEPT !.level = 1].count = v.count
         /\ [v EXCEPT !.err = TRUE].count = v.count
         /\ [v EXCEPT !.found = TRUE].count = v.count
         /\ [v EXCEPT !.level = 1].dcb = v.dcb
         /\ [v EXCEPT !.err = TRUE].dcb = v.dcb
         /\ [v EXCEPT !.found = TRUE].dcb = v.dcb
         /\ \A n : /\ [v EXCEPT !.count = n].count = n
                   /\ [v EXCEPT !.count = n].dcb = v.dcb
                   /\ [v EXCEPT !.dcb = n].count = v.count
         /\ [v EXCEPT !.fields = TRUE].count = v.count /\ [v EXCEPT !.fields = TRUE].dcb = v.dcb
<1>1. /\ [v EXCEPT !.level = 1].count = v.count /\ [v EXCEPT !.level = 1].dcb = v.dcb
      /\ [v EXCEPT !.err = TRUE].count = v.count /\ [v EXCEPT !.err = TRUE].dcb = v.dcb
      /\ [v EXCEPT !.found = TRUE].count = v.count /\ [v EXCEPT !.found = TRUE].dcb = v.dcb
  BY DEF ValueType
<1>2. ASSUME NEW n PROVE [v EXCEPT !.count = n].count = n /\ [v EXCEPT !.count = n].dcb = v.dcb
  BY DEF ValueType
<1>3. ASSUME NEW n PROVE [v EXCEPT !.dcb = n].count = v.count
  BY DEF ValueType
<1>4. [v EXCEPT !.fields = TRUE].count = v.count /\ [v EXCEPT !.fields = TRUE].dcb = v.dcb
  BY DEF ValueType
<1> QED BY <1>1, <1>2, <1>3, <1>4

LEMMA PlainValueGood ==
  ASSUME NEW tag \in Tags
  PROVE  /\ Value(tag) \in GoodValue
         /\ [Value(tag) EXCEPT !.level = 1] \in GoodValue
         /\ [Value(tag) EXCEPT !.err = TRUE] \in GoodValue
         /\ [Value(tag) EXCEPT !.found = TRUE] \in GoodValue
         /\ dcbs \in 0..255 => [Value(tag) EXCEPT !.count = dcbs] \in GoodValue
         /\ \A i \in 0..255 : Index(tag, i) \in GoodValue /\ Data(tag, i) \in GoodValue
<1>1. Value(tag) \in ValueType
  BY DEF Value, ValueType, Tags
<1>2. Value(tag).count = None /\ Value(tag).dcb = None
  BY DEF Value
<1> DEFINE v == Value(tag)
<1> HIDE DEF v
<1>3. v \in ValueType /\ v.count = None /\ v.dcb = None
  BY <1>1, <1>2 DEF v
<1>4. /\ v \in GoodValue
      /\ [v EXCEPT !.level = 1] \in GoodValue
      /\ [v EXCEPT !.err = TRUE] \in GoodValue
      /\ [v EXCEPT !.found = TRUE] \in GoodValue
  BY <1>3, ValueFieldTyped, ValueFields DEF GoodValue
<1>5. dcbs \in 0..255 => [v EXCEPT !.count = dcbs] \in GoodValue
  BY <1>3, ValueFieldTyped, ValueFields DEF GoodValue
<1>6. ASSUME NEW i \in 0..255
      PROVE  Index(tag, i) \in GoodValue /\ Data(tag, i) \in GoodValue
  <2> DEFINE w == [v EXCEPT !.dcb = i]
  <2>1. w \in ValueType /\ w.count = None
    BY <1>3, ValueFieldTyped, ValueFields
  <2>2. Index(tag, i) = w /\ Data(tag, i) = [w EXCEPT !.fields = TRUE]
    BY DEF Index, Data, v
  <2> HIDE DEF w
  <2>3. w \in GoodValue /\ [w EXCEPT !.fields = TRUE] \in GoodValue
    BY <2>1, ValueFieldTyped, ValueFields DEF GoodValue
  <2> QED BY <2>2, <2>3
<1> QED BY <1>4, <1>5, <1>6 DEF v

LEMMA Singleton ==
  ASSUME NEW S, NEW v \in S
  PROVE  <<v>> \in Seq(S)
OBVIOUS

LEMMA PartGood ==
  ASSUME NEW selected \in BOOLEAN, NEW S, selected => S \subseteq GoodValue
  PROVE  Part(selected, S) \subseteq Seq(GoodValue)
<1>1. CASE selected
  BY <1>1, Singleton DEF Part
<1>2. CASE ~selected
  BY <1>2, EmptySeq DEF Part
<1> QED BY <1>1, <1>2

LEMMA ContainersGood ==
  ASSUME NEW F, NEW tag \in {"BAT_DATA", "PVI_DATA"}, NEW good \in GoodValue
  PROVE  OrError(Containers(good, tag, F), F) \subseteq GoodValue
BY PlainValueGood DEF OrError, Containers, Tags

LEMMA AnswersGood ==
  ASSUME NEW r \in RequestType, NEW F, dcbs \in 0..255
  PROVE  Answers(r, F) \subseteq Seq(GoodValue)
<1>1. CASE r.auth
  <2> DEFINE S == OrError({[Value("AUTHENTICATION") EXCEPT !.level = 1]}
                          \cup {Value("AUTHENTICATION") : f \in F \cap {"denied"}}, F)
  <2>1. S \subseteq GoodValue
    BY PlainValueGood DEF OrError, Tags
  <2>2. Answers(r, F) = {<<v>> : v \in S}
    BY <1>1 DEF Answers
  <2> HIDE DEF S
  <2> QED BY <2>1, <2>2, Singleton
<1>2. CASE ~r.auth
  <2> DEFINE A == Part(r.read # "none", ReadAnswers(r, F))
             B == Part(r.dump # "none", DumpAnswers(r, F))
             C == Part(r.others # {}, OrError({Value("PLAIN")}, F))
  <2>1. r.read # "none" => ReadAnswers(r, F) \subseteq GoodValue
    <3>1. r.read \in {"none", "plain", "bat", "pvi"}
      BY DEF RequestType
    <3>2. CASE r.read = "plain"
      BY <3>2, PlainValueGood DEF ReadAnswers, OrError, Tags
    <3>3. CASE r.read = "bat"
      BY <3>3, PlainValueGood, ContainersGood DEF ReadAnswers, Tags
    <3>4. CASE r.read = "pvi"
      BY <3>4, PlainValueGood, ContainersGood DEF ReadAnswers, Tags
    <3> QED BY <3>1, <3>2, <3>3, <3>4
  <2>2. r.dump # "none" => DumpAnswers(r, F) \subseteq GoodValue
    <3>1. CASE r.dump = "first"
      BY <3>1, PlainValueGood, ContainersGood DEF DumpAnswers, Tags
    <3>2. CASE r.dump = "dcb" /\ r.index < dcbs
      <4>1. r.index \in 0..255
        BY DEF RequestType
      <4>2. /\ Index("BAT_DATA", r.index) \in GoodValue /\ Data("BAT_DATA", r.index) \in GoodValue
            /\ Data("DCB_INFO", r.index) \in GoodValue
        BY <4>1, PlainValueGood DEF Tags
      <4> QED BY <3>2, <4>2, ContainersGood DEF DumpAnswers, Tags
    <3>3. CASE ~(r.dump = "first") /\ ~(r.dump = "dcb" /\ r.index < dcbs)
      BY <3>3, PlainValueGood DEF DumpAnswers, Tags
    <3> QED BY <3>1, <3>2, <3>3
  <2>3. OrError({Value("PLAIN")}, F) \subseteq GoodValue
    BY PlainValueGood DEF OrError, Tags
  <2>4. A \subseteq Seq(GoodValue) /\ B \subseteq Seq(GoodValue) /\ C \subseteq Seq(GoodValue)
    BY <2>1, <2>2, <2>3, PartGood
  <2> HIDE DEF A, B, C
  <2>5. \A a \in A, b \in B, c \in C : a \o b \o c \in Seq(GoodValue)
    BY <2>4, ConcatProperties
  <2>6. Answers(r, F) = {a \o b \o c : a \in A, b \in B, c \in C}
    BY <1>2 DEF Answers, A, B, C
  <2> SUFFICES ASSUME NEW x \in Answers(r, F) PROVE x \in Seq(GoodValue)
    OBVIOUS
  <2>7. PICK a \in A, b \in B, c \in C : x = a \o b \o c
    BY <2>6
  <2> QED BY <2>5, <2>7
<1> QED BY <1>1, <1>2 DEF RequestType

-----------------------------------------------------------------------------
(* Every step keeps Safe *)

\* What no step changes, and with it what a good message is.
Fixed == cmd' = cmd /\ dcbs' = dcbs

LEMMA NextFixed ==
  ASSUME [Next]_vars
  PROVE  Fixed
BY DEF Next, Program, Environment, Terminated, vars, Fixed, StopOnInterrupt,
       SendAuthentication, SendCommand, ReceiveFrame, FrameHandled, WatchPause, Finish,
       NextRound, DeviceStep, DeviceServes, DeviceFails, DeviceIgnores, DeviceAnswers,
       ReceiveTimesOut, SendFails, ReceiveFails, Interrupt, InterruptReceive,
       HandleResponseValue, Authenticated, Refused, PrintOnly, PviData, BatError, BatPlain,
       BatDcb, BatRetry, BatSkip, Continues, BatElements, DcbInfoIgnored, DcbInfo,
       UnchangedByValue

\* Safe for the messages under way and for the context, said apart.
LEMMA SafeAgain ==
  ASSUME Fixed, Safe,
         g_ctx' \in ContextType, Walk(g_ctx'),
         values' \in Seq(GoodValue),
         toClient' \in Seq(Seq(GoodValue)), toDevice' \in Seq(RequestType),
         pc' \in Places, ended' \in {"no", "finished", "interrupt", "socket"},
         counter' \in {0, 1}, iAuthenticated' \in BOOLEAN, g_watchInterrupted' \in BOOLEAN,
         sent' \in 0..2, attempts' \in 0..MaxRetries,
         shown' \subseteq 0..127, blank' \subseteq 0..255, warned' \subseteq 0..255,
         jsonPrinted' \in BOOLEAN, wrongNotFound' \in BOOLEAN, troubled' \in BOOLEAN
  PROVE  Safe'
<1>1. GoodValue' = GoodValue
  BY DEF Fixed, GoodValue
<1>2. GoodValue \subseteq ValueType
  BY DEF GoodValue
<1>3. values' \in Seq(ValueType)
  BY <1>2, SeqMonotonic
<1>4. Seq(GoodValue) \subseteq Seq(ValueType)
  BY <1>2, SeqMonotonic
<1>5. toClient' \in Seq(Seq(ValueType))
  BY <1>4, SeqMonotonic
<1>6. Walk(g_ctx)'
  BY DEF Walk, Fixed
<1>7. GoodMessages'
  BY <1>1 DEF GoodMessages
<1>8. TypeOK'
  BY <1>3, <1>5 DEF TypeOK, Fixed, Safe
<1> QED BY <1>6, <1>7, <1>8 DEF Safe

LEMMA InitSafe == Init => Safe
<1> SUFFICES ASSUME Init PROVE Safe
  OBVIOUS
<1>1. InitialContext \in ContextType /\ ~InitialContext.needMoreDCBRequests
  BY DEF InitialContext, ContextType
<1>2. Walk(g_ctx)
  BY <1>1 DEF Walk, Init
<1>3. GoodMessages
  BY EmptySeq DEF GoodMessages, Init
<1>4. values \in Seq(ValueType) /\ toDevice \in Seq(RequestType) /\ toClient \in Seq(Seq(ValueType))
  BY EmptySeq DEF Init
<1>5. attempts \in 0..MaxRetries /\ sent \in 0..2
  BY RetriesAssumption DEF Init
<1>6. TypeOK
  BY <1>1, <1>4, <1>5 DEF TypeOK, Init, Places
<1> QED BY <1>2, <1>3, <1>6 DEF Safe

LEMMA DeviceSafe ==
  ASSUME Safe, DeviceStep, Fixed
  PROVE  Safe'
<1>1. UNCHANGED <<progVars, tallyVars>> /\ toDevice # <<>> /\ toDevice' = Tail(toDevice)
  BY DEF DeviceStep, DeviceServes, DeviceFails, DeviceAnswers, DeviceIgnores, InTrouble, histVars
<1>7. troubled' \in BOOLEAN
  BY DEF DeviceStep, DeviceServes, DeviceFails, DeviceIgnores, InTrouble, histVars, Safe, TypeOK
<1>2. Head(toDevice) \in RequestType /\ toDevice' \in Seq(RequestType)
  BY <1>1, HeadTailProperties DEF Safe, TypeOK
<1>3. dcbs \in 0..255
  BY BatteriesAssumption DEF Safe, TypeOK
<1>4. \A F : Answers(Head(toDevice), F) \subseteq Seq(GoodValue)
  BY <1>2, <1>3, AnswersGood
<1>5. ASSUME NEW S, S \subseteq Seq(GoodValue), DeviceAnswers(S)
      PROVE  toClient' \in Seq(Seq(GoodValue))
  <2>1. PICK a \in S : toClient' = Append(toClient, a)
    BY <1>5 DEF DeviceAnswers
  <2> QED BY <2>1, <1>5, AppendProperties DEF Safe, GoodMessages
<1>6. toClient' \in Seq(Seq(GoodValue))
  <2>1. CASE DeviceServes
    BY <2>1, <1>4, <1>5 DEF DeviceServes
  <2>2. CASE DeviceFails
    <3> DEFINE S == Answers(Head(toDevice), Faults) \ Answers(Head(toDevice), {})
    <3>1. S \subseteq Seq(GoodValue) /\ DeviceAnswers(S)
      BY <2>2, <1>4 DEF DeviceFails
    <3> HIDE DEF S
    <3> QED BY <3>1, <1>5
  <2>3. CASE DeviceIgnores
    BY <2>3 DEF DeviceIgnores, Safe, GoodMessages
  <2> QED BY <2>1, <2>2, <2>3 DEF DeviceStep
<1> QED BY <1>1, <1>2, <1>6, <1>7, SafeAgain DEF Safe, TypeOK, GoodMessages, progVars, tallyVars

LEMMA FlagsSafe ==
  ASSUME Safe, NEW r \in RequestType
  PROVE  FlagsOf(r) \in ContextType /\ Walk(FlagsOf(r))
<1> DEFINE m == IF r.read = "none" THEN g_ctx.batContainerQuery \/ r.dump # "none"
                ELSE r.read = "bat" \/ r.dump # "none"
           p == IF r.read = "none" THEN g_ctx.pviContainerQuery ELSE r.read = "pvi"
<1>1. g_ctx \in ContextType /\ Walk(g_ctx)
  BY DEF Safe, TypeOK
<1>2. g_ctx.batContainerQuery \in BOOLEAN /\ g_ctx.pviContainerQuery \in BOOLEAN
  BY <1>1 DEF ContextType
<1>3. m \in BOOLEAN /\ p \in BOOLEAN
  BY <1>2
<1>4. FlagsOf(r) = [g_ctx EXCEPT !.batContainerQuery = m, !.pviContainerQuery = p]
  BY DEF FlagsOf
<1> HIDE DEF m, p
<1>5. FlagsOf(r) \in ContextType
  BY <1>1, <1>3, <1>4, FlagsTyped
<1>6. Walk(FlagsOf(r))
  BY <1>1, <1>4 DEF Walk, Attempting, ContextType
<1> QED BY <1>5, <1>6

LEMMA RequestsTyped ==
  ASSUME Safe
  PROVE  AuthRequest \in RequestType /\ CommandRequest \in RequestType
<1>1. AuthRequest \in RequestType
  BY DEF AuthRequest, RequestType
<1>2. cmd \in CommandType
  BY CommandsAssumption DEF Safe, TypeOK
<1>3. cmd.read \in {"none", "plain", "bat", "pvi"} /\ cmd.others \in SUBSET Others
  BY <1>2 DEF CommandType
<1>4. g_ctx.currentDCBIndex \in 0..255
  BY DEF Safe, TypeOK, ContextType
<1>5. CommandRequest \in RequestType
  BY <1>3, <1>4 DEF CommandRequest, RequestType
<1> QED BY <1>1, <1>5

\* mainLoop and receiveLoop.
LEMMA LoopSafe ==
  ASSUME Safe, Fixed,
         \/ StopOnInterrupt \/ SendAuthentication \/ SendCommand \/ SendFails
         \/ ReceiveFrame \/ FrameHandled \/ ReceiveTimesOut \/ ReceiveFails
         \/ Interrupt \/ InterruptReceive \/ WatchPause \/ Finish \/ NextRound
  PROVE  Safe'
<1> USE DEF Safe, TypeOK, GoodMessages, netVars, histVars, tallyVars, Places
<1>1. CASE StopOnInterrupt
  BY <1>1, SafeAgain DEF StopOnInterrupt
<1>2. CASE SendAuthentication
  <2>1. toDevice' \in Seq(RequestType)
    BY <1>2, RequestsTyped, AppendProperties DEF SendAuthentication
  <2> QED BY <1>2, <2>1, SafeAgain DEF SendAuthentication
<1>3. CASE SendCommand
  <2>1. toDevice' \in Seq(RequestType)
    BY <1>3, RequestsTyped, AppendProperties DEF SendCommand
  <2>2. g_ctx' \in ContextType /\ Walk(g_ctx')
    BY <1>3, RequestsTyped, FlagsSafe DEF SendCommand
  <2>3. sent' \in 0..2
    BY <1>3 DEF SendCommand, AtMost
  <2>4. attempts' \in 0..MaxRetries
    BY <1>3, RetriesAssumption DEF SendCommand, AtMost
  <2> QED BY <1>3, <2>1, <2>2, <2>3, <2>4, SafeAgain DEF SendCommand
<1>4. CASE SendFails
  <2>1. g_ctx' \in ContextType /\ Walk(g_ctx')
    BY <1>4, RequestsTyped, FlagsSafe DEF SendFails
  <2> QED BY <1>4, <2>1, SafeAgain DEF SendFails
<1>5. CASE ReceiveFrame
  <2>1. values' \in Seq(GoodValue) /\ toClient' \in Seq(Seq(GoodValue))
    BY <1>5, HeadTailProperties DEF ReceiveFrame
  <2> QED BY <1>5, <2>1, SafeAgain DEF ReceiveFrame
<1>6. CASE FrameHandled
  BY <1>6, SafeAgain DEF FrameHandled
<1>7. CASE ReceiveTimesOut
  BY <1>7, SafeAgain DEF ReceiveTimesOut, InTrouble
<1>8. CASE ReceiveFails
  BY <1>8, SafeAgain DEF ReceiveFails
<1>9. CASE Interrupt
  BY <1>9, SafeAgain DEF Interrupt
<1>10. CASE InterruptReceive
  BY <1>10, SafeAgain DEF InterruptReceive
<1>11. CASE WatchPause
  BY <1>11, SafeAgain DEF WatchPause
<1>12. CASE Finish
  BY <1>12, SafeAgain DEF Finish
<1>13. CASE NextRound
  BY <1>13, SafeAgain DEF NextRound
<1> QED BY <1>1, <1>2, <1>3, <1>4, <1>5, <1>6, <1>7, <1>8, <1>9, <1>10, <1>11, <1>12, <1>13

LEMMA HandlesSafe ==
  ASSUME Safe, NEW v, Handles(v)
  PROVE  v \in GoodValue /\ values' \in Seq(GoodValue)
BY HeadTailProperties DEF Handles, Safe, GoodMessages

LEMMA ReportsTyped ==
  ASSUME Safe, NEW v
  PROVE  Reports(v) \subseteq 0..127
<1>1. Before(v, shown) \subseteq 0..127
  BY DEF Before, Safe, TypeOK
<1> QED BY <1>1 DEF Reports, Shows, Holds

LEMMA BlanksTyped ==
  ASSUME Safe, NEW v \in GoodValue
  PROVE  Blanks(v) \subseteq 0..255
<1>1. Before(v, blank) \subseteq 0..255
  BY DEF Before, Safe, TypeOK
<1>2. v.dcb # None => v.dcb \in 0..255
  BY DEF GoodValue, ValueType
<1> QED BY <1>1, <1>2 DEF Blanks

\* handleResponseValue.
LEMMA HandlerSafe ==
  ASSUME Safe, Fixed, NEW v, Handles(v),
         \/ Authenticated(v) \/ Refused(v) \/ PrintOnly(v) \/ PviData(v)
         \/ BatError(v) \/ BatPlain(v) \/ BatDcb(v) \/ BatRetry(v) \/ BatSkip(v)
         \/ DcbInfoIgnored(v) \/ DcbInfo(v)
  PROVE  Safe'
<1>1. v \in GoodValue /\ values' \in Seq(GoodValue)
  BY HandlesSafe
<1>2. g_ctx \in ContextType /\ Walk(g_ctx)
  BY DEF Safe, TypeOK
<1> DEFINE c == CountSeen(v)
<1>3. c \in ContextType /\ Walk(c)
  BY <1>1, <1>2, CountSeenSafe
<1>4. 0 \in 0..MaxRetries /\ attempts \in 0..MaxRetries
  BY RetriesAssumption DEF Safe, TypeOK
<1> DEFINE Typed(g) == g \in ContextType /\ Walk(g)
<1>5. CASE Authenticated(v) \/ Refused(v) \/ PrintOnly(v) \/ DcbInfoIgnored(v)
  <2>1. /\ UNCHANGED <<g_ctx, attempts, shown, blank, warned, wrongNotFound>>
        /\ UnchangedByValue
    BY <1>5 DEF Authenticated, Refused, PrintOnly, DcbInfoIgnored
  <2>2. pc' \in Places /\ iAuthenticated' \in BOOLEAN
    BY <1>5 DEF Authenticated, Refused, PrintOnly, DcbInfoIgnored, Safe, TypeOK, Places
  <2> QED BY <1>1, <1>2, <2>1, <2>2, SafeAgain
          DEF UnchangedByValue, Safe, TypeOK, GoodMessages, netVars
<1>6. CASE PviData(v)
  <2>1. g_ctx' \in ContextType
    BY <1>2, <1>6, FieldTyped DEF PviData
  <2>2. Walk(g_ctx')
    BY <1>2, <1>6 DEF PviData, Walk, Attempting, ContextType
  <2>3. wrongNotFound' \in BOOLEAN
    BY <1>6 DEF PviData
  <2> QED BY <1>1, <1>6, <2>1, <2>2, <2>3, SafeAgain
          DEF PviData, UnchangedByValue, Safe, TypeOK, GoodMessages, netVars
<1>7. ASSUME BatElements(v), Typed(g_ctx'), attempts' \in {0, attempts},
             warned' \subseteq 0..255, wrongNotFound' \in BOOLEAN
      PROVE  Safe'
  <2>3. shown' = Reports(v) /\ blank' = Blanks(v)
    BY <1>7 DEF BatElements
  <2>1. shown' \subseteq 0..127 /\ blank' \subseteq 0..255
    <3>1. Reports(v) \subseteq 0..127
      BY ReportsTyped
    <3>2. Blanks(v) \subseteq 0..255
      BY <1>1, BlanksTyped
    <3> QED BY <2>3, <3>1, <3>2
  <2>2. attempts' \in 0..MaxRetries
    BY <1>4, <1>7
  <2> QED BY <1>1, <1>7, <2>1, <2>2, SafeAgain
          DEF BatElements, UnchangedByValue, Safe, TypeOK, GoodMessages, netVars
<1>8. Typed(Answered(c))
  BY <1>3, AdvancedTyped, WalkAnswered
<1>9. warned \subseteq 0..255 /\ wrongNotFound \in BOOLEAN
  BY DEF Safe, TypeOK
<1> HIDE DEF Typed, c
<1>10. CASE BatError(v)
  BY <1>7, <1>8, <1>9, <1>10 DEF BatError, c
<1>11. CASE BatPlain(v)
  BY <1>7, <1>8, <1>9, <1>11 DEF BatPlain, c
<1>12. CASE BatDcb(v)
  <2>1. GotDcb(c) \in ContextType /\ Walk(GotDcb(c))
    BY <1>3, WalkOnTyped, WalkOn
  <2>2. Typed(Answered(GotDcb(c)))
    BY <2>1, AdvancedTyped, WalkAnswered DEF Typed
  <2> QED BY <1>7, <1>9, <1>12, <2>2 DEF BatDcb, Continues, c
<1>13. CASE BatRetry(v)
  <2> DEFINE g == [c EXCEPT !.dcbRequestRetries = NextRetry(c)]
  <2>1. NextRetry(c) \in 0..255
    BY <1>3 DEF NextRetry, ContextType
  <2>2. g \in ContextType /\ Walk(g)
    BY <1>3, <1>13, <2>1, FieldTyped, WalkRetries DEF BatRetry, c
  <2> HIDE DEF g
  <2>3. Typed(Answered(g))
    BY <2>2, AdvancedTyped, WalkAnswered DEF Typed
  <2> QED BY <1>7, <1>9, <1>13, <2>3 DEF BatRetry, Continues, c, g
<1>14. CASE BatSkip(v)
  <2>1. SkipDcb(c) \in ContextType /\ Walk(SkipDcb(c))
    BY <1>3, WalkOnTyped, WalkOn
  <2>2. Typed(Answered(SkipDcb(c)))
    BY <2>1, AdvancedTyped, WalkAnswered DEF Typed
  <2>3. c.currentDCBIndex \in 0..255
    BY <1>3 DEF ContextType
  <2>4. warned' \subseteq 0..255
    BY <1>9, <1>14, <2>3 DEF BatSkip, c
  <2> QED BY <1>7, <1>9, <1>14, <2>2, <2>4 DEF BatSkip, Continues, c
<1>15. CASE DcbInfo(v)
  <2> DEFINE g == [GotDcb(g_ctx) EXCEPT !.dcbRequestRetries = g_ctx.dcbRequestRetries]
  <2>1. g_ctx.dcbRequestRetries \in 0..255
    BY <1>2 DEF ContextType
  <2>2. GotDcb(g_ctx) \in ContextType /\ Walk(GotDcb(g_ctx))
    BY <1>2, WalkOnTyped, WalkOn
  <2>3. g \in ContextType
    BY <2>1, <2>2, FieldTyped
  <2>7. ASSUME g_ctx.needMoreDCBRequests PROVE Walk(g)
    <3>1. MaxRetries \in 1..255 => g_ctx.dcbRequestRetries < MaxRetries
      BY <1>2, <2>7 DEF Walk, Attempting
    <3> QED BY <2>1, <2>2, <3>1, WalkRetries
  <2> HIDE DEF g
  <2>4. g_ctx' \in ContextType /\ Walk(g_ctx')
    BY <1>2, <1>15, <2>3, <2>7 DEF DcbInfo, g
  <2>5. shown' \subseteq 0..127
    <3>1. shown \subseteq 0..127
      BY DEF Safe, TypeOK
    <3>2. shown' = shown \/ (v.dcb \in 0..127 /\ shown' = shown \cup {v.dcb})
      BY <1>15 DEF DcbInfo, Holds
    <3> QED BY <3>1, <3>2
  <2>8. blank' \subseteq 0..255
    <3>1. blank \subseteq 0..255
      BY DEF Safe, TypeOK
    <3>2. v.dcb # None => v.dcb \in 0..255
      BY <1>1 DEF GoodValue, ValueType
    <3>3. blank' = blank \/ (v.dcb # None /\ blank' = blank \cup {v.dcb})
      BY <1>15 DEF DcbInfo
    <3> QED BY <3>1, <3>2, <3>3
  <2>6. attempts' \in 0..MaxRetries
    BY <1>4, <1>15 DEF DcbInfo
  <2>9. /\ UNCHANGED <<pc, iAuthenticated, warned, wrongNotFound>>
        /\ UnchangedByValue
    BY <1>15 DEF DcbInfo
  <2> QED BY <1>1, <2>4, <2>5, <2>6, <2>8, <2>9, SafeAgain
          DEF UnchangedByValue, Safe, TypeOK, GoodMessages, netVars
<1> QED BY <1>5, <1>6, <1>10, <1>11, <1>12, <1>13, <1>14, <1>15

LEMMA NextSafe ==
  ASSUME Safe, [Next]_vars
  PROVE  Safe'
<1>1. Fixed
  BY NextFixed
<1>2. CASE DeviceStep
  BY <1>1, <1>2, DeviceSafe
<1>3. CASE \/ StopOnInterrupt \/ SendAuthentication \/ SendCommand \/ SendFails
           \/ ReceiveFrame \/ FrameHandled \/ ReceiveTimesOut \/ ReceiveFails
           \/ Interrupt \/ InterruptReceive \/ WatchPause \/ Finish \/ NextRound
  BY <1>1, <1>3, LoopSafe
<1>4. CASE HandleResponseValue
  <2>1. PICK v : \/ Authenticated(v) \/ Refused(v) \/ PrintOnly(v) \/ PviData(v)
                 \/ BatError(v) \/ BatPlain(v) \/ BatDcb(v) \/ BatRetry(v) \/ BatSkip(v)
                 \/ DcbInfoIgnored(v) \/ DcbInfo(v)
    BY <1>4 DEF HandleResponseValue
  <2>2. Handles(v)
    BY <2>1 DEF Authenticated, Refused, PrintOnly, PviData, BatError, BatPlain, BatDcb,
       BatRetry, BatSkip, Continues, BatElements, DcbInfoIgnored, DcbInfo
  <2> QED BY <1>1, <2>1, <2>2, HandlerSafe
<1>5. CASE UNCHANGED vars
  BY <1>5 DEF vars, progVars, netVars, histVars, tallyVars, Safe, TypeOK, GoodMessages, GoodValue, Walk
<1> QED BY <1>2, <1>3, <1>4, <1>5 DEF Next, Program, Environment, Terminated

\* The invariant that TypeCorrect and DumpStaysInRange rest on.
THEOREM SafeAlways == Spec => []Safe
BY InitSafe, NextSafe, PTL DEF Spec

\* Every variable keeps to its type; in particular none of the uint8_t fields
\* of g_ctx takes a value the code's arithmetic on them would not give.
THEOREM TypeCorrect == Spec => []TypeOK
<1>1. Safe => TypeOK
  BY DEF Safe
<1> QED BY <1>1, SafeAlways, PTL

\* However answers are lost, late, refused or doubled, the dump loop of
\* handleResponseValue never points behind the last DCB of the battery, and with
\* max_retries in 1..255 it has an attempt left for the DCB it points to.
THEOREM DumpStaysInRange == Spec => []DumpInRange
<1>1. Safe => DumpInRange
  BY DEF Safe, Walk, Attempting, DumpInRange
<1> QED BY <1>1, SafeAlways, PTL

-----------------------------------------------------------------------------
(* Outside of watch mode every round but the first has a DCB to ask for.   *)
(* In the first there is no command request yet, thus nothing but answers  *)
(* to the login can come.                                                  *)

LoginValue == {v \in ValueType : v.tag \in {"AUTHENTICATION", "ERROR"}}

BeforeLogin ==
  counter = 0 =>
    /\ g_ctx.isFirstModuleDumpRequest /\ ~g_ctx.needMoreDCBRequests /\ sent = 0
    /\ pc = "send" => ~iAuthenticated
    /\ toDevice \in Seq({AuthRequest})
    /\ values \in Seq(LoginValue) /\ toClient \in Seq(Seq(LoginValue))

DueRequest == {r \in RequestType : r.dump = "dcb" => r.index < dcbs}

Once ==
  ~cmd.watch =>
    /\ pc = "send" => g_ctx.isFirstModuleDumpRequest \/ g_ctx.needMoreDCBRequests
    /\ toDevice \in Seq(DueRequest)
    /\ ~cmd.dump => sent <= 1 /\ (pc = "send" => sent = 0)

LEMMA LoginAnswers ==
  ASSUME NEW F
  PROVE  Answers(AuthRequest, F) \subseteq Seq(LoginValue)
<1> DEFINE S == OrError({[Value("AUTHENTICATION") EXCEPT !.level = 1]}
                        \cup {Value("AUTHENTICATION") : f \in F \cap {"denied"}}, F)
<1>1. Value("AUTHENTICATION") \in LoginValue /\ Value("ERROR") \in LoginValue
  <2>1. Value("AUTHENTICATION") \in GoodValue /\ Value("ERROR") \in GoodValue
    BY PlainValueGood DEF Tags
  <2> QED BY <2>1 DEF GoodValue, LoginValue, Value
<1>2. [Value("AUTHENTICATION") EXCEPT !.level = 1] \in LoginValue
  <2>1. [Value("AUTHENTICATION") EXCEPT !.level = 1] \in GoodValue
    BY PlainValueGood DEF Tags
  <2> QED BY <2>1 DEF GoodValue, LoginValue, Value
<1>3. S \subseteq LoginValue
  BY <1>1, <1>2 DEF OrError
<1>4. Answers(AuthRequest, F) = {<<v>> : v \in S}
  BY DEF Answers, AuthRequest
<1> HIDE DEF S
<1> QED BY <1>3, <1>4, Singleton

LEMMA BeforeLoginKept ==
  ASSUME Safe, BeforeLogin, [Next]_vars
  PROVE  BeforeLogin'
<1> SUFFICES ASSUME counter' = 0
             PROVE  /\ g_ctx'.isFirstModuleDumpRequest /\ ~g_ctx'.needMoreDCBRequests
                    /\ sent' = 0
                    /\ pc' = "send" => ~iAuthenticated'
                    /\ toDevice' \in Seq({AuthRequest})
                    /\ values' \in Seq(LoginValue) /\ toClient' \in Seq(Seq(LoginValue))
  BY DEF BeforeLogin, AuthRequest, LoginValue, ValueType
<1>1. CASE DeviceStep
  <2>1. UNCHANGED <<progVars, tallyVars>> /\ toDevice # <<>> /\ toDevice' = Tail(toDevice)
    BY <1>1 DEF DeviceStep, DeviceServes, DeviceFails, DeviceAnswers, DeviceIgnores, InTrouble,
       histVars
  <2>2. counter = 0
    BY <2>1 DEF progVars
  <2>3. Head(toDevice) = AuthRequest /\ toDevice' \in Seq({AuthRequest})
    BY <2>1, <2>2, HeadTailProperties DEF BeforeLogin
  <2>4. ASSUME NEW S, S \subseteq Seq(LoginValue), DeviceAnswers(S)
        PROVE  toClient' \in Seq(Seq(LoginValue))
    <3>1. PICK a \in S : toClient' = Append(toClient, a)
      BY <2>4 DEF DeviceAnswers
    <3> QED BY <2>2, <2>4, <3>1, AppendProperties DEF BeforeLogin
  <2>5. toClient' \in Seq(Seq(LoginValue))
    <3>1. CASE DeviceServes
      BY <2>3, <2>4, <3>1, LoginAnswers DEF DeviceServes
    <3>2. CASE DeviceFails
      <4> DEFINE S == Answers(Head(toDevice), Faults) \ Answers(Head(toDevice), {})
      <4>1. S \subseteq Seq(LoginValue) /\ DeviceAnswers(S)
        BY <2>3, <3>2, LoginAnswers DEF DeviceFails
      <4> HIDE DEF S
      <4> QED BY <2>4, <4>1
    <3>3. CASE DeviceIgnores
      BY <2>2, <3>3 DEF DeviceIgnores, BeforeLogin
    <3> QED BY <1>1, <3>1, <3>2, <3>3 DEF DeviceStep
  <2> QED BY <2>1, <2>2, <2>3, <2>5 DEF BeforeLogin, progVars, histVars, tallyVars
<1>2. CASE SendAuthentication
  <2>1. counter = 0
    BY <1>2 DEF SendAuthentication
  <2>2. toDevice' \in Seq({AuthRequest})
    BY <1>2, <2>1, AppendProperties DEF SendAuthentication, BeforeLogin
  <2> QED BY <1>2, <2>1, <2>2 DEF SendAuthentication, BeforeLogin, histVars, tallyVars
<1>3. CASE SendCommand \/ SendFails \/ NextRound \/ WatchPause
  BY <1>3 DEF SendCommand, Sendable, SendFails, NextRound, WatchPause, Watching, BeforeLogin
<1>4. CASE ReceiveFrame
  <2>1. counter = 0 /\ toClient # <<>>
    BY <1>4 DEF ReceiveFrame
  <2>2. values' \in Seq(LoginValue) /\ toClient' \in Seq(Seq(LoginValue))
    BY <1>4, <2>1, HeadTailProperties DEF ReceiveFrame, BeforeLogin
  <2> QED BY <1>4, <2>1, <2>2 DEF ReceiveFrame, BeforeLogin, histVars, tallyVars
<1>5. CASE StopOnInterrupt \/ FrameHandled \/ ReceiveTimesOut \/ ReceiveFails
           \/ Interrupt \/ InterruptReceive \/ Finish
  <2>1. UNCHANGED <<counter, iAuthenticated, g_ctx, values, netVars, sent>>
    BY <1>5 DEF StopOnInterrupt, FrameHandled, ReceiveTimesOut, ReceiveFails, Interrupt,
                InterruptReceive, Finish, InTrouble, histVars, tallyVars
  <2>2. pc' = "send" => pc = "send"
    BY <1>5 DEF StopOnInterrupt, FrameHandled, ReceiveTimesOut, ReceiveFails, Interrupt,
                InterruptReceive, Finish
  <2> QED BY <2>1, <2>2 DEF BeforeLogin, netVars
<1>6. CASE HandleResponseValue
  <2>1. PICK v : \/ Authenticated(v) \/ Refused(v) \/ PrintOnly(v) \/ PviData(v)
                 \/ BatError(v) \/ BatPlain(v) \/ BatDcb(v) \/ BatRetry(v) \/ BatSkip(v)
                 \/ DcbInfoIgnored(v) \/ DcbInfo(v)
    BY <1>6 DEF HandleResponseValue
  <2>2. Handles(v) /\ UnchangedByValue
    BY <2>1 DEF Authenticated, Refused, PrintOnly, PviData, BatError, BatPlain, BatDcb,
       BatRetry, BatSkip, Continues, BatElements, DcbInfoIgnored, DcbInfo
  <2>3. counter = 0
    BY <2>2 DEF UnchangedByValue
  <2>4. v \in LoginValue /\ values' \in Seq(LoginValue)
    BY <2>2, <2>3, HeadTailProperties DEF Handles, BeforeLogin
  <2>5. Authenticated(v) \/ Refused(v) \/ PrintOnly(v)
    BY <2>1, <2>4 DEF LoginValue, PviData, BatError, BatPlain, BatDcb, BatRetry, BatSkip,
       Continues, BatElements, DcbInfoIgnored, DcbInfo
  <2>6. UNCHANGED g_ctx /\ pc' # "send"
    BY <2>2, <2>5 DEF Authenticated, Refused, PrintOnly, Handles
  <2> QED BY <2>2, <2>3, <2>4, <2>6 DEF BeforeLogin, UnchangedByValue, netVars
<1>7. CASE UNCHANGED vars
  BY <1>7 DEF vars, progVars, netVars, histVars, tallyVars, BeforeLogin
<1> QED BY <1>1, <1>2, <1>3, <1>4, <1>5, <1>6, <1>7 DEF Next, Program, Environment, Terminated

LEMMA RequestDue ==
  ASSUME Safe, BeforeLogin, Once, SendCommand, ~cmd.watch
  PROVE  CommandRequest \in DueRequest /\ (~cmd.dump => sent = 0)
<1>1. CommandRequest \in RequestType
  BY RequestsTyped
<1>2. pc = "send"
  BY DEF SendCommand, Sendable
<1>3. CommandRequest.dump = "dcb" =>
        ~g_ctx.isFirstModuleDumpRequest /\ CommandRequest.index = g_ctx.currentDCBIndex
  BY DEF CommandRequest
<1>4. CommandRequest.dump = "dcb" => CommandRequest.index < dcbs
  BY <1>2, <1>3 DEF Once, Safe, Walk
<1> QED BY <1>1, <1>2, <1>4 DEF DueRequest, Once

LEMMA OnceKept ==
  ASSUME Safe, BeforeLogin, Once, [Next]_vars
  PROVE  Once'
<1>1. cmd' = cmd /\ DueRequest' = DueRequest
  BY NextFixed DEF Fixed, DueRequest
<1> SUFFICES ASSUME ~cmd.watch
             PROVE  /\ pc' = "send" =>
                         g_ctx'.isFirstModuleDumpRequest \/ g_ctx'.needMoreDCBRequests
                    /\ toDevice' \in Seq(DueRequest)
                    /\ ~cmd.dump => sent' <= 1 /\ (pc' = "send" => sent' = 0)
  BY <1>1 DEF Once
<1>2. CASE DeviceStep
  <2>1. UNCHANGED <<progVars, tallyVars>> /\ toDevice # <<>> /\ toDevice' = Tail(toDevice)
    BY <1>2 DEF DeviceStep, DeviceServes, DeviceFails, DeviceAnswers, DeviceIgnores, InTrouble,
       histVars
  <2>2. toDevice' \in Seq(DueRequest)
    BY <2>1, HeadTailProperties DEF Once
  <2> QED BY <2>1, <2>2 DEF Once, progVars, histVars, tallyVars
<1>3. CASE SendAuthentication
  <2>1. AuthRequest \in DueRequest
    BY RequestsTyped DEF DueRequest, AuthRequest
  <2>2. toDevice' \in Seq(DueRequest)
    BY <1>3, <2>1, AppendProperties DEF SendAuthentication, Once
  <2> QED BY <1>3, <2>2 DEF SendAuthentication, Once, histVars, tallyVars
<1>4. CASE SendCommand
  <2>1. toDevice' \in Seq(DueRequest)
    BY <1>4, RequestDue, AppendProperties DEF SendCommand, Once
  <2>2. ~cmd.dump => sent' = 1
    BY <1>4, RequestDue DEF SendCommand, AtMost
  <2> QED BY <1>4, <2>1, <2>2 DEF SendCommand
<1>5. CASE NextRound
  <2>1. UNCHANGED <<g_ctx, netVars, sent>> /\ (counter = 0 \/ g_ctx.needMoreDCBRequests)
    BY <1>5 DEF NextRound, histVars, tallyVars
  <2>2. g_ctx.needMoreDCBRequests => cmd.dump
    BY DEF Safe, Walk
  <2> QED BY <2>1, <2>2 DEF Once, BeforeLogin, netVars
<1>6. CASE StopOnInterrupt \/ SendFails \/ ReceiveFrame \/ FrameHandled \/ ReceiveTimesOut
           \/ ReceiveFails \/ Interrupt \/ InterruptReceive \/ WatchPause \/ Finish
  <2>1. UNCHANGED <<toDevice, sent>> /\ (pc' = "send" => pc = "send" /\ UNCHANGED g_ctx)
    BY <1>6 DEF StopOnInterrupt, SendFails, ReceiveFrame, FrameHandled, ReceiveTimesOut,
       ReceiveFails, Interrupt, InterruptReceive, WatchPause, Watching, Finish,
       InTrouble, netVars, histVars, tallyVars
  <2> QED BY <2>1 DEF Once
<1>7. CASE HandleResponseValue
  <2>1. UNCHANGED <<toDevice, sent>> /\ pc' # "send"
    BY <1>7 DEF HandleResponseValue, Authenticated, Refused, PrintOnly, PviData, BatError,
       BatPlain, BatDcb, BatRetry, BatSkip, Continues, BatElements, DcbInfoIgnored, DcbInfo,
       Handles, UnchangedByValue, netVars
  <2> QED BY <2>1 DEF Once
<1>8. CASE UNCHANGED vars
  BY <1>8 DEF vars, progVars, netVars, histVars, tallyVars, Once
<1> QED BY <1>2, <1>3, <1>4, <1>5, <1>6, <1>7, <1>8 DEF Next, Program, Environment, Terminated

LEMMA InitOnce == Init => BeforeLogin /\ Once
<1> SUFFICES ASSUME Init PROVE BeforeLogin /\ Once
  OBVIOUS
<1>1. BeforeLogin
  BY EmptySeq DEF Init, InitialContext, BeforeLogin
<1>2. Once
  BY EmptySeq DEF Init, InitialContext, Once
<1> QED BY <1>1, <1>2

THEOREM OnceAlways == Spec => [](Safe /\ BeforeLogin /\ Once)
<1>1. Init => Safe /\ BeforeLogin /\ Once
  BY InitSafe, InitOnce
<1>2. Safe /\ BeforeLogin /\ Once /\ [Next]_vars => (Safe /\ BeforeLogin /\ Once)'
  BY NextSafe, BeforeLoginKept, OnceKept
<1> QED BY <1>1, <1>2, PTL DEF Spec

\* Outside of watch mode no request names a DCB the battery does not have,
\* late and doubled answers included.
THEOREM RequestsStayInRange == Spec => []OnceRequestInRange
<1>1. Once => OnceRequestInRange
  <2> SUFFICES ASSUME Once, ~cmd.watch, NEW k \in DOMAIN toDevice, toDevice[k].dump = "dcb"
               PROVE  toDevice[k].index < dcbs
    BY DEF OnceRequestInRange, RequestInRange
  <2>1. toDevice \in Seq(DueRequest)
    BY DEF Once
  <2>2. toDevice[k] \in DueRequest
    BY <2>1, LenProperties, ElementOfSeq
  <2> QED BY <2>2 DEF DueRequest
<1> QED BY <1>1, OnceAlways, PTL

\* A control command (start charging, set the limits or the reserve) goes out
\* at most once in a run, timeouts, errors and repeated logins or not.
THEOREM CommandIsSentOnce == Spec => []CommandSentOnce
<1>1. Safe /\ Once => CommandSentOnce
  BY DEF Once, CommandSentOnce
<1> QED BY <1>1, OnceAlways, PTL

-----------------------------------------------------------------------------
(* The dump walks as DumpCursor does, provided there is a retry at all:    *)
(* with max_retries <= 1 the answer with the count uses up the one attempt *)
(* of the first DCB, and the walk begins behind it.                        *)

SizeOf(g) == IF g.needMoreDCBRequests THEN g.totalDCBs ELSE 0
NextOf(g) == IF g.needMoreDCBRequests THEN g.currentDCBIndex ELSE 0

\* A step of DumpCursor from the walk in g to the walk in h.
Walks(g, h) ==
  \/ SizeOf(h) = SizeOf(g) /\ NextOf(h) = NextOf(g)
  \/ SizeOf(g) = 0 /\ SizeOf(h) \in Batteries \ {0} /\ NextOf(h) = 0
  \/ NextOf(g) + 1 < SizeOf(g) /\ NextOf(h) = NextOf(g) + 1 /\ SizeOf(h) = SizeOf(g)
  \/ SizeOf(g) # 0 /\ NextOf(g) + 1 = SizeOf(g) /\ SizeOf(h) = 0 /\ NextOf(h) = 0

\* The two ways on from a DCB take the walk to the next one or end it.
LEMMA WalkOnWalks ==
  ASSUME NEW g \in ContextType, Walk(g), g.needMoreDCBRequests
  PROVE  Walks(g, GotDcb(g)) /\ Walks(g, SkipDcb(g))
<1>1. g.currentDCBIndex < g.totalDCBs /\ g.currentDCBIndex \in 0..255 /\ g.totalDCBs \in 0..255
  BY DEF Walk, ContextType
<1>2. NextIndex(g) = g.currentDCBIndex + 1
  BY <1>1, NoWrap
<1>3. Advanced(g) \in ContextType
  BY AdvancedTyped
<1>4. CASE NextIndex(g) < g.totalDCBs
  <2>1. GotDcb(g) = Advanced(g) /\ SkipDcb(g) = Advanced(g)
    BY <1>4 DEF GotDcb, SkipDcb
  <2>2. /\ SizeOf(Advanced(g)) = SizeOf(g)
        /\ NextOf(Advanced(g)) = g.currentDCBIndex + 1 /\ NextOf(g) = g.currentDCBIndex
        /\ SizeOf(g) = g.totalDCBs
    BY <1>2, AdvancedFields DEF SizeOf, NextOf
  <2> QED BY <1>2, <1>4, <2>1, <2>2 DEF Walks
<1>5. CASE ~(NextIndex(g) < g.totalDCBs)
  <2>1. GotDcb(g) = Over(Advanced(g)) /\ SkipDcb(g) = NoneDue(Advanced(g))
    BY <1>5 DEF GotDcb, SkipDcb
  <2>2. /\ SizeOf(GotDcb(g)) = 0 /\ NextOf(GotDcb(g)) = 0
        /\ SizeOf(SkipDcb(g)) = 0 /\ NextOf(SkipDcb(g)) = 0
    BY <1>3, <2>1, AdvancedFields DEF SizeOf, NextOf
  <2>3. NextOf(g) = g.currentDCBIndex /\ SizeOf(g) = g.totalDCBs
    BY DEF SizeOf, NextOf
  <2>4. SizeOf(g) # 0 /\ NextOf(g) + 1 = SizeOf(g)
    <3>1. ~(g.currentDCBIndex + 1 < g.totalDCBs)
      BY <1>2, <1>5
    <3>2. g.totalDCBs # 0 /\ g.currentDCBIndex + 1 = g.totalDCBs
      <4>1. \A i, n \in 0..255 : i < n /\ ~(i + 1 < n) => n # 0 /\ i + 1 = n
        OBVIOUS
      <4> QED BY <1>1, <3>1, <4>1
    <3> QED BY <2>3, <3>2
  <2> QED BY <2>2, <2>4 DEF Walks
<1> QED BY <1>4, <1>5

\* The flag of the answer and the retries are not the walk's.
LEMMA SameWalk ==
  ASSUME NEW g \in ContextType
  PROVE  /\ SizeOf(Answered(g)) = SizeOf(g) /\ NextOf(Answered(g)) = NextOf(g)
         /\ \A n \in 0..255 :
              LET h == [g EXCEPT !.dcbRequestRetries = n]
              IN  SizeOf(h) = SizeOf(g) /\ NextOf(h) = NextOf(g)
BY AnsweredFields, RetriesFields DEF SizeOf, NextOf

\* A count begins a walk where there was none, or leaves the walk as it was.
LEMMA CountWalksOn ==
  ASSUME Safe, NEW v \in GoodValue
  PROVE  /\ Walks(g_ctx, CountSeen(v))
         /\ ~StartsDump(v) => /\ SizeOf(CountSeen(v)) = SizeOf(g_ctx)
                              /\ NextOf(CountSeen(v)) = NextOf(g_ctx)
<1>1. g_ctx \in ContextType /\ Walk(g_ctx) /\ dcbs \in Batteries
  BY DEF Safe, TypeOK
<1>2. CASE StartsDump(v)
  <2>1. CountSeen(v) = Begun(g_ctx, v.count) /\ v.count = dcbs /\ v.count \in 1..255
    BY <1>2, CountStarts
  <2>2. SizeOf(CountSeen(v)) = dcbs /\ NextOf(CountSeen(v)) = 0
    BY <1>1, <2>1 DEF Begun, ContextType, SizeOf, NextOf
  <2>3. SizeOf(g_ctx) = 0
    BY <1>1, <1>2 DEF StartsDump, Walk, SizeOf
  <2>4. dcbs \in Batteries \ {0}
    BY <1>1, <2>1
  <2> QED BY <1>2, <2>2, <2>3, <2>4 DEF Walks
<1>3. CASE ~StartsDump(v)
  <2>1. SizeOf(CountSeen(v)) = SizeOf(g_ctx) /\ NextOf(CountSeen(v)) = NextOf(g_ctx)
    <3>1. CASE ~cmd.dump \/ v.count = None
      BY <3>1 DEF CountSeen
    <3>2. CASE cmd.dump /\ v.count # None /\ v.count = 0
      <4>1. CountSeen(v) = CalledOff(g_ctx)
        BY <1>3, <3>2 DEF CountSeen
      <4>2. SizeOf(CountSeen(v)) = 0 /\ NextOf(CountSeen(v)) = 0
        BY <1>1, <4>1 DEF CalledOff, Over, ContextType, SizeOf, NextOf
      <4>3. dcbs = 0
        BY <3>2 DEF GoodValue
      <4>4. ~g_ctx.needMoreDCBRequests
        BY <1>1, <4>3 DEF Walk, ContextType
      <4> QED BY <4>2, <4>4 DEF SizeOf, NextOf
    <3>3. CASE cmd.dump /\ v.count # None /\ v.count # 0
      <4>1. CountSeen(v) = Counted(g_ctx, dcbs)
        BY <1>3, <3>3 DEF CountSeen, GoodValue
      <4>2. g_ctx.needMoreDCBRequests => g_ctx.totalDCBs = dcbs
        BY <1>1 DEF Walk
      <4> QED BY <1>1, <4>1, <4>2 DEF Counted, ContextType, SizeOf, NextOf
    <3> QED BY <3>1, <3>2, <3>3
  <2> QED BY <1>3, <2>1 DEF Walks
<1> QED BY <1>2, <1>3

LEMMA HandlerWalks ==
  ASSUME MaxRetries > 1, Safe, HandleResponseValue
  PROVE  Walks(g_ctx, g_ctx')
<1>1. PICK v : \/ Authenticated(v) \/ Refused(v) \/ PrintOnly(v) \/ PviData(v)
               \/ BatError(v) \/ BatPlain(v) \/ BatDcb(v) \/ BatRetry(v) \/ BatSkip(v)
               \/ DcbInfoIgnored(v) \/ DcbInfo(v)
  BY DEF HandleResponseValue
<1>2. Handles(v)
  BY <1>1 DEF Authenticated, Refused, PrintOnly, PviData, BatError, BatPlain, BatDcb,
     BatRetry, BatSkip, Continues, BatElements, DcbInfoIgnored, DcbInfo
<1>3. v \in GoodValue
  BY <1>2, HandlesSafe
<1>4. g_ctx \in ContextType /\ Walk(g_ctx)
  BY DEF Safe, TypeOK
<1> DEFINE c == CountSeen(v)
<1>5. c \in ContextType /\ Walk(c)
  BY <1>3, <1>4, CountSeenSafe
<1>6. Walks(g_ctx, c)
  BY <1>3, CountWalksOn
<1>7. ~StartsDump(v) => SizeOf(c) = SizeOf(g_ctx) /\ NextOf(c) = NextOf(g_ctx)
  BY <1>3, CountWalksOn
<1> HIDE DEF c
<1>8. CASE Authenticated(v) \/ Refused(v) \/ PrintOnly(v) \/ DcbInfoIgnored(v)
  BY <1>8 DEF Authenticated, Refused, PrintOnly, DcbInfoIgnored, Walks
<1>9. CASE PviData(v)
  BY <1>4, <1>9 DEF PviData, ContextType, Walks, SizeOf, NextOf
<1>10. CASE BatError(v) \/ BatPlain(v)
  <2>1. g_ctx' = Answered(c)
    BY <1>10 DEF BatError, BatPlain, c
  <2> QED BY <1>5, <1>6, <2>1, SameWalk DEF Walks
<1>11. CASE BatDcb(v)
  <2>1. g_ctx' = Answered(GotDcb(c)) /\ c.needMoreDCBRequests /\ ~StartsDump(v)
    BY <1>3, <1>11, CountStarts DEF BatDcb, Continues, c
  <2>2. GotDcb(c) \in ContextType /\ Walks(c, GotDcb(c))
    BY <1>5, <2>1, WalkOnTyped, WalkOnWalks
  <2> QED BY <1>7, <2>1, <2>2, SameWalk DEF Walks
<1>12. CASE BatRetry(v)
  <2> DEFINE g == [c EXCEPT !.dcbRequestRetries = NextRetry(c)]
  <2>1. NextRetry(c) \in 0..255
    BY <1>5 DEF NextRetry, ContextType
  <2>2. g \in ContextType /\ SizeOf(g) = SizeOf(c) /\ NextOf(g) = NextOf(c)
    BY <1>5, <2>1, FieldTyped, SameWalk
  <2>3. g_ctx' = Answered(g)
    BY <1>12 DEF BatRetry, c
  <2> HIDE DEF g
  <2> QED BY <1>6, <2>2, <2>3, SameWalk DEF Walks
<1>13. CASE BatSkip(v)
  <2>1. g_ctx' = Answered(SkipDcb(c)) /\ c.needMoreDCBRequests /\ NextRetry(c) >= MaxRetries
    BY <1>13 DEF BatSkip, Continues, c
  <2>2. ~StartsDump(v)
    <3> SUFFICES ASSUME StartsDump(v) PROVE FALSE
      OBVIOUS
    <3>1. c.dcbRequestRetries = 0
      BY <1>3, <1>4, CountStarts DEF Begun, ContextType, c
    <3>2. NextRetry(c) = 1
      BY <3>1 DEF NextRetry
    <3> QED BY <2>1, <3>2, RetriesAssumption
  <2>3. SkipDcb(c) \in ContextType /\ Walks(c, SkipDcb(c))
    BY <1>5, <2>1, WalkOnTyped, WalkOnWalks
  <2> QED BY <1>7, <2>1, <2>2, <2>3, SameWalk DEF Walks
<1>14. CASE DcbInfo(v)
  <2> DEFINE g == [GotDcb(g_ctx) EXCEPT !.dcbRequestRetries = g_ctx.dcbRequestRetries]
  <2>1. CASE ~g_ctx.needMoreDCBRequests
    BY <1>14, <2>1 DEF DcbInfo, Walks
  <2>2. CASE g_ctx.needMoreDCBRequests
    <3>1. g_ctx' = g
      BY <1>14, <2>2 DEF DcbInfo
    <3>2. GotDcb(g_ctx) \in ContextType /\ Walks(g_ctx, GotDcb(g_ctx))
      BY <1>4, <2>2, WalkOnTyped, WalkOnWalks
    <3>3. SizeOf(g) = SizeOf(GotDcb(g_ctx)) /\ NextOf(g) = NextOf(GotDcb(g_ctx))
      BY <1>4, <3>2, SameWalk DEF ContextType
    <3> QED BY <3>1, <3>2, <3>3 DEF Walks
  <2> QED BY <2>1, <2>2
<1> QED BY <1>1, <1>8, <1>9, <1>10, <1>11, <1>12, <1>13, <1>14

LEMMA NextWalks ==
  ASSUME MaxRetries > 1, Safe, [Next]_vars
  PROVE  Walks(g_ctx, g_ctx')
<1>1. CASE HandleResponseValue
  BY <1>1, HandlerWalks
<1>2. CASE SendCommand \/ SendFails
  <2>1. g_ctx' = FlagsOf(CommandRequest) \/ g_ctx' = g_ctx
    BY <1>2 DEF SendCommand, SendFails
  <2>2. g_ctx \in ContextType
    BY DEF Safe, TypeOK
  <2> QED BY <2>1, <2>2 DEF FlagsOf, ContextType, Walks, SizeOf, NextOf
<1>3. CASE \/ StopOnInterrupt \/ SendAuthentication \/ ReceiveFrame \/ FrameHandled
           \/ ReceiveTimesOut \/ ReceiveFails \/ Interrupt \/ InterruptReceive
           \/ WatchPause \/ Finish \/ NextRound \/ DeviceStep \/ UNCHANGED vars
  <2>1. g_ctx' = g_ctx
    BY <1>3 DEF StopOnInterrupt, SendAuthentication, ReceiveFrame, FrameHandled,
       ReceiveTimesOut, ReceiveFails, Interrupt, InterruptReceive, WatchPause, Finish,
       NextRound, DeviceStep, DeviceServes, DeviceFails, DeviceIgnores, DeviceAnswers,
       progVars, vars
  <2> QED BY <2>1 DEF Walks
<1> QED BY <1>1, <1>2, <1>3 DEF Next, Program, Environment, Terminated

\* With two attempts or more, Session implements DumpCursor: the DCBs are
\* taken one by one, none twice and none left out, whatever answers come.
THEOREM DumpWalksInOrder == ASSUME MaxRetries > 1 PROVE Spec => WalksDcbsInOrder
<1>1. Init => Cursor!Init
  BY DEF Init, InitialContext, Cursor!Init
<1>2. ASSUME Safe, [Next]_vars PROVE [Cursor!Next]_(Cursor!vars)
  <2>1. Walks(g_ctx, g_ctx')
    BY <1>2, NextWalks
  <2>2. /\ SizeOf(g_ctx) = IF g_ctx.needMoreDCBRequests THEN g_ctx.totalDCBs ELSE 0
        /\ NextOf(g_ctx) = IF g_ctx.needMoreDCBRequests THEN g_ctx.currentDCBIndex ELSE 0
        /\ SizeOf(g_ctx') = IF g_ctx'.needMoreDCBRequests THEN g_ctx'.totalDCBs ELSE 0
        /\ NextOf(g_ctx') = IF g_ctx'.needMoreDCBRequests THEN g_ctx'.currentDCBIndex ELSE 0
    BY DEF SizeOf, NextOf
  <2> QED BY <2>1, <2>2
          DEF Walks, Cursor!Next, Cursor!Begin, Cursor!Step, Cursor!End, Cursor!vars
<1> QED BY <1>1, <1>2, SafeAlways, PTL DEF Spec, WalksDcbsInOrder, Cursor!Spec
=============================================================================
