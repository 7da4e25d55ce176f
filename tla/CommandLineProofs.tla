-------------------------- MODULE CommandLineProofs --------------------------
(***************************************************************************)
(* Theorems about CommandLine: for all options, their number and order,    *)
(* and all configurations.                                                 *)
(***************************************************************************)
EXTENDS CommandLine, RscpValueProofs

-----------------------------------------------------------------------------
(* The context as a function of the names of its fields *)

Value == BOOLEAN \cup WordsGiven \cup Floats

IsContext(c) == c \in [Fields -> Value] /\ ContextOK(c)

LEMMA Setting ==
  ASSUME NEW S, NEW c \in [S -> Value], NEW g \in S, NEW e \in Value
  PROVE  /\ [c EXCEPT ![g] = e] \in [S -> Value]
         /\ [c EXCEPT ![g] = e][g] = e
         /\ \A f \in S : f # g => [c EXCEPT ![g] = e][f] = c[f]
OBVIOUS

LEMMA FieldsApart ==
  /\ \A f \in Flags : f \notin Words /\ f \notin Uint32Fields /\ f \notin Uint16Fields
  /\ \A f \in Words : f \notin Uint32Fields /\ f \notin Uint16Fields
  /\ \A f \in Uint32Fields : f \notin Uint16Fields
  /\ \A f \in FloatFields \cup IntFields :
       f \notin Flags /\ f \notin Words /\ f \notin Uint32Fields /\ f \notin Uint16Fields
  /\ \A f \in IntFields : f \notin FloatFields
<1>1. \A f \in Flags : f \notin Words
  BY DEF Flags, Words
<1>2. \A f \in Flags : f \notin Uint32Fields
  BY DEF Flags, Uint32Fields
<1>3. \A f \in Flags : f \notin Uint16Fields
  BY DEF Flags, Uint16Fields
<1>4. \A f \in Words : f \notin Uint32Fields /\ f \notin Uint16Fields
  BY DEF Words, Uint32Fields, Uint16Fields
<1>5. \A f \in Uint32Fields : f \notin Uint16Fields
  BY DEF Uint32Fields, Uint16Fields
<1>6. \A f \in FloatFields \cup IntFields :
        f \notin Flags /\ f \notin Words /\ f \notin Uint32Fields /\ f \notin Uint16Fields
  BY DEF FloatFields, IntFields, Flags, Words, Uint32Fields, Uint16Fields
<1>7. \A f \in IntFields : f \notin FloatFields
  BY DEF FloatFields, IntFields
<1> QED BY <1>1, <1>2, <1>3, <1>4, <1>5, <1>6, <1>7

\* The values a field may have.
TypeOf(g) == IF g \in Flags THEN BOOLEAN
             ELSE IF g \in Words THEN WordsGiven
             ELSE IF g \in Uint32Fields THEN Uint32Values
             ELSE IF g \in Uint16Fields THEN Uint16Values
             ELSE IF g \in FloatFields THEN Floats ELSE Int

LEMMA ByField ==
  ASSUME NEW c
  PROVE  ContextOK(c) <=> \A f \in Fields : c[f] \in TypeOf(f)
<1>1. \A f \in Flags : TypeOf(f) = BOOLEAN
  BY DEF TypeOf
<1>2. \A f \in Words : TypeOf(f) = WordsGiven
  BY FieldsApart DEF TypeOf
<1>3. \A f \in Uint32Fields : TypeOf(f) = Uint32Values
  BY FieldsApart DEF TypeOf
<1>4. \A f \in Uint16Fields : TypeOf(f) = Uint16Values
  BY FieldsApart DEF TypeOf
<1>5. \A f \in IntFields : TypeOf(f) = Int
  BY FieldsApart DEF TypeOf
<1>8. \A f \in FloatFields : TypeOf(f) = Floats
  BY FieldsApart DEF TypeOf
<1>6. ContextOK(c) <=> /\ \A f \in Flags : c[f] \in BOOLEAN
                       /\ \A f \in Words : c[f] \in WordsGiven
                       /\ \A f \in Uint32Fields : c[f] \in Uint32Values
                       /\ \A f \in Uint16Fields : c[f] \in Uint16Values
                       /\ \A f \in FloatFields : c[f] \in Floats
                       /\ \A f \in IntFields : c[f] \in Int
  BY DEF ContextOK
<1>7. \A f : f \in Fields <=> f \in Flags \/ f \in Words \/ f \in Uint32Fields
                               \/ f \in Uint16Fields \/ f \in FloatFields \/ f \in IntFields
  BY DEF Fields
<1> QED BY <1>1, <1>2, <1>3, <1>4, <1>5, <1>6, <1>7, <1>8, ZenonT(30)

LEMMA TypesAreValues == \A f \in Fields : \A e \in TypeOf(f) : e \in Value
<1>1. \A e \in Uint32Values : e \in Int
  BY RangeAssumption DEF Uint32Values
<1>2. \A e \in Uint16Values : e \in Int
  <2>1. Uint16Limit \in Int
    BY DEF Uint16Limit
  <2> QED BY <2>1 DEF Uint16Values
<1> QED BY <1>1, <1>2 DEF TypeOf, Value, Floats

\* A field that is set to a value of its type.
LEMMA SettingKeeps ==
  ASSUME NEW c, IsContext(c), NEW g \in Fields, NEW e \in TypeOf(g)
  PROVE  /\ IsContext([c EXCEPT ![g] = e])
         /\ [c EXCEPT ![g] = e][g] = e
         /\ \A f \in Fields : f # g => [c EXCEPT ![g] = e][f] = c[f]
<1> DEFINE new == [c EXCEPT ![g] = e]
<1>1. e \in Value /\ c \in [Fields -> Value]
  BY TypesAreValues DEF IsContext
<1>2. /\ new \in [Fields -> Value]
      /\ new[g] = e
      /\ \A f \in Fields : f # g => new[f] = c[f]
  BY <1>1, Setting
<1>3. \A f \in Fields : c[f] \in TypeOf(f)
  BY ByField DEF IsContext
<1> HIDE DEF new
<1>4. \A f \in Fields : new[f] \in TypeOf(f)
  BY <1>2, <1>3
<1>5. ContextOK(new)
  BY <1>4, ByField
<1> QED BY <1>2, <1>5 DEF new, IsContext

LEMMA FlagsDown == \A f \in Flags : InitialContext[f] = FALSE
<1>1. "watchInterval" \in Uint32Fields
  BY DEF Uint32Fields
<1> QED BY <1>1, FieldsApart DEF InitialContext, Fields

LEMMA Start == IsContext(InitialContext)
<1> DEFINE c == InitialContext
<1>0. "watchInterval" \in Uint32Fields
  BY DEF Uint32Fields
<1>1. \A f \in Flags : c[f] = FALSE
  BY FlagsDown
<1>2. \A f \in Words : c[f] = NoTag
  BY <1>0, FieldsApart DEF InitialContext, Fields
<1>3. \A f \in Fields : f \notin Flags /\ f \notin Words => c[f] = 0 \/ c[f] = 5
  BY <1>0 DEF InitialContext
<1>4. c \in [Fields -> Value]
  <2>1. \A f \in Fields : c[f] \in Value
    <3>1. FALSE \in Value /\ NoTag \in Value /\ 0 \in Value /\ 5 \in Value
      BY DEF Value, WordsGiven, Floats
    <3> QED BY <3>1, <1>1, <1>2, <1>3
  <2> QED BY <2>1 DEF InitialContext
<1>5. ContextOK(c)
  <2>1. \A f \in Uint32Fields : c[f] = 0 \/ c[f] = 5
    BY <1>3, FieldsApart DEF Fields
  <2>2. \A f \in Uint16Fields : c[f] = 0 \/ c[f] = 5
    BY <1>3, FieldsApart DEF Fields
  <2>3. \A f \in FloatFields \cup IntFields : c[f] = 0 \/ c[f] = 5
    BY <1>3, FieldsApart DEF Fields
  <2>4. 0 \in Uint32Values /\ 5 \in Uint32Values
    BY RangeAssumption DEF Uint32Values
  <2>5. 0 \in Uint16Values /\ 5 \in Uint16Values /\ 0 \in Int /\ 5 \in Int
    <3>1. Uint16Limit \in Nat /\ Uint16Limit > 5
      BY DEF Uint16Limit
    <3> QED BY <3>1 DEF Uint16Values
  <2>6. NoTag \in WordsGiven
    BY DEF WordsGiven
  <2> HIDE DEF c
  <2>7. \A f \in Flags : c[f] \in BOOLEAN
    BY <1>1
  <2>8. \A f \in Words : c[f] \in WordsGiven
    BY <1>2, <2>6
  <2>9. \A f \in Uint32Fields : c[f] \in Uint32Values
    BY <2>1, <2>4
  <2>10. \A f \in Uint16Fields : c[f] \in Uint16Values
    BY <2>2, <2>5
  <2>11. \A f \in IntFields : c[f] \in Int
    BY <2>3, <2>5
  <2>12. \A f \in FloatFields : c[f] \in Floats
    BY <2>3, <2>5 DEF Floats
  <2> QED BY <2>7, <2>8, <2>9, <2>10, <2>11, <2>12 DEF ContextOK
<1> QED BY <1>4, <1>5 DEF IsContext

LEMMA KnownFields ==
  /\ \A f \in Flags : f \in Fields /\ TypeOf(f) = BOOLEAN
  /\ \A f \in Words : f \in Fields /\ TypeOf(f) = WordsGiven
  /\ \A f \in Uint32Fields : f \in Fields /\ TypeOf(f) = Uint32Values
  /\ \A f \in Uint16Fields : f \in Fields /\ TypeOf(f) = Uint16Values
  /\ \A f \in FloatFields : f \in Fields /\ TypeOf(f) = Floats
  /\ \A f \in IntFields : f \in Fields /\ TypeOf(f) = Int
BY FieldsApart DEF TypeOf, Fields

-----------------------------------------------------------------------------
(* The options *)

\* What no option takes back.
Keeps(c, new) ==
  /\ IsContext(new)
  /\ c.werteAbfragen => new.werteAbfragen
  /\ c.historieAbfrage => new.historieAbfrage
  /\ c.sysInfoAbfrage => new.sysInfoAbfrage

\* The type of a history is one of the four, if there is a history.
TypeKnown(c) == c.historieAbfrage => c.historieTyp \in HistoryTypes

LEMMA SettingKeepsFlags ==
  ASSUME NEW c, IsContext(c), NEW g \in Fields, NEW e \in TypeOf(g),
         g \in {"werteAbfragen", "historieAbfrage", "sysInfoAbfrage"} => e = TRUE
  PROVE  /\ Keeps(c, [c EXCEPT ![g] = e])
         /\ [c EXCEPT ![g] = e][g] = e
         /\ g \notin {"historieAbfrage", "historieTyp"} /\ TypeKnown(c) => TypeKnown([c EXCEPT ![g] = e])
<1> DEFINE new == [c EXCEPT ![g] = e]
<1>1. IsContext(new) /\ new[g] = e /\ \A f \in Fields : f # g => new[f] = c[f]
  BY SettingKeeps
<1>2. {"werteAbfragen", "historieAbfrage", "sysInfoAbfrage", "historieTyp"} \subseteq Fields
  BY DEF Fields, Flags, Words
<1> HIDE DEF new
<1>3. Keeps(c, new)
  BY <1>1, <1>2 DEF Keeps
<1>4. g \notin {"historieAbfrage", "historieTyp"} /\ TypeKnown(c) => TypeKnown(new)
  BY <1>1, <1>2 DEF TypeKnown
<1> QED BY <1>1, <1>3, <1>4 DEF new

LEMMA FlagsRaised ==
  ASSUME NEW c, IsContext(c), NEW g \in Flags
  PROVE  /\ Keeps(c, [c EXCEPT ![g] = TRUE])
         /\ [c EXCEPT ![g] = TRUE][g] = TRUE
         /\ g # "historieAbfrage" /\ TypeKnown(c) => TypeKnown([c EXCEPT ![g] = TRUE])
<1>1. g \in Fields /\ TRUE \in TypeOf(g) /\ g # "historieTyp"
  BY KnownFields DEF Flags
<1> QED BY <1>1, SettingKeepsFlags

LEMMA KeepsChain ==
  ASSUME NEW a, NEW b, NEW c, Keeps(a, b), Keeps(b, c)
  PROVE  Keeps(a, c)
BY DEF Keeps

LEMMA Cut == \A n \in Int : Uint32(n) \in Uint32Values /\ Uint16(n) \in Uint16Values
<1>1. \A n \in Int, r \in Nat : r > 0 => n % r \in 0..(r - 1)
  OBVIOUS
<1>2. Uint32Range \in Nat /\ Uint32Range > 0
  BY RangeAssumption
<1>3. Uint16Limit \in Nat /\ Uint16Limit > 0
  BY DEF Uint16Limit
<1>4. \A n \in Int : Uint32(n) \in Uint32Values
  BY <1>1, <1>2 DEF Uint32, Uint32Values
<1>5. \A n \in Int : Uint16(n) \in Uint16Values
  BY <1>1, <1>3 DEF Uint16, Uint16Values
<1> QED BY <1>4, <1>5

LEMMA OptionParts == \A o \in Options : o.n \in Int /\ o.s \in WordsGiven /\ atof(o) \in Floats
BY OptionsAssumption DEF WordsGiven, atof, Floats

LEMMA FieldNames ==
  /\ {"leistungAendern", "automatischLeistungEinstellen", "ladeLeistungGesetzt",
      "entladeLeistungGesetzt", "manuelleSpeicherladung", "setEPReserve", "werteAbfragen",
      "modulInfoDump", "batIndexExplicit", "historieAbfrage", "sysInfoAbfrage"} \subseteq Flags
  /\ {"leseTag", "tagName", "historieTyp", "historieDatum"} \subseteq Words
  /\ {"ladeLeistung", "entladeLeistung", "ladungsMenge", "watchInterval"} \subseteq Uint32Fields
  /\ "batIndex" \in Uint16Fields
  /\ "epReserveWh" \in FloatFields /\ "datum" \in IntFields
BY DEF Flags, Words, Uint32Fields, Uint16Fields, FloatFields, IntFields

LEMMA PowerSet ==
  ASSUME NEW c, IsContext(c), NEW o \in Options
  PROVE  Keeps(c, SetPower(c, o)) /\ (TypeKnown(c) => TypeKnown(SetPower(c, o)))
<1>1. CASE o.opt = "d"
  <2> DEFINE a == [c EXCEPT !["leistungAendern"] = TRUE]
             b == [a EXCEPT !["entladeLeistungGesetzt"] = TRUE]
             d == [b EXCEPT !["entladeLeistung"] = Uint32(o.n)]
  <2>1. Keeps(c, a) /\ IsContext(a) /\ (TypeKnown(c) => TypeKnown(a))
    BY FlagsRaised, FieldNames DEF Keeps
  <2> HIDE DEF a
  <2>2. Keeps(a, b) /\ IsContext(b) /\ (TypeKnown(a) => TypeKnown(b))
    BY <2>1, FlagsRaised, FieldNames DEF Keeps
  <2> HIDE DEF b
  <2>3. Uint32(o.n) \in TypeOf("entladeLeistung") /\ "entladeLeistung" \in Fields
    BY Cut, OptionParts, FieldNames, KnownFields
  <2>4. Keeps(b, d) /\ (TypeKnown(b) => TypeKnown(d))
    BY <2>2, <2>3, SettingKeepsFlags
  <2>5. SetPower(c, o) = d
    BY <1>1 DEF SetPower, a, b
  <2> HIDE DEF d
  <2> QED BY <2>1, <2>2, <2>4, <2>5, KeepsChain
<1>2. CASE o.opt # "d"
  <2> DEFINE a == [c EXCEPT !["leistungAendern"] = TRUE]
             b == [a EXCEPT !["ladeLeistungGesetzt"] = TRUE]
             d == [b EXCEPT !["ladeLeistung"] = Uint32(o.n)]
  <2>1. Keeps(c, a) /\ IsContext(a) /\ (TypeKnown(c) => TypeKnown(a))
    BY FlagsRaised, FieldNames DEF Keeps
  <2> HIDE DEF a
  <2>2. Keeps(a, b) /\ IsContext(b) /\ (TypeKnown(a) => TypeKnown(b))
    BY <2>1, FlagsRaised, FieldNames DEF Keeps
  <2> HIDE DEF b
  <2>3. Uint32(o.n) \in TypeOf("ladeLeistung") /\ "ladeLeistung" \in Fields
    BY Cut, OptionParts, FieldNames, KnownFields
  <2>4. Keeps(b, d) /\ (TypeKnown(b) => TypeKnown(d))
    BY <2>2, <2>3, SettingKeepsFlags
  <2>5. SetPower(c, o) = d
    BY <1>2 DEF SetPower, a, b
  <2> HIDE DEF d
  <2> QED BY <2>1, <2>2, <2>4, <2>5, KeepsChain
<1> QED BY <1>1, <1>2

\* Two fields at once, a flag that is raised and another one.
LEMMA PairSet ==
  ASSUME NEW c, IsContext(c), NEW g \in Flags, NEW h \in Fields \ Flags, NEW e \in TypeOf(h)
  PROVE  LET new == [[c EXCEPT ![g] = TRUE] EXCEPT ![h] = e]
         IN /\ Keeps(c, new)
            /\ new[g] = TRUE /\ new[h] = e
            /\ g # "historieAbfrage" /\ h # "historieTyp" /\ TypeKnown(c) => TypeKnown(new)
<1> DEFINE a == [c EXCEPT ![g] = TRUE]
           b == [a EXCEPT ![h] = e]
<1>1. Keeps(c, a) /\ IsContext(a) /\ a[g] = TRUE /\ (g # "historieAbfrage" /\ TypeKnown(c) => TypeKnown(a))
  BY FlagsRaised DEF Keeps
<1> HIDE DEF a
<1>2. h \notin {"werteAbfragen", "historieAbfrage", "sysInfoAbfrage"}
  BY FieldNames
<1>3. /\ Keeps(a, b) /\ b[h] = e
      /\ h # "historieTyp" /\ TypeKnown(a) => TypeKnown(b)
  BY <1>1, <1>2, SettingKeepsFlags
<1>4. b[g] = TRUE
  BY <1>1, SettingKeeps, KnownFields
<1> HIDE DEF b
<1>5. Keeps(c, b)
  BY <1>1, <1>3, KeepsChain
<1> QED BY <1>1, <1>2, <1>3, <1>4, <1>5 DEF a, b

\* One option: what is given once stays given, whatever follows, and a history
\* without a type that is known ends the program.
LEMMA OptionSet ==
  ASSUME NEW c, IsContext(c), NEW o \in Options
  PROVE  LET new == SetOption(c, o)
         IN /\ Keeps(c, new)
            /\ TypeKnown(c) /\ ~EndsAtOnce(o) => TypeKnown(new)
            /\ o.opt \in {"r", "r name"} => new.werteAbfragen
            /\ o.opt = "H" => new.historieAbfrage
            /\ o.opt = "info" => new.sysInfoAbfrage
<1> DEFINE new == SetOption(c, o)
<1>13. o.n \in Int /\ o.s \in WordsGiven /\ atof(o) \in Floats
  BY OptionParts
<1>0. Keeps(c, c)
  BY DEF Keeps
<1>1. CASE o.opt \in {"c", "d"}
  <2>1. new = SetPower(c, o)
    BY <1>1 DEF SetOption, FlagOf
  <2> QED BY <2>1, <1>1, PowerSet
<1>2. CASE o.opt = "a"
  <2> DEFINE a == [c EXCEPT !["leistungAendern"] = TRUE]
             b == [a EXCEPT !["automatischLeistungEinstellen"] = TRUE]
  <2>1. Keeps(c, a) /\ IsContext(a) /\ (TypeKnown(c) => TypeKnown(a))
    BY FlagsRaised, FieldNames DEF Keeps
  <2> HIDE DEF a
  <2>2. Keeps(a, b) /\ (TypeKnown(a) => TypeKnown(b))
    BY <2>1, FlagsRaised, FieldNames
  <2>3. new = b
    BY <1>2 DEF SetOption, FlagOf, a
  <2> HIDE DEF b
  <2>4. Keeps(c, b)
    BY <2>1, <2>2, KeepsChain
  <2> QED BY <2>1, <2>2, <2>3, <2>4, <1>2
<1>3. CASE o.opt = "e"
  <2> DEFINE b == [[c EXCEPT !["manuelleSpeicherladung"] = TRUE] EXCEPT !["ladungsMenge"] = Uint32(o.n)]
  <2>1. new = b
    BY <1>3 DEF SetOption, FlagOf
  <2>2. Uint32(o.n) \in TypeOf("ladungsMenge") /\ "ladungsMenge" \in Fields \ Flags
    BY <1>13, Cut, FieldNames, KnownFields, FieldsApart
  <2>3. "manuelleSpeicherladung" \in Flags
    BY FieldNames
  <2>4. Keeps(c, b) /\ (TypeKnown(c) => TypeKnown(b))
    BY <2>2, <2>3, PairSet
  <2> HIDE DEF b
  <2> QED BY <2>1, <2>4, <1>3
<1>4. CASE o.opt = "E"
  <2> DEFINE b == [[c EXCEPT !["setEPReserve"] = TRUE] EXCEPT !["epReserveWh"] = atof(o)]
  <2>1. new = b
    BY <1>4 DEF SetOption, FlagOf
  <2>2. atof(o) \in TypeOf("epReserveWh") /\ "epReserveWh" \in Fields \ Flags
    BY <1>13, FieldNames, KnownFields, FieldsApart
  <2>3. "setEPReserve" \in Flags
    BY FieldNames
  <2>4. Keeps(c, b) /\ (TypeKnown(c) => TypeKnown(b))
    BY <2>2, <2>3, PairSet
  <2> HIDE DEF b
  <2> QED BY <2>1, <2>4, <1>4
<1>5. CASE o.opt = "H"
  <2> DEFINE b == [[c EXCEPT !["historieAbfrage"] = TRUE] EXCEPT !["historieTyp"] = o.s]
  <2>1. new = b
    BY <1>5 DEF SetOption, FlagOf
  <2>2. o.s \in TypeOf("historieTyp") /\ "historieTyp" \in Fields \ Flags
    BY <1>13, FieldNames, KnownFields, FieldsApart
  <2>5. "historieAbfrage" \in Flags
    BY FieldNames
  <2>6. Keeps(c, b) /\ b["historieAbfrage"] = TRUE
    BY <2>2, <2>5, PairSet
  <2>7. b["historieTyp"] = o.s
    <3> DEFINE a == [c EXCEPT !["historieAbfrage"] = TRUE]
    <3>1. IsContext(a)
      BY <2>5, FlagsRaised DEF Keeps
    <3> HIDE DEF a
    <3>2. [a EXCEPT !["historieTyp"] = o.s]["historieTyp"] = o.s
      BY <3>1, <2>2 DEF IsContext
    <3> QED BY <3>2 DEF a
  <2>3. Keeps(c, b) /\ b["historieAbfrage"] = TRUE /\ b["historieTyp"] = o.s
    BY <2>6, <2>7
  <2> HIDE DEF b
  <2>4. ~EndsAtOnce(o) => o.s \in HistoryTypes
    BY <1>5 DEF EndsAtOnce
  <2> QED BY <2>1, <2>3, <2>4, <1>5 DEF TypeKnown
<1>6. CASE o.opt = "D"
  <2> DEFINE a == [c EXCEPT !["historieDatum"] = o.s]
             b == [a EXCEPT !["datum"] = o.n]
  <2>1. o.s \in TypeOf("historieDatum") /\ "historieDatum" \in Fields
    BY <1>13, FieldNames, KnownFields
  <2>2. Keeps(c, a) /\ IsContext(a) /\ (TypeKnown(c) => TypeKnown(a))
    BY <2>1, SettingKeepsFlags DEF Keeps
  <2> HIDE DEF a
  <2>3. o.n \in TypeOf("datum") /\ "datum" \in Fields
    BY <1>13, FieldNames, KnownFields
  <2>4. Keeps(a, b) /\ (TypeKnown(a) => TypeKnown(b))
    BY <2>2, <2>3, SettingKeepsFlags
  <2>5. new = b
    BY <1>6 DEF SetOption, FlagOf, a
  <2> HIDE DEF b
  <2>6. Keeps(c, b)
    BY <2>2, <2>4, KeepsChain
  <2> QED BY <2>2, <2>4, <2>5, <2>6, <1>6
<1>7. CASE o.opt \in {"r", "r name"}
  <2> DEFINE h == IF o.opt = "r" THEN "leseTag" ELSE "tagName"
  <2> DEFINE b == [[c EXCEPT !["werteAbfragen"] = TRUE] EXCEPT ![h] = o.s]
  <2>1. new = b
    BY <1>7 DEF SetOption, FlagOf, SetTag
  <2>2. o.s \in TypeOf(h) /\ h \in Fields \ Flags /\ h # "historieTyp"
    BY <1>13, FieldNames, KnownFields, FieldsApart
  <2> HIDE DEF h
  <2>3. "werteAbfragen" \in Flags
    BY FieldNames
  <2>4. Keeps(c, b) /\ b["werteAbfragen"] = TRUE /\ (TypeKnown(c) => TypeKnown(b))
    BY <2>2, <2>3, PairSet
  <2> HIDE DEF b
  <2> QED BY <2>1, <2>4, <1>7
<1>8. CASE o.opt \in {"b", "m"}
  <2> DEFINE g == IF o.opt = "b" THEN "batIndexExplicit" ELSE "modulInfoDump"
  <2> DEFINE b == [[c EXCEPT ![g] = TRUE] EXCEPT !["batIndex"] = Uint16(o.n)]
  <2>1. new = b
    BY <1>8 DEF SetOption, FlagOf, SetModule
  <2>2. Uint16(o.n) \in TypeOf("batIndex") /\ "batIndex" \in Fields \ Flags /\ g \in Flags /\ g # "historieAbfrage"
    BY <1>13, Cut, FieldNames, KnownFields, FieldsApart
  <2> HIDE DEF g
  <2>3. Keeps(c, b) /\ (TypeKnown(c) => TypeKnown(b))
    BY <2>2, PairSet
  <2> HIDE DEF b
  <2> QED BY <2>1, <2>3, <1>8
<1>9. CASE o.opt = "interval"
  <2> DEFINE b == [c EXCEPT !["watchInterval"] = Uint32(o.n)]
  <2>1. new = b
    BY <1>9 DEF SetOption, FlagOf
  <2>2. Uint32(o.n) \in TypeOf("watchInterval") /\ "watchInterval" \in Fields
    BY <1>13, Cut, FieldNames, KnownFields
  <2>3. Keeps(c, b) /\ (TypeKnown(c) => TypeKnown(b))
    BY <2>2, SettingKeepsFlags
  <2> HIDE DEF b
  <2> QED BY <2>1, <2>3, <1>9
<1>10. CASE o.opt \in DOMAIN FlagOf
  <2>1. o.opt \in {"q", "j", "l", "w", "raw", "info", "argument"}
    BY <1>10 DEF FlagOf
  <2>2. new = [c EXCEPT ![FlagOf[o.opt]] = TRUE]
    BY <1>10, <2>1 DEF SetOption, FlagOf
  <2>3. FlagOf[o.opt] \in Flags /\ FlagOf[o.opt] # "historieAbfrage"
    BY <2>1 DEF FlagOf, Flags
  <2>4. o.opt = "info" => FlagOf[o.opt] = "sysInfoAbfrage"
    BY DEF FlagOf
  <2> DEFINE g == FlagOf[o.opt]
  <2> HIDE DEF g
  <2> DEFINE b == [c EXCEPT ![g] = TRUE]
  <2>5. g \in Flags /\ g # "historieAbfrage"
    BY <2>3 DEF g
  <2>6. Keeps(c, b) /\ b[g] = TRUE /\ (TypeKnown(c) => TypeKnown(b))
    BY <2>5, FlagsRaised
  <2>7. new = b
    BY <2>2 DEF g
  <2>8. o.opt = "info" => g = "sysInfoAbfrage"
    BY <2>4 DEF g
  <2> HIDE DEF b
  <2>9. o.opt = "info" => b["sysInfoAbfrage"] = TRUE
    BY <2>6, <2>8
  <2> QED BY <2>1, <2>6, <2>7, <2>9
<1>11. CASE o.opt \notin {"c", "d", "a", "e", "E", "H", "D", "r", "r name", "b", "m", "interval",
                          "q", "j", "l", "w", "raw", "info", "argument"}
  <2>1. new = c
    BY <1>11 DEF SetOption, FlagOf
  <2> QED BY <2>1, <1>0, <1>11
<1>12. o.opt \in {"q", "j", "l", "w", "raw", "info", "argument"} => o.opt \in DOMAIN FlagOf
  BY DEF FlagOf
<1> QED BY <1>1, <1>2, <1>3, <1>4, <1>5, <1>6, <1>7, <1>8, <1>9, <1>10, <1>11, <1>12

-----------------------------------------------------------------------------
(* What is in a request *)

LEMMA AppendedElements ==
  ASSUME NEW r, IsValue(r), NEW v, NEW n \in Nat
  PROVE  Elements(Append16(r, v, n)) \subseteq Elements(r) \cup {v}
<1> DEFINE q == Append16(r, v, n)
<1>1. CASE r.length + n > RSCP_MAX_DATA_LENGTH
  <2>1. q = r
    BY <1>1, Appended
  <2> QED BY <2>1
<1>2. CASE r.length + n <= RSCP_MAX_DATA_LENGTH
  <2> DEFINE s == r.items
             e == Item(r.length, v)
  <2>1. q.items = Append(s, e)
    BY <1>2, Appended
  <2>2. IsSeq(s)
    BY DEF IsValue
  <2>3. e.value = v
    BY DEF Item
  <2> HIDE DEF e, q
  <2>4. Len(s) \in Nat /\ DOMAIN s = 1..Len(s)
    BY <2>2, SeqDomain
  <2>5. /\ DOMAIN q.items = 1..Len(s) + 1
        /\ \A i \in 1..Len(s) : q.items[i] = s[i]
        /\ q.items[Len(s) + 1] = e
    BY <2>1, <2>2, AppendSeq
  <2>6. \A i \in DOMAIN q.items : (i \in DOMAIN s /\ q.items[i] = s[i]) \/ q.items[i].value = v
    BY <2>3, <2>4, <2>5
  <2>7. Elements(q) \subseteq Elements(r) \cup {v}
    BY <2>6 DEF Elements
  <2> QED BY <2>7 DEF q
<1>3. r.length \in Nat
  BY DEF IsValue
<1>4. \A x \in Nat : x + n > RSCP_MAX_DATA_LENGTH \/ x + n <= RSCP_MAX_DATA_LENGTH
  BY DEF RSCP_MAX_DATA_LENGTH
<1> QED BY <1>1, <1>2, <1>3, <1>4

LEMMA LengthsOf == \A n \in Nat : Uint16(HeaderSize + n) \in Nat /\ HeaderSize + n \in Nat
BY DEF Uint16, Uint16Limit, HeaderSize

Sensitive == ControlTags \cup {"EMS_MAX_CHARGE_POWER", "EMS_MAX_DISCHARGE_POWER",
                               "EMS_POWER_LIMITS_USED", "EP_PARAM_EP_RESERVE_ENERGY",
                               "BAT_INDEX", "PVI_INDEX"}

\* A value that may be sent for a command: one that does nothing, the one that
\* -r names, the module's index, or one that a control asks for.
Permitted(c, v) ==
  \/ v.tag \notin Sensitive
  \/ v.tag = c.leseTag /\ v.length = 0 /\ v.content = 0
  \/ v.tag \in {"BAT_INDEX", "PVI_INDEX"} /\ v.content = c.batIndex
  \/ v.tag = "EMS_REQ_START_MANUAL_CHARGE" /\ c.manuelleSpeicherladung /\ v.content = c.ladungsMenge
  \/ v.tag = "EMS_REQ_SET_POWER_SETTINGS" /\ c.leistungAendern
  \/ v.tag = "EP_REQ_SET_EP_RESERVE" /\ c.setEPReserve
  \/ v.tag = "EMS_MAX_CHARGE_POWER" /\ c.ladeLeistungGesetzt /\ v.content = c.ladeLeistung
  \/ v.tag = "EMS_MAX_DISCHARGE_POWER" /\ c.entladeLeistungGesetzt /\ v.content = c.entladeLeistung
  \/ v.tag = "EMS_POWER_LIMITS_USED" /\ (v.content = 0 => c.automatischLeistungEinstellen)
  \/ v.tag = "EP_PARAM_EP_RESERVE_ENERGY" /\ c.setEPReserve /\ v.content = c.epReserveWh

\* A container with this tag of which all elements may be sent, and one whose
\* elements are values or such containers.
Inner(c, r, tag) == IsValue(r) /\ r.tag = tag /\ \A e \in Elements(r) : Permitted(c, e)
Outer(c, r)      == IsValue(r) /\ \A e \in Elements(r) :
                                    Permitted(c, e) /\ \A f \in Elements(e) : Permitted(c, f)

LEMMA InnerAppend ==
  ASSUME NEW c, NEW r, NEW tag, Inner(c, r, tag), NEW v, Permitted(c, v), v.length \in Nat
  PROVE  Inner(c, AppendValue(r, v), tag)
<1> DEFINE n == Uint16(HeaderSize + v.length)
           q == Append16(r, v, n)
<1>1. n \in Nat /\ IsValue(r) /\ r.tag = tag
  BY LengthsOf DEF Inner
<1> HIDE DEF n
<1>2. IsValue(q) /\ q.tag = tag /\ Elements(q) \subseteq Elements(r) \cup {v}
  BY <1>1, Appended, AppendedElements
<1> HIDE DEF q
<1>3. Inner(c, q, tag)
  BY <1>2 DEF Inner
<1> QED BY <1>3 DEF q, n, AppendValue

LEMMA OuterAppend ==
  ASSUME NEW c, NEW r, Outer(c, r), NEW v, Permitted(c, v), v.length \in Nat,
         \A f \in Elements(v) : Permitted(c, f)
  PROVE  Outer(c, AppendValue(r, v)) /\ Outer(c, AppendContainer(r, v))
<1>1. ASSUME NEW n \in Nat
      PROVE  Outer(c, Append16(r, v, n))
  <2> DEFINE q == Append16(r, v, n)
  <2>1. IsValue(q) /\ Elements(q) \subseteq Elements(r) \cup {v}
    BY Appended, AppendedElements DEF Outer
  <2> HIDE DEF q
  <2>2. Outer(c, q)
    BY <2>1 DEF Outer
  <2> QED BY <2>2 DEF q
<1>2. Uint16(HeaderSize + v.length) \in Nat /\ HeaderSize + v.length \in Nat
  BY LengthsOf
<1> QED BY <1>1, <1>2 DEF AppendValue, AppendContainer

LEMMA ContainerAppended ==
  ASSUME NEW c, NEW r, Outer(c, r), NEW v, NEW tag, Inner(c, v, tag), Permitted(c, v)
  PROVE  Outer(c, AppendContainer(r, v))
<1>1. v.length \in Nat /\ \A f \in Elements(v) : Permitted(c, f)
  BY DEF Inner, IsValue
<1> QED BY <1>1, OuterAppend

LEMMA DataParts ==
  ASSUME NEW tag, NEW length \in Nat, NEW content
  PROVE  LET d == Data(tag, length, content)
         IN IsValue(d) /\ d.tag = tag /\ d.length = length /\ d.content = content /\ Elements(d) = {}
<1>1. DOMAIN <<>> = {}
  OBVIOUS
<1> QED BY <1>1, DataIsValue DEF Elements

LEMMA EmptyContainer ==
  ASSUME NEW c, NEW tag
  PROVE  Inner(c, CreateContainerValue(tag), tag) /\ Outer(c, CreateContainerValue(tag))
BY DataParts DEF CreateContainerValue, Inner, Outer

\* Data under a tag that does nothing.
LEMMA HarmlessData ==
  ASSUME NEW c, NEW r, NEW t, Inner(c, r, t),
         NEW tag, tag \notin Sensitive, NEW length \in Nat, NEW content
  PROVE  Inner(c, AppendValue(r, Data(tag, length, content)), t)
<1> DEFINE d == Data(tag, length, content)
<1>1. d.tag = tag /\ d.length = length
  BY DataParts
<1> HIDE DEF d
<1>2. Permitted(c, d) /\ d.length \in Nat
  BY <1>1 DEF Permitted
<1>3. Inner(c, AppendValue(r, d), t)
  BY <1>2, InnerAppend
<1> QED BY <1>3 DEF d

LEMMA Asked3 ==
  ASSUME NEW c, NEW r, NEW t, Inner(c, r, t),
         NEW x, x \notin Sensitive, NEW y, y \notin Sensitive, NEW z, z \notin Sensitive
  PROVE  Inner(c, Asking3(r, x, y, z), t)
<1>1. Inner(c, Asking(r, x), t)
  BY HarmlessData DEF Asking
<1>2. Inner(c, Asking(Asking(r, x), y), t)
  BY <1>1, HarmlessData DEF Asking
<1>3. Inner(c, Asking(Asking(Asking(r, x), y), z), t)
  BY <1>2, HarmlessData DEF Asking
<1> QED BY <1>3 DEF Asking3

\* The same of an outer container, which may hold data itself.
LEMMA OuterData ==
  ASSUME NEW c, NEW r, Outer(c, r), NEW tag, NEW length \in Nat, NEW content,
         Permitted(c, Data(tag, length, content))
  PROVE  Outer(c, AppendValue(r, Data(tag, length, content)))
<1> DEFINE d == Data(tag, length, content)
<1>1. Permitted(c, d) /\ d.length \in Nat /\ \A f \in Elements(d) : Permitted(c, f)
  BY DataParts
<1> HIDE DEF d
<1>2. Outer(c, AppendValue(r, d))
  BY <1>1, OuterAppend
<1> QED BY <1>2 DEF d

LEMMA InnerData ==
  ASSUME NEW c, NEW r, NEW t, Inner(c, r, t), NEW tag, NEW length \in Nat, NEW content,
         Permitted(c, Data(tag, length, content))
  PROVE  Inner(c, AppendValue(r, Data(tag, length, content)), t)
<1> DEFINE d == Data(tag, length, content)
<1>1. Permitted(c, d) /\ d.length \in Nat
  BY DataParts
<1> HIDE DEF d
<1>2. Inner(c, AppendValue(r, d), t)
  BY <1>1, InnerAppend
<1> QED BY <1>2 DEF d

\* The tag that -r names.
LEMMA TagAskedFor ==
  ASSUME NEW c
  PROVE  Permitted(c, Data(c.leseTag, 0, 0))
BY DataParts DEF Permitted

LEMMA HarmlessContainer ==
  ASSUME NEW c, NEW v, NEW tag, Inner(c, v, tag), tag \notin Sensitive
  PROVE  Permitted(c, v)
BY DEF Inner, Permitted

LEMMA BatInner ==
  ASSUME NEW c
  PROVE  /\ Inner(c, BatContainer(c), "BAT_REQ_DATA")
         /\ Inner(c, PviContainer(c), "PVI_REQ_DATA")
<1>1. \A tag \in {"BAT_INDEX", "PVI_INDEX"} : Permitted(c, Data(tag, 2, c.batIndex))
  BY DataParts DEF Permitted
<1> QED BY <1>1, EmptyContainer, InnerData DEF BatContainer, PviContainer

LEMMA ReadOuter ==
  ASSUME NEW c, c.werteAbfragen \in BOOLEAN, NEW r, Outer(c, r)
  PROVE  Outer(c, ReadPart(c, r))
<1> DEFINE t == c.leseTag
<1>1. Permitted(c, Data(t, 0, 0))
  BY TagAskedFor
<1>2. /\ Inner(c, Asking(BatContainer(c), t), "BAT_REQ_DATA")
      /\ Inner(c, Asking(PviContainer(c), t), "PVI_REQ_DATA")
  BY <1>1, BatInner, InnerData DEF Asking
<1>3. Outer(c, Asking(r, t))
  BY <1>1, OuterData DEF Asking
<1>4. "BAT_REQ_DATA" \notin Sensitive /\ "PVI_REQ_DATA" \notin Sensitive
  BY DEF Sensitive, ControlTags
<1>5. /\ Outer(c, AppendContainer(r, Asking(BatContainer(c), t)))
      /\ Outer(c, AppendContainer(r, Asking(PviContainer(c), t)))
  BY <1>2, <1>4, HarmlessContainer, ContainerAppended
<1>6. ReadKind(t) \in {"bat", "pvi", "plain"}
  BY DEF ReadKind
<1> QED BY <1>3, <1>5, <1>6 DEF ReadPart

LEMMA DumpOuter ==
  ASSUME NEW c, c.modulInfoDump \in BOOLEAN, NEW r, Outer(c, r), NEW dcb
  PROVE  Outer(c, DumpPart(c, dcb, r))
<1>1. Inner(c, FirstDumpContainer(c), "BAT_REQ_DATA")
  <2> DEFINE a == Asking3(BatContainer(c), "BAT_REQ_RSOC", "BAT_REQ_ASOC", "BAT_REQ_CHARGE_CYCLES")
             b == Asking3(a, "BAT_REQ_CURRENT", "BAT_REQ_MODULE_VOLTAGE", "BAT_REQ_MAX_BAT_VOLTAGE")
             d == Asking3(b, "BAT_REQ_STATUS_CODE", "BAT_REQ_ERROR_CODE", "BAT_REQ_DCB_COUNT")
  <2>1. {"BAT_REQ_RSOC", "BAT_REQ_ASOC", "BAT_REQ_CHARGE_CYCLES", "BAT_REQ_CURRENT",
         "BAT_REQ_MODULE_VOLTAGE", "BAT_REQ_MAX_BAT_VOLTAGE", "BAT_REQ_STATUS_CODE",
         "BAT_REQ_ERROR_CODE", "BAT_REQ_DCB_COUNT"} \cap Sensitive = {}
    BY DEF Sensitive, ControlTags
  <2>2. Inner(c, a, "BAT_REQ_DATA")
    BY <2>1, BatInner, Asked3
  <2> HIDE DEF a
  <2>3. Inner(c, b, "BAT_REQ_DATA")
    BY <2>1, <2>2, Asked3
  <2> HIDE DEF b
  <2>4. Inner(c, d, "BAT_REQ_DATA")
    BY <2>1, <2>3, Asked3
  <2> QED BY <2>4 DEF FirstDumpContainer, a, b
<1>2. Inner(c, DcbContainer(c, dcb), "BAT_REQ_DATA")
  <2>1. "BAT_REQ_DCB_INFO" \notin Sensitive
    BY DEF Sensitive, ControlTags
  <2> QED BY <2>1, BatInner, HarmlessData DEF DcbContainer
<1>3. "BAT_REQ_DATA" \notin Sensitive
  BY DEF Sensitive, ControlTags
<1>4. /\ Outer(c, AppendContainer(r, FirstDumpContainer(c)))
      /\ Outer(c, AppendContainer(r, DcbContainer(c, dcb)))
  BY <1>1, <1>2, <1>3, HarmlessContainer, ContainerAppended
<1> QED BY <1>4 DEF DumpPart, AppendContainerIf

LEMMA HistoryInner ==
  ASSUME NEW c, c.historieTyp \in HistoryTypes, NEW now
  PROVE  /\ Inner(c, HistoryContainer(c, now), HistoryTag(c.historieTyp))
         /\ Permitted(c, HistoryContainer(c, now))
<1> DEFINE t == HistoryTag(c.historieTyp)
<1>1. t \notin Sensitive
  BY DEF HistoryTag, HistoryTypes, Sensitive, ControlTags
<1>2. {"DB_REQ_HISTORY_TIME_START", "DB_REQ_HISTORY_TIME_INTERVAL", "DB_REQ_HISTORY_TIME_SPAN"}
        \cap Sensitive = {}
  BY DEF Sensitive, ControlTags
<1> HIDE DEF t
<1> DEFINE x == dateToTimestamp(DateMeant(c, now), c.historieTyp, IsdstMeant(c, now))
           y == HistoryInterval(c.historieTyp)
           z == HistorySpan(DateMeant(c, now), c.historieTyp)
           a == AppendValue(CreateContainerValue(t), Data("DB_REQ_HISTORY_TIME_START", 8, x))
           b == AppendValue(a, Data("DB_REQ_HISTORY_TIME_INTERVAL", 4, y))
           d == AppendValue(b, Data("DB_REQ_HISTORY_TIME_SPAN", 4, z))
<1>3. HistoryContainer(c, now) = d
  BY DEF HistoryContainer, t
<1> HIDE DEF x, y, z
<1>4. Inner(c, CreateContainerValue(t), t)
  BY EmptyContainer
<1>5. Inner(c, a, t)
  BY <1>2, <1>4, HarmlessData
<1> HIDE DEF a
<1>6. Inner(c, b, t)
  BY <1>2, <1>5, HarmlessData
<1> HIDE DEF b
<1>7. Inner(c, d, t)
  BY <1>2, <1>6, HarmlessData
<1> HIDE DEF d
<1>8. Permitted(c, d)
  BY <1>1, <1>7, HarmlessContainer
<1> QED BY <1>3, <1>7, <1>8 DEF t

LEMMA InfoOuter ==
  ASSUME NEW c, NEW r, Outer(c, r)
  PROVE  Outer(c, InfoPart(c, r))
<1> DEFINE a == Asking(r, "INFO_REQ_SERIAL_NUMBER")
           b == Asking(a, "INFO_REQ_PRODUCTION_DATE")
           d == Asking(b, "INFO_REQ_SW_RELEASE")
<1>1. \A tag : tag \notin Sensitive => Permitted(c, Data(tag, 0, 0))
  BY DataParts DEF Permitted
<1>2. {"INFO_REQ_SERIAL_NUMBER", "INFO_REQ_PRODUCTION_DATE", "INFO_REQ_SW_RELEASE"} \cap Sensitive = {}
  BY DEF Sensitive, ControlTags
<1>3. \A tag : tag \notin Sensitive => \A q : Outer(c, q) => Outer(c, Asking(q, tag))
  BY <1>1, OuterData DEF Asking
<1>4. Outer(c, a)
  BY <1>2, <1>3
<1> HIDE DEF a
<1>5. Outer(c, b)
  BY <1>2, <1>3, <1>4
<1> HIDE DEF b
<1>6. Outer(c, d)
  BY <1>2, <1>3, <1>5
<1>7. InfoPart(c, r) = r \/ InfoPart(c, r) = d
  BY DEF InfoPart, Asking3, a, b
<1> HIDE DEF d
<1> QED BY <1>6, <1>7

LEMMA PMInner ==
  ASSUME NEW c, c.leistungAendern
  PROVE  /\ Inner(c, PMContainer(c), "EMS_REQ_SET_POWER_SETTINGS")
         /\ Permitted(c, PMContainer(c))
<1> DEFINE t == "EMS_REQ_SET_POWER_SETTINGS"
           auto    == AppendIf(c.automatischLeistungEinstellen, CreateContainerValue(t),
                               Data("EMS_POWER_LIMITS_USED", 1, 0))
           limited == AppendIf(c.ladeLeistungGesetzt \/ c.entladeLeistungGesetzt, auto,
                               Data("EMS_POWER_LIMITS_USED", 1, 1))
           charge  == AppendIf(c.ladeLeistungGesetzt, limited,
                               Data("EMS_MAX_CHARGE_POWER", 4, c.ladeLeistung))
           whole   == AppendIf(c.entladeLeistungGesetzt, charge,
                               Data("EMS_MAX_DISCHARGE_POWER", 4, c.entladeLeistung))
<1>1. /\ c.automatischLeistungEinstellen => Permitted(c, Data("EMS_POWER_LIMITS_USED", 1, 0))
      /\ Permitted(c, Data("EMS_POWER_LIMITS_USED", 1, 1))
  BY DataParts DEF Permitted
<1>2. /\ c.ladeLeistungGesetzt => Permitted(c, Data("EMS_MAX_CHARGE_POWER", 4, c.ladeLeistung))
      /\ c.entladeLeistungGesetzt => Permitted(c, Data("EMS_MAX_DISCHARGE_POWER", 4, c.entladeLeistung))
  BY DataParts DEF Permitted
<1>3. Inner(c, auto, t)
  BY <1>1, EmptyContainer, InnerData DEF AppendIf
<1> HIDE DEF auto
<1>4. Inner(c, limited, t)
  BY <1>1, <1>3, InnerData DEF AppendIf
<1> HIDE DEF limited
<1>5. Inner(c, charge, t)
  BY <1>2, <1>4, InnerData DEF AppendIf
<1> HIDE DEF charge
<1>6. Inner(c, whole, t)
  BY <1>2, <1>5, InnerData DEF AppendIf
<1>7. PMContainer(c) = whole
  BY DEF PMContainer, auto, limited, charge
<1> HIDE DEF whole
<1>8. Permitted(c, whole)
  BY <1>6 DEF Inner, Permitted
<1> QED BY <1>6, <1>7, <1>8

LEMMA EpInner ==
  ASSUME NEW c, c.setEPReserve
  PROVE  /\ Inner(c, EpContainer(c), "EP_REQ_SET_EP_RESERVE")
         /\ Permitted(c, EpContainer(c))
<1> DEFINE t == "EP_REQ_SET_EP_RESERVE"
           a == AppendValue(CreateContainerValue(t), Data("EP_PARAM_INDEX", 1, 0))
           b == AppendValue(a, Data("EP_PARAM_EP_RESERVE_ENERGY", 4, c.epReserveWh))
<1>1. "EP_PARAM_INDEX" \notin Sensitive
  BY DEF Sensitive, ControlTags
<1>2. Permitted(c, Data("EP_PARAM_EP_RESERVE_ENERGY", 4, c.epReserveWh))
  BY DataParts DEF Permitted
<1>3. Inner(c, a, t)
  BY <1>1, EmptyContainer, HarmlessData
<1> HIDE DEF a
<1>4. Inner(c, b, t)
  BY <1>2, <1>3, InnerData
<1>5. EpContainer(c) = b
  BY DEF EpContainer, a
<1> HIDE DEF b
<1>6. Permitted(c, b)
  BY <1>4 DEF Inner, Permitted
<1> QED BY <1>4, <1>5, <1>6

\* What a request with a command holds may be sent for it.
LEMMA CommandPermitted ==
  ASSUME NEW c, IsContext(c), TypeKnown(c), NEW dcb, NEW now
  PROVE  Outer(c, CommandRoot(c, dcb, now))
<1> DEFINE a == ReadPart(c, Root)
           b == DumpPart(c, dcb, a)
           d == AppendContainerIf(c.historieAbfrage, b, HistoryContainer(c, now))
           e == InfoPart(c, d)
           f == AppendIf(c.manuelleSpeicherladung, e,
                         Data("EMS_REQ_START_MANUAL_CHARGE", 4, c.ladungsMenge))
           g == AppendContainerIf(c.leistungAendern, f, PMContainer(c))
           h == AppendContainerIf(c.setEPReserve, g, EpContainer(c))
<1>1. c["werteAbfragen"] \in BOOLEAN /\ c["modulInfoDump"] \in BOOLEAN
  BY FieldNames DEF IsContext, ContextOK
<1>2. Outer(c, a)
  BY <1>1, EmptyContainer, ReadOuter DEF Root
<1> HIDE DEF a
<1>3. Outer(c, b)
  BY <1>1, <1>2, DumpOuter
<1> HIDE DEF b
<1>4. Outer(c, d)
  <2>1. CASE c.historieAbfrage
    <3>1. /\ Inner(c, HistoryContainer(c, now), HistoryTag(c.historieTyp))
          /\ Permitted(c, HistoryContainer(c, now))
      BY <2>1, HistoryInner DEF TypeKnown
    <3>2. Outer(c, AppendContainer(b, HistoryContainer(c, now)))
      BY <3>1, <1>3, ContainerAppended
    <3> QED BY <2>1, <3>2 DEF AppendContainerIf
  <2>2. CASE ~c.historieAbfrage
    BY <2>2, <1>3 DEF AppendContainerIf
  <2> QED BY <2>1, <2>2
<1> HIDE DEF d
<1>5. Outer(c, e)
  BY <1>4, InfoOuter
<1> HIDE DEF e
<1>6. Outer(c, f)
  <2>1. c.manuelleSpeicherladung => Permitted(c, Data("EMS_REQ_START_MANUAL_CHARGE", 4, c.ladungsMenge))
    BY DataParts DEF Permitted
  <2> QED BY <2>1, <1>5, OuterData DEF AppendIf
<1> HIDE DEF f
<1>7. Outer(c, g)
  BY <1>6, PMInner, ContainerAppended DEF AppendContainerIf
<1> HIDE DEF g
<1>8. Outer(c, h)
  BY <1>7, EpInner, ContainerAppended DEF AppendContainerIf
<1>9. CommandRoot(c, dcb, now) = h
  BY DEF CommandRoot, a, b, d, e, f, g
<1> HIDE DEF h
<1> QED BY <1>8, <1>9

LEMMA LoginPermitted ==
  ASSUME NEW c, \A x \in Credentials : e3dc_config[x] \in Nat
  PROVE  Outer(c, AppendContainer(Root, AuthenContainer))
<1> DEFINE t == "RSCP_REQ_AUTHENTICATION"
           u == e3dc_config["e3dc_user"]
           p == e3dc_config["e3dc_password"]
           a == AppendValue(CreateContainerValue(t), Data("RSCP_AUTHENTICATION_USER", u, u))
           b == AppendValue(a, Data("RSCP_AUTHENTICATION_PASSWORD", p, p))
<1>1. u \in Nat /\ p \in Nat
  BY DEF Credentials
<1>2. AuthenContainer = b
  BY DEF AuthenContainer
<1> HIDE DEF u, p
<1>3. {t, "RSCP_AUTHENTICATION_USER", "RSCP_AUTHENTICATION_PASSWORD"} \cap Sensitive = {}
  BY DEF Sensitive, ControlTags
<1>4. Inner(c, a, t)
  BY <1>1, <1>3, EmptyContainer, HarmlessData
<1> HIDE DEF a
<1>5. Inner(c, b, t)
  BY <1>1, <1>3, <1>4, HarmlessData
<1> HIDE DEF b
<1>6. Permitted(c, b)
  BY <1>3, <1>5, HarmlessContainer
<1>7. Outer(c, AppendContainer(Root, b))
  BY <1>5, <1>6, EmptyContainer, ContainerAppended DEF Root
<1> QED BY <1>2, <1>7

-----------------------------------------------------------------------------
(* The checks *)

\* The date that is filled in passes the check that was made before.
LEMMA DatedPasses ==
  ASSUME NEW c, IsContext(c)
  PROVE  /\ Keeps(c, Dated(c))
         /\ TypeKnown(c) => TypeKnown(Dated(c))
         /\ checkArgumentsEarly(c) => checkArgumentsEarly(Dated(c))
<1>1. CASE ~(c.historieAbfrage /\ c.historieDatum = "none")
  <2>1. Dated(c) = c
    BY <1>1 DEF Dated
  <2> QED BY <2>1 DEF Keeps
<1>2. CASE c.historieAbfrage /\ c.historieDatum = "none"
  <2> DEFINE d == [c EXCEPT !["historieDatum"] = "today"]
  <2>1. Dated(c) = d
    BY <1>2 DEF Dated
  <2>2. "historieDatum" \in Fields /\ "today" \in TypeOf("historieDatum")
    BY FieldNames, KnownFields DEF WordsGiven
  <2>3. Keeps(c, d) /\ (TypeKnown(c) => TypeKnown(d))
    BY <2>2, SettingKeepsFlags
  <2>4. \A f \in Fields : f # "historieDatum" => d[f] = c[f]
    BY <2>2, SettingKeeps
  <2>8. d["historieDatum"] = "today"
    BY <2>2 DEF IsContext
  <2> HIDE DEF d
  <2>5. /\ d.leistungAendern = c.leistungAendern
        /\ d.manuelleSpeicherladung = c.manuelleSpeicherladung
        /\ d.setEPReserve = c.setEPReserve /\ d.epReserveWh = c.epReserveWh
        /\ d.werteAbfragen = c.werteAbfragen /\ d.leseTag = c.leseTag
        /\ d.historieAbfrage = c.historieAbfrage
        /\ d.sysInfoAbfrage = c.sysInfoAbfrage
        /\ d.quietMode = c.quietMode /\ d.watchMode = c.watchMode
        /\ d.rawOutput = c.rawOutput /\ d.modulInfoDump = c.modulInfoDump
    BY <2>4 DEF Fields, Flags, Words, FloatFields
  <2>6. DateAccepted(d)
    BY <2>5, <2>8, <1>2 DEF DateAccepted
  <2>7. checkArgumentsEarly(c) => checkArgumentsEarly(d)
    BY <2>5, <2>6 DEF checkArgumentsEarly, Controlling
  <2> QED BY <2>1, <2>3, <2>7
<1> QED BY <1>1, <1>2

\* The tag looked up by its name.
LEMMA LookedKeeps ==
  ASSUME IsContext(g_ctx)
  PROVE  Keeps(g_ctx, Looked) /\ (TypeKnown(g_ctx) => TypeKnown(Looked))
<1>1. CASE ~LooksUpName
  BY <1>1 DEF Looked, Keeps
<1>2. CASE LooksUpName
  <2> DEFINE n == g_ctx["tagName"]
             a == [g_ctx EXCEPT !["leseTag"] = n]
             b == [a EXCEPT !["tagName"] = NoTag]
  <2>1. Looked = b
    BY <1>2 DEF Looked
  <2>2. n \in TypeOf("leseTag") /\ "leseTag" \in Fields
    BY FieldNames, KnownFields DEF IsContext, ContextOK
  <2>3. NoTag \in TypeOf("tagName") /\ "tagName" \in Fields
    BY FieldNames, KnownFields DEF WordsGiven
  <2> HIDE DEF n
  <2>4. Keeps(g_ctx, a) /\ IsContext(a) /\ (TypeKnown(g_ctx) => TypeKnown(a))
    BY <2>2, SettingKeepsFlags DEF Keeps
  <2> HIDE DEF a
  <2>5. Keeps(a, b) /\ (TypeKnown(a) => TypeKnown(b))
    BY <2>3, <2>4, SettingKeepsFlags
  <2> HIDE DEF b
  <2>6. Keeps(g_ctx, b)
    BY <2>4, <2>5, KeepsChain
  <2> QED BY <2>1, <2>4, <2>5, <2>6
<1> QED BY <1>1, <1>2

-----------------------------------------------------------------------------
(* The invariant *)

NothingSent == CreateFrameAsBuffer(Root)

Typed ==
  /\ argv \in Seq(Options) /\ Len(argv) <= MaxArgs
  /\ pc \in Places
  /\ IsContext(g_ctx)
  /\ \A field \in Numbers : e3dc_config[field] \in Uint32Values
  /\ \A c \in Credentials : e3dc_config[c] \in 0..(CONFIG_FIELD_SIZE_CREDENTIAL - 1)

\* What is on the command line is in the context.
Told == /\ Given({"r", "r name"}) => g_ctx.werteAbfragen
        /\ Given({"H"}) => g_ctx.historieAbfrage
        /\ Given({"info"}) => g_ctx.sysInfoAbfrage

Beginning == pc \in {"options", "config", "limits", "connect", "login", "listed"}

\* Nothing is sent at first; behind the checks the context has passed them, and
\* where it has not, nothing was sent.
Checked ==
  /\ Beginning => frame = NothingSent
  /\ pc # "exit" \/ frame # NothingSent => TypeKnown(g_ctx)
  /\ pc \in {"config", "limits"} => checkArgumentsEarly(g_ctx)
  /\ Connecting \/ frame # NothingSent => checkArgumentsEarly(g_ctx) /\ LimitsKept(g_ctx)

Inv == Typed /\ Told /\ Checked /\ \A v \in Sent : Permitted(g_ctx, v)

LEMMA SentOf ==
  ASSUME NEW c, NEW r, Outer(c, r)
  PROVE  \A v \in Elements(CreateFrameAsBuffer(r)) \cup UNION {Elements(e) : e \in Elements(CreateFrameAsBuffer(r))} :
            Permitted(c, v)
<1>1. Elements(CreateFrameAsBuffer(r)) = Elements(r)
  BY DEF Elements, CreateFrameAsBuffer
<1> QED BY <1>1 DEF Outer

LEMMA NothingInIt ==
  Elements(NothingSent) = {}
<1>1. Elements(NothingSent) = Elements(Root)
  BY DEF Elements, CreateFrameAsBuffer, NothingSent
<1> QED BY <1>1, DataParts DEF Root, CreateContainerValue

LEMMA InvInit == Init => Inv
<1> SUFFICES ASSUME Init PROVE Inv
  OBVIOUS
<1>1. /\ argv = <<>> /\ pc = "options" /\ g_ctx = InitialContext /\ e3dc_config = NoConfig
      /\ frame = NothingSent
  BY DEF Init, NothingSent
<1>2. Typed
  <2>1. argv \in Seq(Options) /\ Len(argv) <= MaxArgs
    BY <1>1, BoundAssumption
  <2>2. \A field \in Numbers \cup Credentials : e3dc_config[field] = 0
    BY <1>1 DEF NoConfig
  <2>3. 0 \in Uint32Values
    BY RangeAssumption DEF Uint32Values
  <2>4. 0 \in 0..(CONFIG_FIELD_SIZE_CREDENTIAL - 1)
    BY DEF CONFIG_FIELD_SIZE_CREDENTIAL
  <2>5. pc \in Places
    BY <1>1 DEF Places
  <2> QED BY <2>1, <2>2, <2>3, <2>4, <2>5, <1>1, Start DEF Typed
<1>3. Told
  BY <1>1 DEF Told, Given
<1>4. Checked
  <2>1. InitialContext["historieAbfrage"] = FALSE
    BY FieldNames, FlagsDown
  <2> QED BY <2>1, <1>1 DEF Checked, Beginning, Connecting, TypeKnown
<1>5. Sent = {}
  BY <1>1, NothingInIt DEF Sent
<1> QED BY <1>2, <1>3, <1>4, <1>5 DEF Inv

LEMMA InvNext == Inv /\ [Next]_vars => Inv'
<1> SUFFICES ASSUME Inv, [Next]_vars PROVE Inv'
  OBVIOUS
<1> USE DEF Inv
<1>0. ASSUME UNCHANGED <<argv, g_ctx, e3dc_config, frame>>, pc' \in Places, Checked'
      PROVE  Inv'
  <2>1. Typed'
    BY <1>0 DEF Typed
  <2>2. Told' /\ Sent' = Sent
    BY <1>0 DEF Told, Given, Sent, Elements
  <2> QED BY <2>1, <2>2, <1>0
<1>1. ASSUME NEW o \in Options, ReadOption(o) PROVE Inv'
  <2>1. /\ pc = "options" /\ Len(argv) < MaxArgs /\ argv' = Append(argv, o)
        /\ g_ctx' = SetOption(g_ctx, o)
        /\ pc' = (IF EndsAtOnce(o) THEN "exit" ELSE "options")
        /\ UNCHANGED <<e3dc_config, frame>>
    BY <1>1 DEF ReadOption
  <2>2. IsContext(g_ctx) /\ argv \in Seq(Options)
    BY DEF Typed
  <2>3. /\ Keeps(g_ctx, g_ctx')
        /\ TypeKnown(g_ctx) /\ ~EndsAtOnce(o) => TypeKnown(g_ctx')
        /\ o.opt \in {"r", "r name"} => g_ctx'.werteAbfragen
        /\ o.opt = "H" => g_ctx'.historieAbfrage
        /\ o.opt = "info" => g_ctx'.sysInfoAbfrage
    BY <2>1, <2>2, OptionSet
  <2>4. Typed'
    <3>1. argv' \in Seq(Options) /\ Len(argv') <= MaxArgs
      BY <2>1, <2>2, BoundAssumption
    <3> QED BY <3>1, <2>1, <2>3 DEF Typed, Keeps, Places
  <2>5. Told'
    <3>1. \A opts : Given(opts)' => Given(opts) \/ o.opt \in opts
      BY <2>1, <2>2 DEF Given
    <3>2. /\ Given({"r", "r name"})' => Given({"r", "r name"}) \/ o.opt \in {"r", "r name"}
          /\ Given({"H"})' => Given({"H"}) \/ o.opt = "H"
          /\ Given({"info"})' => Given({"info"}) \/ o.opt = "info"
      BY <3>1
    <3> QED BY <3>2, <2>3 DEF Told, Keeps
  <2>6. Checked'
    <3>1. frame = NothingSent /\ TypeKnown(g_ctx)
      BY <2>1 DEF Checked, Beginning
    <3> QED BY <3>1, <2>1, <2>3 DEF Checked, Beginning, Connecting, NothingSent
  <2>7. Sent' = {}
    <3>1. frame' = NothingSent
      BY <2>1 DEF Checked, Beginning
    <3> QED BY <3>1, NothingInIt DEF Sent
  <2> QED BY <2>4, <2>5, <2>6, <2>7
<1>2. CASE ListTags
  <2>1. Checked'
    BY <1>2 DEF ListTags, Checked, Beginning, Connecting, NothingSent
  <2> QED BY <1>0, <1>2, <2>1 DEF ListTags, Places
<1>3. CASE EndOfOptions
  <2>1. /\ pc = "options" /\ pc' = "config" /\ g_ctx' = Dated(Looked)
        /\ checkArgumentsEarly(Looked)
        /\ UNCHANGED <<argv, e3dc_config, frame>>
    BY <1>3 DEF EndOfOptions
  <2>2. Keeps(g_ctx, Looked) /\ IsContext(Looked) /\ (TypeKnown(g_ctx) => TypeKnown(Looked))
    BY LookedKeeps DEF Typed, Keeps
  <2>3. /\ Keeps(Looked, g_ctx') /\ (TypeKnown(Looked) => TypeKnown(g_ctx'))
        /\ checkArgumentsEarly(g_ctx')
    BY <2>1, <2>2, DatedPasses
  <2>4. Keeps(g_ctx, g_ctx')
    BY <2>2, <2>3, KeepsChain
  <2>5. Typed'
    BY <2>1, <2>4 DEF Typed, Keeps, Places
  <2>6. Told'
    BY <2>1, <2>4 DEF Told, Keeps, Given
  <2>7. frame' = NothingSent /\ TypeKnown(g_ctx)
    BY <2>1 DEF Checked, Beginning
  <2>8. Checked'
    BY <2>1, <2>2, <2>3, <2>7 DEF Checked, Beginning, Connecting, NothingSent
  <2>9. Sent' = {}
    BY <2>7, NothingInIt DEF Sent
  <2> QED BY <2>5, <2>6, <2>8, <2>9
<1>4. CASE EndsWithUsage
  <2>1. Checked'
    BY <1>4 DEF EndsWithUsage, Checked, Beginning, Connecting, NothingSent
  <2> QED BY <1>0, <1>4, <2>1 DEF EndsWithUsage, Places
<1>5. CASE readConfig
  <2>1. PICK f \in ConfigFiles : CopiesAll(f) /\ Complete(ConfigOf(f)) /\ e3dc_config' = ConfigOf(f)
    BY <1>5 DEF readConfig
  <2>2. /\ pc = "config" /\ pc' = "limits" /\ UNCHANGED <<argv, g_ctx, frame>>
    BY <1>5 DEF readConfig
  <2>3. \A field \in Numbers : e3dc_config'[field] \in Uint32Values
    BY <2>1, ConfigAssumption, Cut DEF ConfigOf
  <2>4. \A c \in Credentials : e3dc_config'[c] \in 0..(CONFIG_FIELD_SIZE_CREDENTIAL - 1)
    <3> SUFFICES ASSUME NEW c \in Credentials
                 PROVE  e3dc_config'[c] \in 0..(CONFIG_FIELD_SIZE_CREDENTIAL - 1)
      OBVIOUS
    <3>1. c \notin Numbers
      BY DEF Credentials, Numbers
    <3>2. e3dc_config'[c] = CredentialOf(f, c)
      BY <2>1, <3>1 DEF ConfigOf
    <3>3. CredentialOf(f, c) > 0
      BY <2>1, <3>2 DEF Complete
    <3> DEFINE x == f[c]
               y == f[EnvOf(c)]
    <3>4. x \in Int /\ y \in Int /\ x < CONFIG_FIELD_SIZE_CREDENTIAL /\ y < CONFIG_FIELD_SIZE_CREDENTIAL
      BY <2>1, ConfigAssumption DEF CopiesAll, SafeStringCopy
    <3>5. CredentialOf(f, c) = IF y > 0 THEN y ELSE x
      BY DEF CredentialOf
    <3> HIDE DEF x, y
    <3>6. CredentialOf(f, c) \in 0..(CONFIG_FIELD_SIZE_CREDENTIAL - 1)
      BY <3>3, <3>4, <3>5 DEF CONFIG_FIELD_SIZE_CREDENTIAL
    <3> QED BY <3>2, <3>6
  <2>5. Typed'
    BY <2>2, <2>3, <2>4 DEF Typed, Places
  <2>6. Told' /\ Sent' = Sent
    BY <2>2 DEF Told, Given, Sent, Elements
  <2>7. Checked'
    BY <2>2 DEF Checked, Beginning, Connecting, NothingSent
  <2> QED BY <2>2, <2>5, <2>6, <2>7
<1>6. CASE ConfigUnusable
  <2>1. Checked'
    BY <1>6 DEF ConfigUnusable, Checked, Beginning, Connecting, NothingSent
  <2> QED BY <1>0, <1>6, <2>1 DEF ConfigUnusable, Places
<1>7. CASE checkArguments
  <2>1. pc = "limits" /\ UNCHANGED <<argv, g_ctx, e3dc_config, frame>>
        /\ pc' = (IF LimitsKept(g_ctx) THEN "connect" ELSE "exit")
    BY <1>7 DEF checkArguments
  <2>2. LimitsKept(g_ctx)' <=> LimitsKept(g_ctx)
    BY <2>1 DEF LimitsKept, PowerAllowed, ChargeAllowed
  <2>3. Checked'
    BY <2>1, <2>2 DEF Checked, Beginning, Connecting, NothingSent
  <2> QED BY <1>0, <2>1, <2>3 DEF Places
<1>8. CASE connectToServer
  <2>1. pc = "connect" /\ pc' \in {"login", "exit"} /\ UNCHANGED <<argv, g_ctx, e3dc_config, frame>>
    BY <1>8 DEF connectToServer
  <2>2. LimitsKept(g_ctx)' <=> LimitsKept(g_ctx)
    BY <2>1 DEF LimitsKept, PowerAllowed, ChargeAllowed
  <2>3. Checked'
    BY <2>1, <2>2 DEF Checked, Beginning, Connecting, NothingSent
  <2> QED BY <1>0, <2>1, <2>3 DEF Places
<1>9. ASSUME NEW r, Outer(g_ctx, r), frame' = CreateFrameAsBuffer(r),
             UNCHANGED <<argv, g_ctx, e3dc_config>>,
             pc \in {"login", "command", "sent"}, pc' \in {"command", "sent"}
      PROVE  Inv'
  <2>1. Typed'
    BY <1>9 DEF Typed, Places
  <2>2. Told'
    BY <1>9 DEF Told, Given
  <2>3. LimitsKept(g_ctx)' <=> LimitsKept(g_ctx)
    BY <1>9 DEF LimitsKept, PowerAllowed, ChargeAllowed
  <2>4. checkArgumentsEarly(g_ctx) /\ LimitsKept(g_ctx) /\ TypeKnown(g_ctx)
    BY <1>9 DEF Checked, Connecting
  <2>5. Checked'
    BY <1>9, <2>3, <2>4 DEF Checked, Beginning, Connecting
  <2>6. \A v \in Sent' : Permitted(g_ctx', v)
    <3> DEFINE F == CreateFrameAsBuffer(r)
    <3>1. \A v \in Elements(F) \cup UNION {Elements(e) : e \in Elements(F)} : Permitted(g_ctx, v)
      BY <1>9, SentOf
    <3>2. Sent' = Elements(F) \cup UNION {Elements(e) : e \in Elements(F)}
      BY <1>9 DEF Sent, Elements
    <3> QED BY <3>1, <3>2, <1>9
  <2> QED BY <2>1, <2>2, <2>5, <2>6 DEF Inv
<1>10. CASE SendAuthentication
  <2> DEFINE r == AppendContainer(Root, AuthenContainer)
  <2>1. pc = "login" /\ pc' = "command" /\ frame' = CreateFrameAsBuffer(r)
        /\ UNCHANGED <<argv, g_ctx, e3dc_config>>
    BY <1>10 DEF SendAuthentication
  <2>2. \A x \in Credentials : e3dc_config[x] \in Nat
    <3>1. \A n \in 0..(CONFIG_FIELD_SIZE_CREDENTIAL - 1) : n \in Nat
      BY DEF CONFIG_FIELD_SIZE_CREDENTIAL
    <3> QED BY <3>1 DEF Typed
  <2>3. Outer(g_ctx, r)
    BY <2>2, LoginPermitted
  <2> HIDE DEF r
  <2> QED BY <2>1, <2>3, <1>9
<1>11. ASSUME pc \in {"command", "sent"} PROVE IsContext(g_ctx) /\ TypeKnown(g_ctx)
  BY <1>11 DEF Typed, Checked
<1>12. CASE SendCommand
  <2>1. PICK now \in Moments : frame' = CreateFrameAsBuffer(CommandRoot(g_ctx, None, now))
    BY <1>12 DEF SendCommand
  <2> DEFINE r == CommandRoot(g_ctx, None, now)
  <2>2. pc = "command" /\ pc' = "sent" /\ frame' = CreateFrameAsBuffer(r)
        /\ UNCHANGED <<argv, g_ctx, e3dc_config>>
    BY <1>12, <2>1 DEF SendCommand
  <2>3. Outer(g_ctx, r)
    BY <2>2, <1>11, CommandPermitted
  <2> HIDE DEF r
  <2> QED BY <2>2, <2>3, <1>9
<1>13. CASE YearRefused
  <2>1. pc = "command" /\ pc' = "exit" /\ UNCHANGED <<argv, g_ctx, e3dc_config, frame>>
    BY <1>13 DEF YearRefused
  <2>2. LimitsKept(g_ctx)' <=> LimitsKept(g_ctx)
    BY <2>1 DEF LimitsKept, PowerAllowed, ChargeAllowed
  <2>3. Checked'
    BY <2>1, <2>2 DEF Checked, Beginning, Connecting, NothingSent
  <2> QED BY <1>0, <2>1, <2>3 DEF Places
<1>14. CASE SendAgain
  <2>1. PICK now \in Moments, dcb \in {None} \cup DcbIndices :
          frame' = CreateFrameAsBuffer(CommandRoot(g_ctx, dcb, now))
    BY <1>14 DEF SendAgain
  <2> DEFINE r == CommandRoot(g_ctx, dcb, now)
  <2>2. pc = "sent" /\ pc' = "sent" /\ frame' = CreateFrameAsBuffer(r)
        /\ UNCHANGED <<argv, g_ctx, e3dc_config>>
    BY <1>14, <2>1 DEF SendAgain
  <2>3. Outer(g_ctx, r)
    BY <2>2, <1>11, CommandPermitted
  <2> HIDE DEF r
  <2> QED BY <2>2, <2>3, <1>9
<1>15. CASE UNCHANGED vars
  <2>1. UNCHANGED <<argv, pc, g_ctx, e3dc_config, frame>>
    BY <1>15 DEF vars
  <2>2. Checked'
    BY <2>1 DEF Checked, Beginning, Connecting, NothingSent, LimitsKept, PowerAllowed, ChargeAllowed
  <2>3. pc' \in Places
    BY <2>1 DEF Typed
  <2> QED BY <1>0, <2>1, <2>2, <2>3
<1> QED BY <1>1, <1>2, <1>3, <1>4, <1>5, <1>6, <1>7, <1>8, <1>10, <1>12, <1>13, <1>14, <1>15 DEF Next

LEMMA Invariance == Spec => []Inv
BY InvInit, InvNext, PTL DEF Spec

-----------------------------------------------------------------------------
(* Theorems *)

\* Every variable keeps to its type, for every set of options and every limit on their
\* number: what getopt_long takes in is cut to the width of its field, and what
\* readConfig copies fits where it is copied to.
THEOREM TypeCorrect == Spec => []TypeOK
<1>1. Inv => TypeOK
  BY DEF Inv, Typed, IsContext, TypeOK
<1> QED BY <1>1, Invariance, PTL

LEMMA SentMeans ==
  ASSUME Inv, NEW v \in Sent
  PROVE  /\ Permitted(g_ctx, v)
         /\ checkArgumentsEarly(g_ctx) /\ LimitsKept(g_ctx)
<1>1. frame # NothingSent
  BY NothingInIt DEF Sent
<1> QED BY <1>1 DEF Inv, Checked

\* Powers and charges that are sent are within the limits of the configuration
\* (checkArguments), for every configuration and every combination, order and
\* repetition of options.
THEOREM LimitsAreRespected == Spec => []LimitsRespected
<1>1. ASSUME Inv PROVE LimitsRespected
  <2> SUFFICES ASSUME NEW v \in Sent, v.length > 0
               PROVE  /\ v.tag \in {"EMS_MAX_CHARGE_POWER", "EMS_MAX_DISCHARGE_POWER"} => PowerAllowed(v.content)
                      /\ v.tag = "EMS_REQ_START_MANUAL_CHARGE" => ChargeAllowed(v.content)
                      /\ v.tag = "EP_PARAM_EP_RESERVE_ENERGY" => ~IsNegative(v.content)
                      /\ v.tag = "EMS_POWER_LIMITS_USED" /\ v.content = 0 =>
                           \A w \in Sent : w.tag \in {"EMS_MAX_CHARGE_POWER", "EMS_MAX_DISCHARGE_POWER"}
                                              => w.content = 0
    BY DEF LimitsRespected
  <2>1. /\ Permitted(g_ctx, v)
        /\ checkArgumentsEarly(g_ctx) /\ LimitsKept(g_ctx)
    BY <1>1, SentMeans
  <2>2. v.length # 0
    OBVIOUS
  <2>3. v.tag \in {"EMS_MAX_CHARGE_POWER", "EMS_MAX_DISCHARGE_POWER"} => PowerAllowed(v.content)
    BY <2>1, <2>2 DEF Permitted, Sensitive, ControlTags, LimitsKept
  <2>4. v.tag = "EMS_REQ_START_MANUAL_CHARGE" => ChargeAllowed(v.content)
    BY <2>1, <2>2 DEF Permitted, Sensitive, ControlTags, LimitsKept
  <2>5. v.tag = "EP_PARAM_EP_RESERVE_ENERGY" => ~IsNegative(v.content)
    BY <2>1, <2>2 DEF Permitted, Sensitive, ControlTags, checkArgumentsEarly
  <2>6. v.tag = "EMS_POWER_LIMITS_USED" /\ v.content = 0 => g_ctx.automatischLeistungEinstellen
    BY <2>1, <2>2 DEF Permitted, Sensitive, ControlTags
  <2>7. ASSUME g_ctx.automatischLeistungEinstellen, NEW w \in Sent,
               w.tag \in {"EMS_MAX_CHARGE_POWER", "EMS_MAX_DISCHARGE_POWER"}
        PROVE  w.content = 0
    <3>1. Permitted(g_ctx, w)
      BY <1>1, SentMeans
    <3>2. g_ctx.ladeLeistung = 0 /\ g_ctx.entladeLeistung = 0
      BY <2>1, <2>7 DEF LimitsKept
    <3> QED BY <3>1, <3>2, <2>7 DEF Permitted, Sensitive, ControlTags
  <2> QED BY <2>3, <2>4, <2>5, <2>6, <2>7
<1> QED BY <1>1, Invariance, PTL

\* A query never goes out with a control: checkArgumentsEarly refuses them together
\* whatever comes between, and nothing behind the checks brings one in but -r itself.
THEOREM QueriesReadOnly == Spec => []QueriesOnlyRead
<1>1. ASSUME Inv PROVE QueriesOnlyRead
  <2> SUFFICES ASSUME Given({"r", "r name", "H", "info"}), NEW v \in Sent, v.tag \in ControlTags
               PROVE  v.tag = g_ctx.leseTag /\ v.length = 0
    BY DEF QueriesOnlyRead
  <2>1. Permitted(g_ctx, v) /\ checkArgumentsEarly(g_ctx)
    BY <1>1, SentMeans
  <2>2. g_ctx.werteAbfragen \/ g_ctx.historieAbfrage \/ g_ctx.sysInfoAbfrage
    BY <1>1 DEF Inv, Told, Given
  <2>3. ~Controlling(g_ctx)
    BY <2>1, <2>2 DEF checkArgumentsEarly
  <2> QED BY <2>1, <2>3 DEF Permitted, Controlling, Sensitive, ControlTags
<1> QED BY <1>1, Invariance, PTL

\* The inputs that module Session assumes of its Commands are all that main can
\* make: Session's results hold for the program as it is called.
THEOREM SessionIsComposed == Spec => []SessionInputs
<1>1. ASSUME Inv PROVE SessionInputs
  <2> SUFFICES ASSUME Connecting
               PROVE  CommandOf(g_ctx) \in CommandType /\ Accepted(CommandOf(g_ctx))
    BY DEF SessionInputs
  <2>1. checkArgumentsEarly(g_ctx)
    BY <1>1 DEF Inv, Checked
  <2>2. /\ g_ctx["werteAbfragen"] \in BOOLEAN /\ g_ctx["modulInfoDump"] \in BOOLEAN
        /\ g_ctx["watchMode"] \in BOOLEAN /\ g_ctx["quietMode"] \in BOOLEAN
        /\ g_ctx["jsonOutput"] \in BOOLEAN
    BY <1>1 DEF Inv, Typed, IsContext, ContextOK, Flags
  <2> DEFINE c == CommandOf(g_ctx)
  <2>3. /\ c.read = IF g_ctx.werteAbfragen THEN ReadKind(g_ctx.leseTag) ELSE "none"
        /\ c.dump = g_ctx.modulInfoDump /\ c.watch = g_ctx.watchMode
        /\ c.quiet = g_ctx.quietMode /\ c.json = g_ctx.jsonOutput
    BY DEF CommandOf
  <2>4. /\ "charge" \in c.others <=> g_ctx.manuelleSpeicherladung
        /\ "power" \in c.others <=> g_ctx.leistungAendern
        /\ "reserve" \in c.others <=> g_ctx.setEPReserve
        /\ "history" \in c.others <=> g_ctx.historieAbfrage
        /\ "info" \in c.others <=> g_ctx.sysInfoAbfrage
        /\ c.others \subseteq Others
    BY DEF CommandOf, Others, Controls
  <2>5. c = [read |-> c.read, dump |-> c.dump, others |-> c.others,
             watch |-> c.watch, quiet |-> c.quiet, json |-> c.json]
    BY DEF CommandOf
  <2>6. ReadKind(g_ctx.leseTag) \in {"bat", "pvi", "plain"}
    BY DEF ReadKind
  <2> HIDE DEF c
  <2>7. c \in CommandType
    BY <2>2, <2>3, <2>4, <2>5, <2>6 DEF CommandType
  <2>8. c.read # "none" <=> g_ctx.werteAbfragen
    BY <2>2, <2>3, <2>6
  <2>9. c.others \cap Controls # {} <=> Controlling(g_ctx)
    BY <2>4 DEF Controls, Controlling
  <2>10. Accepted(c)
    <3>1. /\ g_ctx.werteAbfragen => ~Controlling(g_ctx)
          /\ g_ctx.historieAbfrage => ~Controlling(g_ctx) /\ ~g_ctx.werteAbfragen
          /\ g_ctx.quietMode \/ g_ctx.watchMode => g_ctx.werteAbfragen
          /\ g_ctx.sysInfoAbfrage => ~Controlling(g_ctx)
          /\ Controlling(g_ctx) \/ g_ctx.werteAbfragen \/ g_ctx.historieAbfrage
               \/ g_ctx.modulInfoDump \/ g_ctx.sysInfoAbfrage
      BY <2>1 DEF checkArgumentsEarly
    <3>2. c.others = {} => ~Controlling(g_ctx) /\ ~g_ctx.historieAbfrage /\ ~g_ctx.sysInfoAbfrage
      BY <2>4 DEF Controlling
    <3> QED BY <3>1, <3>2, <2>2, <2>3, <2>4, <2>8, <2>9 DEF Accepted
  <2> QED BY <2>7, <2>10 DEF c
<1> QED BY <1>1, Invariance, PTL
=============================================================================
