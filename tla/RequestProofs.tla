---------------------------- MODULE RequestProofs -----------------------------
(***************************************************************************)
(* Theorems about what CommandLine sends: the frame, taken apart again,    *)
(* is what the command line and the configuration say.                     *)
(***************************************************************************)
EXTENDS CommandLineProofs, FiniteSetTheorems

-----------------------------------------------------------------------------
(* The last of the options of a kind *)

GivenIn(s, opts) == \E i \in DOMAIN s : s[i].opt \in opts

IsLast(s, opts, i) == s[i].opt \in opts /\ \A j \in DOMAIN s : s[j].opt \in opts => j <= i

LastOf(s, opts) == s[CHOOSE i \in DOMAIN s : IsLast(s, opts, i)]

LEMMA LastExists ==
  ASSUME NEW s \in Seq(Options), NEW opts, GivenIn(s, opts)
  PROVE  \E i \in DOMAIN s : IsLast(s, opts, i)
<1> DEFINE n == Len(s)
           T == {k \in 0..n : (\E i \in 1..k : s[i].opt \in opts)
                    => \E i \in 1..k : /\ s[i].opt \in opts
                                       /\ \A j \in 1..k : s[j].opt \in opts => j <= i}
<1>1. n \in Nat /\ DOMAIN s = 1..n
  OBVIOUS
<1> HIDE DEF n
<1>2. 0 \in T
  BY <1>1
<1>3. ASSUME NEW k \in 0..n - 1, k \in T PROVE k + 1 \in T
  <2>1. k + 1 \in 0..n /\ k \in Nat
    BY <1>1
  <2>2. CASE s[k + 1].opt \in opts
    <3>1. k + 1 \in 1..k + 1 /\ \A j \in 1..k + 1 : j <= k + 1
      BY <2>1
    <3> QED BY <2>1, <2>2, <3>1
  <2>3. CASE s[k + 1].opt \notin opts
    <3>1. \A j \in 1..k + 1 : j \in 1..k \/ j = k + 1
      BY <2>1
    <3>2. \A j \in 1..k : j \in 1..k + 1
      BY <2>1
    <3> QED BY <2>1, <2>3, <3>1, <3>2, <1>3
  <2> QED BY <2>2, <2>3
<1> HIDE DEF T
<1>4. n \in T
  BY <1>1, <1>2, <1>3, SetInductionTo
<1> QED BY <1>1, <1>4 DEF T, GivenIn, IsLast

LEMMA LastAppended ==
  ASSUME NEW s \in Seq(Options), NEW o \in Options, NEW opts
  PROVE  /\ GivenIn(Append(s, o), opts) <=> GivenIn(s, opts) \/ o.opt \in opts
         /\ o.opt \in opts => LastOf(Append(s, o), opts) = o
         /\ o.opt \notin opts /\ GivenIn(s, opts) => LastOf(Append(s, o), opts) = LastOf(s, opts)
<1> DEFINE n == Len(s)
           t == Append(s, o)
<1>1. /\ n \in Nat /\ DOMAIN s = 1..n /\ DOMAIN t = 1..n + 1
      /\ t[n + 1] = o /\ \A i \in 1..n : t[i] = s[i]
  OBVIOUS
<1> HIDE DEF n, t
<1>0. n + 1 \in 1..n + 1 /\ (\A j \in 1..n + 1 : j <= n + 1 /\ (j \in 1..n \/ j = n + 1))
      /\ (\A j \in 1..n : j \in 1..n + 1 /\ ~(n + 1 <= j))
  BY <1>1
<1>2. GivenIn(t, opts) <=> GivenIn(s, opts) \/ o.opt \in opts
  BY <1>0, <1>1 DEF GivenIn
<1>3. ASSUME o.opt \in opts PROVE LastOf(t, opts) = o
  <2>1. IsLast(t, opts, n + 1)
    BY <1>0, <1>1, <1>3 DEF IsLast
  <2>2. \A i \in 1..n + 1 : IsLast(t, opts, i) => i = n + 1
    BY <1>0, <1>1, <1>3 DEF IsLast
  <2> HIDE DEF IsLast
  <2>3. (CHOOSE i \in DOMAIN t : IsLast(t, opts, i)) = n + 1
    BY <2>1, <2>2, <1>0, <1>1
  <2> QED BY <2>3, <1>1 DEF LastOf
<1>4. ASSUME o.opt \notin opts, GivenIn(s, opts) PROVE LastOf(t, opts) = LastOf(s, opts)
  <2>1. ASSUME NEW i PROVE i \in DOMAIN t /\ IsLast(t, opts, i) <=> i \in DOMAIN s /\ IsLast(s, opts, i)
    <3>1. ASSUME i \in 1..n + 1, IsLast(t, opts, i) PROVE i \in 1..n /\ IsLast(s, opts, i)
      BY <1>0, <1>1, <1>4, <3>1 DEF IsLast
    <3>2. ASSUME i \in 1..n, IsLast(s, opts, i) PROVE i \in 1..n + 1 /\ IsLast(t, opts, i)
      BY <1>0, <1>1, <1>4, <3>2 DEF IsLast
    <3> QED BY <3>1, <3>2, <1>1
  <2> DEFINE x == CHOOSE i : i \in DOMAIN s /\ IsLast(s, opts, i)
             y == CHOOSE i : i \in DOMAIN t /\ IsLast(t, opts, i)
  <2>2. y = x
    BY <2>1
  <2>3. \E i : i \in DOMAIN s /\ IsLast(s, opts, i)
    BY <1>4, LastExists
  <2>4. x \in DOMAIN s
    BY <2>3
  <2>5. LastOf(s, opts) = s[x] /\ LastOf(t, opts) = t[y]
    BY DEF LastOf
  <2> HIDE DEF x, y
  <2> QED BY <2>2, <2>4, <2>5, <1>1
<1> QED BY <1>2, <1>3, <1>4 DEF t

-----------------------------------------------------------------------------
(* What the options leave in the context *)

\* What one option does to the fields a request is built from.
Raises(c, new, o) ==
  /\ new.leistungAendern = (c.leistungAendern \/ o.opt \in {"a", "c", "d"})
  /\ new.automatischLeistungEinstellen = (c.automatischLeistungEinstellen \/ o.opt = "a")
  /\ new.ladeLeistungGesetzt = (c.ladeLeistungGesetzt \/ o.opt = "c")
  /\ new.entladeLeistungGesetzt = (c.entladeLeistungGesetzt \/ o.opt = "d")
  /\ new.manuelleSpeicherladung = (c.manuelleSpeicherladung \/ o.opt = "e")
  /\ new.setEPReserve = (c.setEPReserve \/ o.opt = "E")
  /\ new.werteAbfragen = (c.werteAbfragen \/ o.opt \in {"r", "r name"})
  /\ new.modulInfoDump = (c.modulInfoDump \/ o.opt = "m")
  /\ new.historieAbfrage = (c.historieAbfrage \/ o.opt = "H")
  /\ new.sysInfoAbfrage = (c.sysInfoAbfrage \/ o.opt = "info")

Stores(c, new, o) ==
  /\ new.ladeLeistung = IF o.opt = "c" THEN Uint32(o.n) ELSE c.ladeLeistung
  /\ new.entladeLeistung = IF o.opt = "d" THEN Uint32(o.n) ELSE c.entladeLeistung
  /\ new.ladungsMenge = IF o.opt = "e" THEN Uint32(o.n) ELSE c.ladungsMenge
  /\ new.epReserveWh = IF o.opt = "E" THEN atof(o) ELSE c.epReserveWh
  /\ new.batIndex = IF o.opt \in {"b", "m"} THEN Uint16(o.n) ELSE c.batIndex
  /\ new.leseTag = IF o.opt = "r" THEN o.s ELSE c.leseTag
  /\ new.tagName = IF o.opt = "r name" THEN o.s ELSE c.tagName
  /\ new.historieTyp = IF o.opt = "H" THEN o.s ELSE c.historieTyp
  /\ new.historieDatum = IF o.opt = "D" THEN o.s ELSE c.historieDatum

\* A field that is set, and the others.
LEMMA Put ==
  ASSUME NEW c, NEW g, NEW e
  PROVE  /\ DOMAIN [c EXCEPT ![g] = e] = DOMAIN c
         /\ \A f \in DOMAIN c : [c EXCEPT ![g] = e][f] = IF f = g THEN e ELSE c[f]
OBVIOUS

LEMMA PutTwo ==
  ASSUME NEW c, NEW g, NEW e, NEW h, NEW d
  PROVE  \A f \in DOMAIN c : [[c EXCEPT ![g] = e] EXCEPT ![h] = d][f] =
                                IF f = h THEN d ELSE IF f = g THEN e ELSE c[f]
BY Put

EffectFields == {"leistungAendern", "automatischLeistungEinstellen", "ladeLeistungGesetzt",
                 "entladeLeistungGesetzt", "manuelleSpeicherladung", "setEPReserve", "werteAbfragen",
                 "modulInfoDump", "historieAbfrage", "sysInfoAbfrage", "ladeLeistung",
                 "entladeLeistung", "ladungsMenge", "epReserveWh", "batIndex", "leseTag",
                 "tagName", "historieTyp", "historieDatum"}

LEMMA OptionEffect ==
  ASSUME NEW c, IsContext(c), NEW o \in Options
  PROVE  Raises(c, SetOption(c, o), o) /\ Stores(c, SetOption(c, o), o)
<1> DEFINE new == SetOption(c, o)
<1>1. DOMAIN c = Fields /\ EffectFields \subseteq Fields
  BY DEF IsContext, EffectFields, Fields, Flags, Words, Uint32Fields, Uint16Fields, FloatFields, IntFields
<1>0. \A f \in {"leistungAendern", "automatischLeistungEinstellen", "ladeLeistungGesetzt",
                "entladeLeistungGesetzt", "manuelleSpeicherladung", "setEPReserve", "werteAbfragen",
                "modulInfoDump", "historieAbfrage", "sysInfoAbfrage"} : c[f] \in BOOLEAN
  BY DEF IsContext, ContextOK, Flags
<1>2. CASE o.opt = "d"
  <2> DEFINE a == [[c EXCEPT !["leistungAendern"] = TRUE] EXCEPT !["entladeLeistungGesetzt"] = TRUE]
             b == [a EXCEPT !["entladeLeistung"] = Uint32(o.n)]
  <2>1. new = b
    BY <1>2 DEF SetOption, FlagOf, SetPower
  <2>2. DOMAIN a = DOMAIN c /\ \A f \in DOMAIN c : a[f] = IF f = "entladeLeistungGesetzt" THEN TRUE
                                    ELSE IF f = "leistungAendern" THEN TRUE ELSE c[f]
    BY PutTwo
  <2> HIDE DEF a
  <2>3. \A f \in DOMAIN c : b[f] = IF f = "entladeLeistung" THEN Uint32(o.n) ELSE a[f]
    BY <2>2
  <2> HIDE DEF b
  <2>4. \A f \in EffectFields : b[f] = IF f = "entladeLeistung" THEN Uint32(o.n)
                                  ELSE IF f \in {"leistungAendern", "entladeLeistungGesetzt"} THEN TRUE ELSE c[f]
    BY <2>2, <2>3, <1>1
  <2>5. Raises(c, b, o)
    BY <2>4, <1>2, <1>0 DEF Raises, EffectFields
  <2>6. Stores(c, b, o)
    BY <2>4, <1>2 DEF Stores, EffectFields
  <2> QED BY <2>1, <2>5, <2>6
<1>3. CASE o.opt = "c"
  <2> DEFINE a == [[c EXCEPT !["leistungAendern"] = TRUE] EXCEPT !["ladeLeistungGesetzt"] = TRUE]
             b == [a EXCEPT !["ladeLeistung"] = Uint32(o.n)]
  <2>1. new = b
    BY <1>3 DEF SetOption, FlagOf, SetPower
  <2>2. DOMAIN a = DOMAIN c /\ \A f \in DOMAIN c : a[f] = IF f = "ladeLeistungGesetzt" THEN TRUE
                                    ELSE IF f = "leistungAendern" THEN TRUE ELSE c[f]
    BY PutTwo
  <2> HIDE DEF a
  <2>3. \A f \in DOMAIN c : b[f] = IF f = "ladeLeistung" THEN Uint32(o.n) ELSE a[f]
    BY <2>2
  <2> HIDE DEF b
  <2>4. \A f \in EffectFields : b[f] = IF f = "ladeLeistung" THEN Uint32(o.n)
                                  ELSE IF f \in {"leistungAendern", "ladeLeistungGesetzt"} THEN TRUE ELSE c[f]
    BY <2>2, <2>3, <1>1
  <2>5. Raises(c, b, o)
    BY <2>4, <1>3, <1>0 DEF Raises, EffectFields
  <2>6. Stores(c, b, o)
    BY <2>4, <1>3 DEF Stores, EffectFields
  <2> QED BY <2>1, <2>5, <2>6
<1>4. CASE o.opt = "a"
  <2> DEFINE b == [[c EXCEPT !["leistungAendern"] = TRUE] EXCEPT !["automatischLeistungEinstellen"] = TRUE]
  <2>1. new = b
    BY <1>4 DEF SetOption, FlagOf
  <2>2. \A f \in DOMAIN c : b[f] = IF f = "automatischLeistungEinstellen" THEN TRUE ELSE IF f = "leistungAendern" THEN TRUE ELSE c[f]
    BY PutTwo
  <2> HIDE DEF b
  <2>3. Raises(c, b, o)
    BY <2>2, <1>4, <1>0, <1>1 DEF Raises, EffectFields
  <2>4. Stores(c, b, o)
    BY <2>2, <1>4, <1>1 DEF Stores, EffectFields
  <2> QED BY <2>1, <2>3, <2>4
<1>5. CASE o.opt = "e"
  <2> DEFINE b == [[c EXCEPT !["manuelleSpeicherladung"] = TRUE] EXCEPT !["ladungsMenge"] = Uint32(o.n)]
  <2>1. new = b
    BY <1>5 DEF SetOption, FlagOf
  <2>2. \A f \in DOMAIN c : b[f] = IF f = "ladungsMenge" THEN Uint32(o.n) ELSE IF f = "manuelleSpeicherladung" THEN TRUE ELSE c[f]
    BY PutTwo
  <2> HIDE DEF b
  <2>3. Raises(c, b, o)
    BY <2>2, <1>5, <1>0, <1>1 DEF Raises, EffectFields
  <2>4. Stores(c, b, o)
    BY <2>2, <1>5, <1>1 DEF Stores, EffectFields
  <2> QED BY <2>1, <2>3, <2>4
<1>6. CASE o.opt = "E"
  <2> DEFINE b == [[c EXCEPT !["setEPReserve"] = TRUE] EXCEPT !["epReserveWh"] = atof(o)]
  <2>1. new = b
    BY <1>6 DEF SetOption, FlagOf
  <2>2. \A f \in DOMAIN c : b[f] = IF f = "epReserveWh" THEN atof(o) ELSE IF f = "setEPReserve" THEN TRUE ELSE c[f]
    BY PutTwo
  <2> HIDE DEF b
  <2>3. Raises(c, b, o)
    BY <2>2, <1>6, <1>0, <1>1 DEF Raises, EffectFields
  <2>4. Stores(c, b, o)
    BY <2>2, <1>6, <1>1 DEF Stores, EffectFields
  <2> QED BY <2>1, <2>3, <2>4
<1>7. CASE o.opt = "H"
  <2> DEFINE b == [[c EXCEPT !["historieAbfrage"] = TRUE] EXCEPT !["historieTyp"] = o.s]
  <2>1. new = b
    BY <1>7 DEF SetOption, FlagOf
  <2>2. \A f \in DOMAIN c : b[f] = IF f = "historieTyp" THEN o.s ELSE IF f = "historieAbfrage" THEN TRUE ELSE c[f]
    BY PutTwo
  <2> HIDE DEF b
  <2>3. Raises(c, b, o)
    BY <2>2, <1>7, <1>0, <1>1 DEF Raises, EffectFields
  <2>4. Stores(c, b, o)
    BY <2>2, <1>7, <1>1 DEF Stores, EffectFields
  <2> QED BY <2>1, <2>3, <2>4
<1>8. CASE o.opt = "D"
  <2> DEFINE b == [[c EXCEPT !["historieDatum"] = o.s] EXCEPT !["datum"] = o.n]
  <2>1. new = b
    BY <1>8 DEF SetOption, FlagOf
  <2>2. \A f \in DOMAIN c : b[f] = IF f = "datum" THEN o.n ELSE IF f = "historieDatum" THEN o.s ELSE c[f]
    BY PutTwo
  <2> HIDE DEF b
  <2>3. Raises(c, b, o)
    BY <2>2, <1>8, <1>0, <1>1 DEF Raises, EffectFields
  <2>4. Stores(c, b, o)
    BY <2>2, <1>8, <1>1 DEF Stores, EffectFields
  <2> QED BY <2>1, <2>3, <2>4
<1>9. CASE o.opt = "r"
  <2> DEFINE b == [[c EXCEPT !["werteAbfragen"] = TRUE] EXCEPT !["leseTag"] = o.s]
  <2>1. new = b
    BY <1>9 DEF SetOption, FlagOf, SetTag
  <2>2. \A f \in DOMAIN c : b[f] = IF f = "leseTag" THEN o.s ELSE IF f = "werteAbfragen" THEN TRUE ELSE c[f]
    BY PutTwo
  <2> HIDE DEF b
  <2>3. Raises(c, b, o)
    BY <2>2, <1>9, <1>0, <1>1 DEF Raises, EffectFields
  <2>4. Stores(c, b, o)
    BY <2>2, <1>9, <1>1 DEF Stores, EffectFields
  <2> QED BY <2>1, <2>3, <2>4
<1>10. CASE o.opt = "r name"
  <2> DEFINE b == [[c EXCEPT !["werteAbfragen"] = TRUE] EXCEPT !["tagName"] = o.s]
  <2>1. new = b
    BY <1>10 DEF SetOption, FlagOf, SetTag
  <2>2. \A f \in DOMAIN c : b[f] = IF f = "tagName" THEN o.s ELSE IF f = "werteAbfragen" THEN TRUE ELSE c[f]
    BY PutTwo
  <2> HIDE DEF b
  <2>3. Raises(c, b, o)
    BY <2>2, <1>10, <1>0, <1>1 DEF Raises, EffectFields
  <2>4. Stores(c, b, o)
    BY <2>2, <1>10, <1>1 DEF Stores, EffectFields
  <2> QED BY <2>1, <2>3, <2>4
<1>11. CASE o.opt = "b"
  <2> DEFINE b == [[c EXCEPT !["batIndexExplicit"] = TRUE] EXCEPT !["batIndex"] = Uint16(o.n)]
  <2>1. new = b
    BY <1>11 DEF SetOption, FlagOf
  <2>2. \A f \in DOMAIN c : b[f] = IF f = "batIndex" THEN Uint16(o.n) ELSE IF f = "batIndexExplicit" THEN TRUE ELSE c[f]
    BY PutTwo
  <2> HIDE DEF b
  <2>3. Raises(c, b, o)
    BY <2>2, <1>11, <1>0, <1>1 DEF Raises, EffectFields
  <2>4. Stores(c, b, o)
    BY <2>2, <1>11, <1>1 DEF Stores, EffectFields
  <2> QED BY <2>1, <2>3, <2>4
<1>12. CASE o.opt = "m"
  <2> DEFINE b == [[c EXCEPT !["modulInfoDump"] = TRUE] EXCEPT !["batIndex"] = Uint16(o.n)]
  <2>1. new = b
    BY <1>12 DEF SetOption, FlagOf, SetModule
  <2>2. \A f \in DOMAIN c : b[f] = IF f = "batIndex" THEN Uint16(o.n) ELSE IF f = "modulInfoDump" THEN TRUE ELSE c[f]
    BY PutTwo
  <2> HIDE DEF b
  <2>3. Raises(c, b, o)
    BY <2>2, <1>12, <1>0, <1>1 DEF Raises, EffectFields
  <2>4. Stores(c, b, o)
    BY <2>2, <1>12, <1>1 DEF Stores, EffectFields
  <2> QED BY <2>1, <2>3, <2>4
<1>13. CASE o.opt = "interval"
  <2> DEFINE b == [c EXCEPT !["watchInterval"] = Uint32(o.n)]
  <2>1. new = b
    BY <1>13 DEF SetOption, FlagOf
  <2>2. \A f \in DOMAIN c : b[f] = IF f = "watchInterval" THEN Uint32(o.n) ELSE c[f]
    BY Put
  <2> HIDE DEF b
  <2>3. Raises(c, b, o)
    BY <2>2, <1>13, <1>0, <1>1 DEF Raises, EffectFields
  <2>4. Stores(c, b, o)
    BY <2>2, <1>13, <1>1 DEF Stores, EffectFields
  <2> QED BY <2>1, <2>3, <2>4
<1>14. CASE o.opt \in {"q", "j", "l", "w", "raw", "info", "argument"}
  <2> DEFINE g == FlagOf[o.opt]
             b == [c EXCEPT ![g] = TRUE]
  <2>1. new = b
    BY <1>14 DEF SetOption, FlagOf
  <2>2. \A f \in DOMAIN c : b[f] = IF f = g THEN TRUE ELSE c[f]
    BY Put
  <2>3. IF o.opt = "info" THEN g = "sysInfoAbfrage"
        ELSE g \in {"quietMode", "jsonOutput", "listTags", "watchMode", "rawOutput", "arguments"}
    BY <1>14 DEF FlagOf
  <2> HIDE DEF b, g
  <2>4. \A f \in EffectFields : f # "sysInfoAbfrage" => b[f] = c[f]
    BY <2>2, <2>3, <1>1 DEF EffectFields
  <2>5. b["sysInfoAbfrage"] = (c["sysInfoAbfrage"] \/ o.opt = "info")
    BY <2>2, <2>3, <1>0, <1>1 DEF EffectFields
  <2>6. Raises(c, b, o)
    BY <2>4, <2>5, <1>14, <1>0 DEF Raises, EffectFields
  <2>7. Stores(c, b, o)
    BY <2>4, <1>14 DEF Stores, EffectFields
  <2> QED BY <2>1, <2>6, <2>7
<1>15. CASE o.opt \notin {"c", "d", "a", "e", "E", "H", "D", "r", "r name", "b", "m", "interval",
                            "q", "j", "l", "w", "raw", "info", "argument"}
  <2>1. new = c
    BY <1>15 DEF SetOption, FlagOf
  <2>2. Raises(c, c, o)
    BY <1>15, <1>0 DEF Raises
  <2>3. Stores(c, c, o)
    BY <1>15 DEF Stores
  <2> QED BY <2>1, <2>2, <2>3
<1> QED BY <1>2, <1>3, <1>4, <1>5, <1>6, <1>7, <1>8, <1>9, <1>10, <1>11, <1>12, <1>13, <1>14, <1>15

\* The fields after the options s.
HeardFlags(s, c) ==
  /\ c.leistungAendern = GivenIn(s, {"a", "c", "d"})
  /\ c.automatischLeistungEinstellen = GivenIn(s, {"a"})
  /\ c.ladeLeistungGesetzt = GivenIn(s, {"c"})
  /\ c.entladeLeistungGesetzt = GivenIn(s, {"d"})
  /\ c.manuelleSpeicherladung = GivenIn(s, {"e"})
  /\ c.setEPReserve = GivenIn(s, {"E"})
  /\ c.werteAbfragen = GivenIn(s, {"r", "r name"})
  /\ c.modulInfoDump = GivenIn(s, {"m"})
  /\ c.historieAbfrage = GivenIn(s, {"H"})
  /\ c.sysInfoAbfrage = GivenIn(s, {"info"})

HeardNumbers(s, c) ==
  /\ GivenIn(s, {"c"}) => c.ladeLeistung = Uint32(LastOf(s, {"c"}).n)
  /\ GivenIn(s, {"d"}) => c.entladeLeistung = Uint32(LastOf(s, {"d"}).n)
  /\ GivenIn(s, {"e"}) => c.ladungsMenge = Uint32(LastOf(s, {"e"}).n)
  /\ GivenIn(s, {"E"}) => c.epReserveWh = atof(LastOf(s, {"E"}))
  /\ GivenIn(s, {"H"}) => c.historieTyp = LastOf(s, {"H"}).s
  /\ c.batIndex = IF GivenIn(s, {"b", "m"}) THEN Uint16(LastOf(s, {"b", "m"}).n) ELSE 0

HeardTags(s, c) ==
  /\ c.leseTag = IF GivenIn(s, {"r"}) THEN LastOf(s, {"r"}).s ELSE NoTag
  /\ c.tagName = IF GivenIn(s, {"r name"}) THEN LastOf(s, {"r name"}).s ELSE NoTag

Heard(s, c) == HeardFlags(s, c) /\ HeardNumbers(s, c)

LEMMA HeardAtFirst == Heard(<<>>, InitialContext) /\ HeardTags(<<>>, InitialContext)
<1> DEFINE c == InitialContext
<1>1. \A opts : ~GivenIn(<<>>, opts)
  BY DEF GivenIn
<1>2. HeardFlags(<<>>, c)
  <2>1. /\ c["leistungAendern"] = FALSE /\ c["automatischLeistungEinstellen"] = FALSE
        /\ c["ladeLeistungGesetzt"] = FALSE /\ c["entladeLeistungGesetzt"] = FALSE
        /\ c["manuelleSpeicherladung"] = FALSE /\ c["setEPReserve"] = FALSE
        /\ c["werteAbfragen"] = FALSE /\ c["modulInfoDump"] = FALSE
        /\ c["historieAbfrage"] = FALSE /\ c["sysInfoAbfrage"] = FALSE
    BY FlagsDown, FieldNames
  <2>2. \A opts : GivenIn(<<>>, opts) = FALSE
    BY <1>1
  <2> HIDE DEF c
  <2> QED BY <2>1, <2>2 DEF HeardFlags
<1>3. c["batIndex"] = 0 /\ c["leseTag"] = NoTag /\ c["tagName"] = NoTag
  <2>1. "batIndex" \in Fields /\ "leseTag" \in Fields /\ "tagName" \in Fields
    BY FieldNames, KnownFields
  <2>2. "batIndex" \notin Flags /\ "batIndex" \notin Words
        /\ "leseTag" \in Words /\ "tagName" \in Words /\ "leseTag" \notin Flags /\ "tagName" \notin Flags
    BY DEF Flags, Words
  <2> QED BY <2>1, <2>2 DEF InitialContext
<1> HIDE DEF c
<1>4. HeardNumbers(<<>>, c) /\ HeardTags(<<>>, c)
  BY <1>1, <1>3 DEF HeardNumbers, HeardTags
<1> QED BY <1>2, <1>4 DEF c, Heard

LEMMA HeardNext ==
  ASSUME NEW s \in Seq(Options), NEW c, IsContext(c), Heard(s, c), NEW o \in Options
  PROVE  /\ Heard(Append(s, o), SetOption(c, o))
         /\ HeardTags(s, c) => HeardTags(Append(s, o), SetOption(c, o))
<1> DEFINE t == Append(s, o)
           new == SetOption(c, o)
<1>1. Raises(c, new, o) /\ Stores(c, new, o)
  BY OptionEffect
<1>2. \A opts : /\ GivenIn(t, opts) = (GivenIn(s, opts) \/ o.opt \in opts)
                /\ o.opt \in opts => LastOf(t, opts) = o
                /\ o.opt \notin opts /\ GivenIn(s, opts) => LastOf(t, opts) = LastOf(s, opts)
  <2> SUFFICES ASSUME NEW opts
               PROVE  /\ GivenIn(t, opts) = (GivenIn(s, opts) \/ o.opt \in opts)
                      /\ o.opt \in opts => LastOf(t, opts) = o
                      /\ o.opt \notin opts /\ GivenIn(s, opts) => LastOf(t, opts) = LastOf(s, opts)
    OBVIOUS
  <2>1. GivenIn(t, opts) \in BOOLEAN
    BY DEF GivenIn
  <2>2. GivenIn(t, opts) <=> GivenIn(s, opts) \/ o.opt \in opts
    BY LastAppended
  <2>3. GivenIn(t, opts) = (GivenIn(s, opts) \/ o.opt \in opts)
    BY <2>1, <2>2
  <2> QED BY <2>3, LastAppended
<1> HIDE DEF t, new
<1>3. HeardFlags(t, new)
  BY <1>1, <1>2 DEF Heard, HeardFlags, Raises
<1>4. HeardNumbers(t, new)
  BY <1>1, <1>2 DEF Heard, HeardNumbers, Stores
<1>5. HeardTags(s, c) => HeardTags(t, new)
  BY <1>1, <1>2 DEF HeardTags, Stores
<1> QED BY <1>3, <1>4, <1>5 DEF t, new, Heard

-----------------------------------------------------------------------------
(* What a request holds, as the station sees it that takes it apart *)

LeafOf(v) == [tag |-> v.tag, content |-> v.content]

\* The element is behind those that were there.
LEMMA Grown ==
  ASSUME NEW r, Fits(r), NEW v, v.length \in Nat,
         r.length + HeaderSize + v.length <= RSCP_MAX_DATA_LENGTH,
         NEW q \in {AppendValue(r, v), AppendContainer(r, v)}
  PROVE  /\ Fits(q) /\ q.tag = r.tag /\ q.content = r.content
         /\ q.length = r.length + HeaderSize + v.length
         /\ Elements(q) = Elements(r) \cup {v}
<1>1. IsValue(r) /\ r.length \in Nat
  BY DEF Fits, IsValue
<1> DEFINE n == HeaderSize + v.length
<1>2. n \in Nat /\ r.length + n = r.length + HeaderSize + v.length /\ v.length <= RSCP_MAX_DATA_LENGTH
  BY <1>1 DEF HeaderSize, RSCP_MAX_DATA_LENGTH
<1>3. q = Append16(r, v, n)
  BY <1>2, AsAppended
<1>4. Fits(q)
  BY <1>3, AppendFits
<1> HIDE DEF n
<1>5. /\ q.tag = r.tag /\ q.content = r.content
      /\ q.length = r.length + n
      /\ q.items = Append(r.items, Item(r.length, v))
  BY <1>1, <1>2, <1>3, Appended
<1>6. Elements(q) = Elements(r) \cup {v}
  <2> DEFINE m == Len(r.items)
  <2>1. /\ m \in Nat /\ DOMAIN r.items = 1..m /\ DOMAIN q.items = 1..m + 1
        /\ \A i \in 1..m : q.items[i] = r.items[i]
        /\ q.items[m + 1] = Item(r.length, v)
    BY <1>1, <1>5, AppendSeq, SeqDomain DEF IsValue
  <2> HIDE DEF m
  <2>2. q.items[m + 1].value = v
    BY <2>1 DEF Item
  <2>3. m + 1 \in 1..m + 1 /\ \A i \in 1..m + 1 : i \in 1..m \/ i = m + 1
    BY <2>1
  <2>4. \A i \in 1..m : i \in 1..m + 1
    BY <2>1
  <2> QED BY <2>1, <2>2, <2>3, <2>4 DEF Elements
<1> QED BY <1>2, <1>4, <1>5, <1>6

\* A container of data, of which only the leaves count, and a root, of which the parts.
Holds(r, tag, leaves, most) ==
  /\ Fits(r) /\ r.tag = tag /\ r.content = 0 /\ r.length <= most
  /\ {LeafOf(w) : w \in Elements(r)} = leaves

Lists(r, parts, most) ==
  Fits(r) /\ r.length <= most /\ {PartOf(w) : w \in Elements(r)} = parts

LEMMA NothingHeld ==
  /\ \A tag : Holds(CreateContainerValue(tag), tag, {}, 0)
  /\ Lists(Root, {}, 0)
<1>1. ASSUME NEW tag PROVE Holds(CreateContainerValue(tag), tag, {}, 0)
  <2> DEFINE v == CreateContainerValue(tag)
  <2>1. Fits(v)
    BY EmptyFits
  <2>2. v.tag = tag /\ v.content = 0 /\ v.length = 0 /\ v.items = <<>>
    BY DataIsValue DEF CreateContainerValue
  <2> HIDE DEF v
  <2>3. Elements(v) = {}
    BY <2>2 DEF Elements
  <2> QED BY <2>1, <2>2, <2>3 DEF Holds, v
<1>2. Lists(Root, {}, 0)
  <2>1. Holds(Root, "root", {}, 0)
    BY <1>1 DEF Root
  <2>2. Elements(Root) = {}
    BY <2>1 DEF Holds
  <2> QED BY <2>1, <2>2 DEF Holds, Lists
<1> QED BY <1>1, <1>2

LEMMA HoldsMore ==
  ASSUME NEW r, NEW tag, NEW leaves, NEW most \in Nat, Holds(r, tag, leaves, most),
         NEW t, NEW n \in Nat, NEW x, most + 7 + n <= 65528
  PROVE  Holds(AppendValue(r, Data(t, n, x)), tag, leaves \cup Leaf(t, x), most + 7 + n)
<1> DEFINE v == Data(t, n, x)
           q == AppendValue(r, v)
<1>1. v.tag = t /\ v.content = x /\ v.length = n
  BY DataIsValue
<1>2. Fits(r) /\ r.length \in Nat /\ r.length <= most
  BY DEF Holds, Fits, IsValue
<1> HIDE DEF v
<1>3. r.length + HeaderSize + v.length <= RSCP_MAX_DATA_LENGTH /\ v.length \in Nat
  BY <1>1, <1>2 DEF HeaderSize, RSCP_MAX_DATA_LENGTH
<1>4. /\ Fits(q) /\ q.tag = r.tag /\ q.content = r.content
      /\ q.length = r.length + HeaderSize + v.length
      /\ Elements(q) = Elements(r) \cup {v}
  BY <1>2, <1>3, Grown
<1> HIDE DEF q
<1>5. q.length <= most + 7 + n
  BY <1>1, <1>2, <1>4 DEF HeaderSize
<1>6. LeafOf(v) = [tag |-> t, content |-> x]
  BY <1>1 DEF LeafOf
<1>7. {LeafOf(w) : w \in Elements(q)} = leaves \cup {LeafOf(v)}
  BY <1>4 DEF Holds
<1> QED BY <1>4, <1>5, <1>6, <1>7 DEF Holds, Leaf, q, v

\* A container that is taken apart, and data, that has no parts.
LEMMA PartOfContainer ==
  ASSUME NEW v, NEW tag, NEW leaves, NEW most, Holds(v, tag, leaves, most)
  PROVE  {PartOf(v)} = Part(tag, 0, leaves)
<1>1. Fits(v) /\ v.tag = tag /\ v.content = 0 /\ {LeafOf(w) : w \in Elements(v)} = leaves
  BY DEF Holds
<1>2. GetValueAsContainer(v) = ValuesOf(v)
  BY <1>1, TakenApart DEF GetValueAsContainer
<1>3. PartsOf(v) = {[tag |-> ValuesOf(v)[i].tag, content |-> ValuesOf(v)[i].content] : i \in DOMAIN ValuesOf(v)}
  BY <1>2 DEF PartsOf
<1>4. DOMAIN ValuesOf(v) = DOMAIN v.items /\ \A i \in DOMAIN v.items : ValuesOf(v)[i] = v.items[i].value
  BY DEF ValuesOf
<1>5. PartsOf(v) = leaves
  BY <1>1, <1>3, <1>4 DEF LeafOf, Elements
<1> QED BY <1>1, <1>5 DEF PartOf, Part

LEMMA PartOfData ==
  ASSUME NEW tag, NEW n \in Nat, NEW x
  PROVE  {PartOf(Data(tag, n, x))} = Part(tag, x, {})
<1> DEFINE v == Data(tag, n, x)
           At(pos) == {i \in DOMAIN v.items : v.items[i].at = pos}
           First(pos) == v.items[CHOOSE i \in At(pos) : TRUE].value
           Step(g, pos) == IF pos < v.length /\ At(pos) # {}
                           THEN IF pos + First(pos).length <= v.length
                                THEN <<First(pos)>> \o g[pos + HeaderSize + First(pos).length]
                                ELSE <<>>
                           ELSE <<>>
           Walk == CHOOSE g : g = [pos \in Nat |-> Step(g, pos)]
<1>1. ParseData(v.items, v.length) = Walk[0]
  BY DEF ParseData
<1>2. v.tag = tag /\ v.content = x /\ v.items = <<>>
  BY DataIsValue
<1> HIDE DEF v
<1>3. \A pos : At(pos) = {}
  BY <1>2
<1>4. \A g, pos : Step(g, pos) = <<>>
  BY <1>3
<1> HIDE DEF Step
<1>5. Walk = [pos \in Nat |-> Step(Walk, pos)]
  <2> DEFINE W == [pos \in Nat |-> <<>>]
  <2>1. W = [pos \in Nat |-> Step(W, pos)]
    BY <1>4
  <2> HIDE DEF W
  <2> QED BY <2>1
<1> HIDE DEF Walk
<1>6. Walk[0] = <<>>
  BY <1>4, <1>5
<1>7. GetValueAsContainer(v) = <<>>
  BY <1>1, <1>6 DEF GetValueAsContainer
<1>8. PartsOf(v) = {}
  BY <1>7 DEF PartsOf
<1> QED BY <1>2, <1>8 DEF PartOf, Part, v

LEMMA ListsMore ==
  ASSUME NEW r, NEW parts, NEW most \in Nat, Lists(r, parts, most),
         NEW v, NEW n \in Nat, v.length \in Nat, v.length <= n, most + 7 + n <= 65528,
         NEW q \in {AppendValue(r, v), AppendContainer(r, v)}
  PROVE  Lists(q, parts \cup {PartOf(v)}, most + 7 + n)
<1>2. Fits(r) /\ r.length \in Nat /\ r.length <= most
  BY DEF Lists, Fits, IsValue
<1>3. r.length + HeaderSize + v.length <= RSCP_MAX_DATA_LENGTH /\ v.length \in Nat
  BY <1>2 DEF HeaderSize, RSCP_MAX_DATA_LENGTH
<1>4. /\ Fits(q)
      /\ q.length = r.length + HeaderSize + v.length
      /\ Elements(q) = Elements(r) \cup {v}
  BY <1>2, <1>3, Grown
<1>5. q.length <= most + 7 + n
  BY <1>2, <1>4 DEF HeaderSize
<1>6. {PartOf(w) : w \in Elements(q)} = parts \cup {PartOf(v)}
  BY <1>4 DEF Lists
<1> QED BY <1>4, <1>5, <1>6 DEF Lists

\* The two ways in which createRequestExample extends a request.
LEMMA ContainerListed ==
  ASSUME NEW r, NEW parts, NEW most \in Nat, Lists(r, parts, most),
         NEW v, NEW tag, NEW leaves, NEW n \in Nat, Holds(v, tag, leaves, n), most + 7 + n <= 65528
  PROVE  Lists(AppendContainer(r, v), parts \cup Part(tag, 0, leaves), most + 7 + n)
<1>1. v.length \in Nat /\ v.length <= n
  BY DEF Holds, Fits, IsValue
<1>2. Lists(AppendContainer(r, v), parts \cup {PartOf(v)}, most + 7 + n)
  BY <1>1, ListsMore
<1> QED BY <1>2, PartOfContainer

LEMMA DataListed ==
  ASSUME NEW r, NEW parts, NEW most \in Nat, Lists(r, parts, most),
         NEW tag, NEW n \in Nat, NEW x, most + 7 + n <= 65528
  PROVE  Lists(AppendValue(r, Data(tag, n, x)), parts \cup Part(tag, x, {}), most + 7 + n)
<1> DEFINE v == Data(tag, n, x)
<1>1. v.length = n
  BY DataIsValue
<1> HIDE DEF v
<1>2. v.length \in Nat /\ v.length <= n
  BY <1>1
<1>3. Lists(AppendValue(r, v), parts \cup {PartOf(v)}, most + 7 + n)
  BY <1>2, ListsMore
<1> QED BY <1>3, PartOfData DEF v

\* The same for a value that is named, with its bound worked out and the union named too:
\* a prover matches the names, where it would have to find the terms.
Appends(q, r, t, n, x) == q = AppendValue(r, Data(t, n, x))
Extends(q, r, v) == q = AppendContainer(r, v)
With(leaves, t, x) == leaves \cup Leaf(t, x)
Listing(parts, tag, leaves) == parts \cup Part(tag, 0, leaves)
ListingData(parts, tag, x) == parts \cup Part(tag, x, {})

LEMMA HoldsTo ==
  ASSUME NEW r, NEW tag, NEW leaves, NEW most \in Nat, Holds(r, tag, leaves, most),
         NEW q, NEW t, NEW n \in Nat, NEW x, Appends(q, r, t, n, x),
         NEW more \in Nat, most + 7 + n = more, more <= 65528
  PROVE  Holds(q, tag, With(leaves, t, x), more)
<1>1. most + 7 + n <= 65528
  OBVIOUS
<1>2. Holds(AppendValue(r, Data(t, n, x)), tag, leaves \cup Leaf(t, x), most + 7 + n)
  BY <1>1, HoldsMore
<1> QED BY <1>2 DEF Appends, With

LEMMA ListsTo ==
  ASSUME NEW r, NEW parts, NEW most \in Nat, Lists(r, parts, most),
         NEW v, NEW tag, NEW leaves, NEW n \in Nat, Holds(v, tag, leaves, n),
         NEW q, Extends(q, r, v), NEW more \in Nat, most + 7 + n = more, more <= 65528
  PROVE  Lists(q, Listing(parts, tag, leaves), more)
<1>1. most + 7 + n <= 65528
  OBVIOUS
<1>2. Lists(AppendContainer(r, v), parts \cup Part(tag, 0, leaves), most + 7 + n)
  BY <1>1, ContainerListed
<1> QED BY <1>2 DEF Extends, Listing

LEMMA DataTo ==
  ASSUME NEW r, NEW parts, NEW most \in Nat, Lists(r, parts, most),
         NEW q, NEW tag, NEW n \in Nat, NEW x, Appends(q, r, tag, n, x),
         NEW more \in Nat, most + 7 + n = more, more <= 65528
  PROVE  Lists(q, ListingData(parts, tag, x), more)
<1>1. most + 7 + n <= 65528
  OBVIOUS
<1>2. Lists(AppendValue(r, Data(tag, n, x)), parts \cup Part(tag, x, {}), most + 7 + n)
  BY <1>1, DataListed
<1> QED BY <1>2 DEF Appends, ListingData

\* A bound may be larger.
LEMMA HoldsLess ==
  ASSUME NEW r, NEW tag, NEW leaves, NEW most \in Nat, Holds(r, tag, leaves, most),
         NEW more \in Nat, most <= more
  PROVE  Holds(r, tag, leaves, more)
<1>1. r.length \in Nat
  BY DEF Holds, Fits, IsValue
<1> QED BY <1>1 DEF Holds

LEMMA ListsLess ==
  ASSUME NEW r, NEW parts, NEW most \in Nat, Lists(r, parts, most), NEW more \in Nat, most <= more
  PROVE  Lists(r, parts, more)
<1>1. r.length \in Nat
  BY DEF Lists, Fits, IsValue
<1> QED BY <1>1 DEF Lists

-----------------------------------------------------------------------------
(* The parts of a request, from the context *)

ReadSays(c) ==
  IF ~c.werteAbfragen THEN {}
  ELSE CASE ReadKind(c.leseTag) = "bat" ->
              Part("BAT_REQ_DATA", 0, Leaf("BAT_INDEX", c.batIndex) \cup Leaf(c.leseTag, 0))
         [] ReadKind(c.leseTag) = "pvi" ->
              Part("PVI_REQ_DATA", 0, Leaf("PVI_INDEX", c.batIndex) \cup Leaf(c.leseTag, 0))
         [] OTHER -> Part(c.leseTag, 0, {})

ModuleTags == {"BAT_REQ_RSOC", "BAT_REQ_ASOC", "BAT_REQ_CHARGE_CYCLES", "BAT_REQ_CURRENT",
               "BAT_REQ_MODULE_VOLTAGE", "BAT_REQ_MAX_BAT_VOLTAGE", "BAT_REQ_STATUS_CODE",
               "BAT_REQ_ERROR_CODE", "BAT_REQ_DCB_COUNT"}

FirstDumpSays(c) ==
  Part("BAT_REQ_DATA", 0, Leaf("BAT_INDEX", c.batIndex) \cup {[tag |-> t, content |-> 0] : t \in ModuleTags})
DcbSays(c, dcb) ==
  Part("BAT_REQ_DATA", 0, Leaf("BAT_INDEX", c.batIndex) \cup Leaf("BAT_REQ_DCB_INFO", dcb))
DumpSays(c, dcb) ==
  If(c.modulInfoDump, IF dcb = None THEN FirstDumpSays(c) ELSE DcbSays(c, dcb))

HistorySays(c, now) ==
  If(c.historieAbfrage, Part(HistoryTag(c.historieTyp), 0,
    Leaf("DB_REQ_HISTORY_TIME_START",
         dateToTimestamp(DateMeant(c, now), c.historieTyp, IsdstMeant(c, now))) \cup
    Leaf("DB_REQ_HISTORY_TIME_INTERVAL", HistoryInterval(c.historieTyp)) \cup
    Leaf("DB_REQ_HISTORY_TIME_SPAN", HistorySpan(DateMeant(c, now), c.historieTyp))))

InfoSays(c) ==
  If(c.sysInfoAbfrage, Part("INFO_REQ_SERIAL_NUMBER", 0, {}) \cup
                       Part("INFO_REQ_PRODUCTION_DATE", 0, {}) \cup
                       Part("INFO_REQ_SW_RELEASE", 0, {}))

ChargeSays(c) == If(c.manuelleSpeicherladung, Part("EMS_REQ_START_MANUAL_CHARGE", c.ladungsMenge, {}))

PowerLeaves(c) ==
  If(c.automatischLeistungEinstellen, Leaf("EMS_POWER_LIMITS_USED", 0)) \cup
  If(c.ladeLeistungGesetzt \/ c.entladeLeistungGesetzt, Leaf("EMS_POWER_LIMITS_USED", 1)) \cup
  If(c.ladeLeistungGesetzt, Leaf("EMS_MAX_CHARGE_POWER", c.ladeLeistung)) \cup
  If(c.entladeLeistungGesetzt, Leaf("EMS_MAX_DISCHARGE_POWER", c.entladeLeistung))

PowerSays(c) == If(c.leistungAendern, Part("EMS_REQ_SET_POWER_SETTINGS", 0, PowerLeaves(c)))

ReserveSays(c) ==
  If(c.setEPReserve, Part("EP_REQ_SET_EP_RESERVE", 0,
    Leaf("EP_PARAM_INDEX", 0) \cup Leaf("EP_PARAM_EP_RESERVE_ENERGY", c.epReserveWh)))

CommandSays(c, dcb, now) ==
  ReadSays(c) \cup DumpSays(c, dcb) \cup HistorySays(c, now) \cup InfoSays(c)
    \cup ChargeSays(c) \cup PowerSays(c) \cup ReserveSays(c)

-----------------------------------------------------------------------------
(* createRequestExample builds them *)

Asks(q, r, t) == q = Asking(r, t)
Asks3(q, r, s, t, u) == q = Asking3(r, s, t, u)
With3(leaves, s, t, u) == With(With(With(leaves, s, 0), t, 0), u, 0)

LEMMA AskingHeld ==
  ASSUME NEW r, NEW tag, NEW leaves, NEW most \in Nat, Holds(r, tag, leaves, most),
         NEW q, NEW t, Asks(q, r, t), NEW more \in Nat, most + 7 = more, more <= 65528
  PROVE  Holds(q, tag, With(leaves, t, 0), more)
<1>1. Appends(q, r, t, 0, 0)
  BY DEF Asks, Asking, Appends
<1> QED BY <1>1, HoldsTo

LEMMA Asking3Held ==
  ASSUME NEW r, NEW tag, NEW leaves, NEW most \in Nat, Holds(r, tag, leaves, most),
         NEW q, NEW s, NEW t, NEW u, Asks3(q, r, s, t, u),
         NEW more \in Nat, most + 21 = more, more <= 65528
  PROVE  Holds(q, tag, With3(leaves, s, t, u), more)
<1> DEFINE a == Asking(r, s)
           b == Asking(a, t)
           A == With(leaves, s, 0)
           B == With(A, t, 0)
<1>1. Asks(a, r, s) /\ Asks(b, a, t) /\ Asks(q, b, u)
  BY DEF Asks, Asks3, Asking3
<1> HIDE DEF a, b
<1>2. /\ most + 7 \in Nat /\ (most + 7) + 7 = most + 14 /\ most + 14 \in Nat /\ (most + 14) + 7 = more
      /\ most + 7 <= 65528 /\ most + 14 <= 65528
  OBVIOUS
<1>3. Holds(a, tag, A, most + 7)
  BY <1>1, <1>2, AskingHeld
<1>4. Holds(b, tag, B, most + 14)
  BY <1>1, <1>2, <1>3, AskingHeld
<1>5. Holds(q, tag, With(B, u, 0), more)
  BY <1>1, <1>2, <1>4, AskingHeld
<1> QED BY <1>5 DEF With3

LEMMA ModuleHeld ==
  ASSUME NEW c
  PROVE  /\ Holds(BatContainer(c), "BAT_REQ_DATA", Leaf("BAT_INDEX", c.batIndex), 9)
         /\ Holds(PviContainer(c), "PVI_REQ_DATA", Leaf("PVI_INDEX", c.batIndex), 9)
<1>1. ASSUME NEW tag, NEW t, NEW x
      PROVE  Holds(AppendValue(CreateContainerValue(tag), Data(t, 2, x)), tag, Leaf(t, x), 9)
  <2> DEFINE r == CreateContainerValue(tag)
             q == AppendValue(r, Data(t, 2, x))
  <2>1. Holds(r, tag, {}, 0)
    BY NothingHeld
  <2>2. Appends(q, r, t, 2, x)
    BY DEF Appends
  <2>3. With({}, t, x) = Leaf(t, x)
    BY DEF With
  <2> HIDE DEF r, q
  <2>4. Holds(q, tag, With({}, t, x), 9)
    BY <2>1, <2>2, HoldsTo
  <2> QED BY <2>3, <2>4 DEF r, q
<1> QED BY <1>1 DEF BatContainer, PviContainer

\* What one value is asked in, for the battery and for the inverters.
LEMMA AskedListed ==
  ASSUME NEW w, NEW tag, NEW index, Holds(w, tag, index, 9), NEW t
  PROVE  Lists(AppendContainer(Root, Asking(w, t)), Part(tag, 0, index \cup Leaf(t, 0)), 23)
<1> DEFINE v == Asking(w, t)
           q == AppendContainer(Root, v)
           leaves == With(index, t, 0)
<1>1. Lists(Root, {}, 0)
  BY NothingHeld
<1>2. Asks(v, w, t) /\ Extends(q, Root, v)
  BY DEF Asks, Extends
<1>3. Listing({}, tag, leaves) = Part(tag, 0, index \cup Leaf(t, 0))
  BY DEF Listing, With
<1> HIDE DEF v, q
<1>4. Holds(v, tag, leaves, 16)
  BY <1>2, AskingHeld
<1>5. Lists(q, Listing({}, tag, leaves), 23)
  BY <1>1, <1>2, <1>4, ListsTo
<1> QED BY <1>3, <1>5 DEF q, v

LEMMA ReadListed ==
  ASSUME NEW c, c.werteAbfragen \in BOOLEAN
  PROVE  Lists(ReadPart(c, Root), ReadSays(c), 23)
<1> DEFINE t == c.leseTag
<1>1. Lists(Root, {}, 0)
  BY NothingHeld
<1>2. CASE ~c.werteAbfragen
  <2>1. ReadPart(c, Root) = Root /\ ReadSays(c) = {}
    BY <1>2 DEF ReadPart, ReadSays
  <2>2. Lists(Root, {}, 23)
    BY <1>1, ListsLess
  <2> QED BY <2>1, <2>2
<1>3. CASE c.werteAbfragen /\ ReadKind(t) = "bat"
  <2>1. ReadPart(c, Root) = AppendContainer(Root, Asking(BatContainer(c), t))
    BY <1>3 DEF ReadPart
  <2>2. ReadSays(c) = Part("BAT_REQ_DATA", 0, Leaf("BAT_INDEX", c.batIndex) \cup Leaf(t, 0))
    BY <1>3 DEF ReadSays
  <2>3. Lists(AppendContainer(Root, Asking(BatContainer(c), t)),
              Part("BAT_REQ_DATA", 0, Leaf("BAT_INDEX", c.batIndex) \cup Leaf(t, 0)), 23)
    BY ModuleHeld, AskedListed
  <2> QED BY <2>1, <2>2, <2>3
<1>4. CASE c.werteAbfragen /\ ReadKind(t) = "pvi"
  <2>1. ReadPart(c, Root) = AppendContainer(Root, Asking(PviContainer(c), t))
    BY <1>4 DEF ReadPart
  <2>2. ReadSays(c) = Part("PVI_REQ_DATA", 0, Leaf("PVI_INDEX", c.batIndex) \cup Leaf(t, 0))
    BY <1>4 DEF ReadSays
  <2>3. Lists(AppendContainer(Root, Asking(PviContainer(c), t)),
              Part("PVI_REQ_DATA", 0, Leaf("PVI_INDEX", c.batIndex) \cup Leaf(t, 0)), 23)
    BY ModuleHeld, AskedListed
  <2> QED BY <2>1, <2>2, <2>3
<1>5. CASE c.werteAbfragen /\ ReadKind(t) = "plain"
  <2> DEFINE q == AppendValue(Root, Data(t, 0, 0))
  <2>1. Appends(q, Root, t, 0, 0)
    BY DEF Appends
  <2>2. ReadPart(c, Root) = q /\ ReadSays(c) = ListingData({}, t, 0)
    BY <1>5 DEF ReadPart, ReadSays, Asking, ListingData
  <2> HIDE DEF q, t
  <2>3. Lists(q, ListingData({}, t, 0), 7)
    BY <1>1, <2>1, DataTo
  <2>4. Lists(q, ListingData({}, t, 0), 23)
    BY <2>3, ListsLess
  <2> QED BY <2>2, <2>4
<1>6. ReadKind(t) \in {"bat", "pvi", "plain"}
  BY DEF ReadKind
<1> QED BY <1>2, <1>3, <1>4, <1>5, <1>6

LEMMA FirstDumpHeld ==
  ASSUME NEW c
  PROVE  Holds(FirstDumpContainer(c), "BAT_REQ_DATA",
               Leaf("BAT_INDEX", c.batIndex) \cup {[tag |-> t, content |-> 0] : t \in ModuleTags}, 72)
<1> DEFINE index == Leaf("BAT_INDEX", c.batIndex)
           o == BatContainer(c)
           a == Asking3(o, "BAT_REQ_RSOC", "BAT_REQ_ASOC", "BAT_REQ_CHARGE_CYCLES")
           b == Asking3(a, "BAT_REQ_CURRENT", "BAT_REQ_MODULE_VOLTAGE", "BAT_REQ_MAX_BAT_VOLTAGE")
           d == Asking3(b, "BAT_REQ_STATUS_CODE", "BAT_REQ_ERROR_CODE", "BAT_REQ_DCB_COUNT")
           A == With3(index, "BAT_REQ_RSOC", "BAT_REQ_ASOC", "BAT_REQ_CHARGE_CYCLES")
           B == With3(A, "BAT_REQ_CURRENT", "BAT_REQ_MODULE_VOLTAGE", "BAT_REQ_MAX_BAT_VOLTAGE")
           D == With3(B, "BAT_REQ_STATUS_CODE", "BAT_REQ_ERROR_CODE", "BAT_REQ_DCB_COUNT")
<1>1. Holds(o, "BAT_REQ_DATA", index, 9)
  BY ModuleHeld
<1>2. FirstDumpContainer(c) = d
  BY DEF FirstDumpContainer
<1>3. D = index \cup {[tag |-> t, content |-> 0] : t \in ModuleTags}
  <2> HIDE DEF index
  <2> QED BY DEF ModuleTags, Leaf, With, With3
<1>4. /\ Asks3(a, o, "BAT_REQ_RSOC", "BAT_REQ_ASOC", "BAT_REQ_CHARGE_CYCLES")
      /\ Asks3(b, a, "BAT_REQ_CURRENT", "BAT_REQ_MODULE_VOLTAGE", "BAT_REQ_MAX_BAT_VOLTAGE")
      /\ Asks3(d, b, "BAT_REQ_STATUS_CODE", "BAT_REQ_ERROR_CODE", "BAT_REQ_DCB_COUNT")
  BY DEF Asks3
<1> HIDE DEF index, o, a, b, d
<1>5. Holds(a, "BAT_REQ_DATA", A, 30)
  BY <1>1, <1>4, Asking3Held
<1> HIDE DEF A
<1>6. Holds(b, "BAT_REQ_DATA", B, 51)
  BY <1>4, <1>5, Asking3Held
<1> HIDE DEF B
<1>7. Holds(d, "BAT_REQ_DATA", D, 72)
  BY <1>4, <1>6, Asking3Held
<1> HIDE DEF D
<1> QED BY <1>2, <1>3, <1>7 DEF index

LEMMA DcbHeld ==
  ASSUME NEW c, NEW dcb
  PROVE  Holds(DcbContainer(c, dcb), "BAT_REQ_DATA",
               Leaf("BAT_INDEX", c.batIndex) \cup Leaf("BAT_REQ_DCB_INFO", dcb), 17)
<1> DEFINE index == Leaf("BAT_INDEX", c.batIndex)
           o == BatContainer(c)
           v == DcbContainer(c, dcb)
<1>1. Holds(o, "BAT_REQ_DATA", index, 9)
  BY ModuleHeld
<1>2. Appends(v, o, "BAT_REQ_DCB_INFO", 1, dcb)
  BY DEF DcbContainer, Appends
<1> HIDE DEF o, v, index
<1>3. Holds(v, "BAT_REQ_DATA", With(index, "BAT_REQ_DCB_INFO", dcb), 17)
  BY <1>1, <1>2, HoldsTo
<1> QED BY <1>3 DEF With, v, index

\* A container that is added under a condition.
ExtendsIf(condition, q, r, v) == q = AppendContainerIf(condition, r, v)
ListingIf(condition, parts, tag, leaves) == parts \cup If(condition, Part(tag, 0, leaves))

LEMMA ListsIf ==
  ASSUME NEW r, NEW parts, NEW most \in Nat, Lists(r, parts, most), NEW condition \in BOOLEAN,
         NEW v, NEW tag, NEW leaves, NEW n \in Nat, Holds(v, tag, leaves, n),
         NEW q, ExtendsIf(condition, q, r, v), NEW more \in Nat, most + 7 + n = more, more <= 65528
  PROVE  Lists(q, ListingIf(condition, parts, tag, leaves), more)
<1>1. CASE condition
  <2>1. Extends(q, r, v) /\ ListingIf(condition, parts, tag, leaves) = Listing(parts, tag, leaves)
    BY <1>1 DEF Extends, ExtendsIf, AppendContainerIf, Listing, ListingIf, If
  <2>2. Lists(q, Listing(parts, tag, leaves), more)
    BY <2>1, ListsTo
  <2> QED BY <2>1, <2>2
<1>2. CASE ~condition
  <2>1. q = r /\ ListingIf(condition, parts, tag, leaves) = parts
    BY <1>2 DEF ExtendsIf, AppendContainerIf, ListingIf, If
  <2>2. most <= more
    OBVIOUS
  <2>3. Lists(r, parts, more)
    BY <2>2, ListsLess
  <2> QED BY <2>1, <2>3
<1> QED BY <1>1, <1>2

LEMMA DumpListed ==
  ASSUME NEW c, c.modulInfoDump \in BOOLEAN, NEW r, NEW parts, Lists(r, parts, 23), NEW dcb
  PROVE  Lists(DumpPart(c, dcb, r), parts \cup DumpSays(c, dcb), 102)
<1> DEFINE f == c.modulInfoDump
           v == IF dcb = None THEN FirstDumpContainer(c) ELSE DcbContainer(c, dcb)
           leaves == IF dcb = None
                     THEN Leaf("BAT_INDEX", c.batIndex) \cup {[tag |-> t, content |-> 0] : t \in ModuleTags}
                     ELSE Leaf("BAT_INDEX", c.batIndex) \cup Leaf("BAT_REQ_DCB_INFO", dcb)
           q == DumpPart(c, dcb, r)
<1>1. ExtendsIf(f, q, r, v)
  BY DEF ExtendsIf, DumpPart, AppendContainerIf
<1>2. parts \cup DumpSays(c, dcb) = ListingIf(f, parts, "BAT_REQ_DATA", leaves)
  BY DEF DumpSays, ListingIf, FirstDumpSays, DcbSays
<1>3. Holds(v, "BAT_REQ_DATA", leaves, 72)
  <2>1. CASE dcb = None
    BY <2>1, FirstDumpHeld
  <2>2. CASE dcb # None
    <3>1. Holds(DcbContainer(c, dcb), "BAT_REQ_DATA",
                Leaf("BAT_INDEX", c.batIndex) \cup Leaf("BAT_REQ_DCB_INFO", dcb), 72)
      BY DcbHeld, HoldsLess
    <3> QED BY <2>2, <3>1
  <2> QED BY <2>1, <2>2
<1>4. f \in BOOLEAN
  OBVIOUS
<1> HIDE DEF f, q, v, leaves
<1>5. Lists(q, ListingIf(f, parts, "BAT_REQ_DATA", leaves), 102)
  BY <1>1, <1>3, <1>4, ListsIf
<1> QED BY <1>2, <1>5 DEF q

\* The leaves of the history container.
HistoryLeaves(c, now) ==
  Leaf("DB_REQ_HISTORY_TIME_START",
       dateToTimestamp(DateMeant(c, now), c.historieTyp, IsdstMeant(c, now))) \cup
  Leaf("DB_REQ_HISTORY_TIME_INTERVAL", HistoryInterval(c.historieTyp)) \cup
  Leaf("DB_REQ_HISTORY_TIME_SPAN", HistorySpan(DateMeant(c, now), c.historieTyp))

LEMMA HistoryHeld ==
  ASSUME NEW c, NEW now
  PROVE  Holds(HistoryContainer(c, now), HistoryTag(c.historieTyp), HistoryLeaves(c, now), 37)
<1> DEFINE t == HistoryTag(c.historieTyp)
           x == dateToTimestamp(DateMeant(c, now), c.historieTyp, IsdstMeant(c, now))
           y == HistoryInterval(c.historieTyp)
           z == HistorySpan(DateMeant(c, now), c.historieTyp)
           o == CreateContainerValue(t)
           a == AppendValue(o, Data("DB_REQ_HISTORY_TIME_START", 8, x))
           b == AppendValue(a, Data("DB_REQ_HISTORY_TIME_INTERVAL", 4, y))
           d == AppendValue(b, Data("DB_REQ_HISTORY_TIME_SPAN", 4, z))
           A == With({}, "DB_REQ_HISTORY_TIME_START", x)
           B == With(A, "DB_REQ_HISTORY_TIME_INTERVAL", y)
           D == With(B, "DB_REQ_HISTORY_TIME_SPAN", z)
<1>1. HistoryContainer(c, now) = d
  BY DEF HistoryContainer
<1>2. D = HistoryLeaves(c, now)
  BY DEF HistoryLeaves, With
<1>3. Holds(o, t, {}, 0)
  BY NothingHeld
<1> HIDE DEF x, y, z
<1>4. /\ Appends(a, o, "DB_REQ_HISTORY_TIME_START", 8, x)
      /\ Appends(b, a, "DB_REQ_HISTORY_TIME_INTERVAL", 4, y)
      /\ Appends(d, b, "DB_REQ_HISTORY_TIME_SPAN", 4, z)
  BY DEF Appends
<1> HIDE DEF o, t, a, b, d
<1>5. Holds(a, t, A, 15)
  BY <1>3, <1>4, HoldsTo
<1>6. Holds(b, t, B, 26)
  BY <1>4, <1>5, HoldsTo
<1>7. Holds(d, t, D, 37)
  BY <1>4, <1>6, HoldsTo
<1> QED BY <1>1, <1>2, <1>7 DEF t

LEMMA HistoryListed ==
  ASSUME NEW c, c.historieAbfrage \in BOOLEAN, NEW r, NEW parts, Lists(r, parts, 102), NEW now
  PROVE  Lists(AppendContainerIf(c.historieAbfrage, r, HistoryContainer(c, now)),
               parts \cup HistorySays(c, now), 146)
<1> DEFINE f == c.historieAbfrage
           leaves == HistoryLeaves(c, now)
           t == HistoryTag(c.historieTyp)
           v == HistoryContainer(c, now)
           q == AppendContainerIf(f, r, v)
<1>1. Holds(v, t, leaves, 37)
  BY HistoryHeld
<1>2. parts \cup HistorySays(c, now) = ListingIf(f, parts, t, leaves)
  BY DEF HistorySays, HistoryLeaves, ListingIf
<1>3. ExtendsIf(f, q, r, v) /\ f \in BOOLEAN
  BY DEF ExtendsIf
<1> HIDE DEF f, leaves, t, v, q
<1>4. Lists(q, ListingIf(f, parts, t, leaves), 146)
  BY <1>1, <1>3, ListsIf
<1> QED BY <1>2, <1>4 DEF q, f, v

LEMMA InfoListed ==
  ASSUME NEW c, c.sysInfoAbfrage \in BOOLEAN, NEW r, NEW parts, Lists(r, parts, 146)
  PROVE  Lists(InfoPart(c, r), parts \cup InfoSays(c), 167)
<1> DEFINE a == Asking(r, "INFO_REQ_SERIAL_NUMBER")
           b == Asking(a, "INFO_REQ_PRODUCTION_DATE")
           d == Asking(b, "INFO_REQ_SW_RELEASE")
           A == ListingData(parts, "INFO_REQ_SERIAL_NUMBER", 0)
           B == ListingData(A, "INFO_REQ_PRODUCTION_DATE", 0)
           D == ListingData(B, "INFO_REQ_SW_RELEASE", 0)
<1>1. CASE c.sysInfoAbfrage
  <2>1. InfoPart(c, r) = d /\ parts \cup InfoSays(c) = D
    BY <1>1 DEF InfoPart, InfoSays, If, Asking3, ListingData
  <2>2. /\ Appends(a, r, "INFO_REQ_SERIAL_NUMBER", 0, 0)
        /\ Appends(b, a, "INFO_REQ_PRODUCTION_DATE", 0, 0)
        /\ Appends(d, b, "INFO_REQ_SW_RELEASE", 0, 0)
    BY DEF Appends, Asking
  <2> HIDE DEF a, b, d
  <2>3. Lists(a, A, 153)
    BY <2>2, DataTo
  <2>4. Lists(b, B, 160)
    BY <2>2, <2>3, DataTo
  <2>5. Lists(d, D, 167)
    BY <2>2, <2>4, DataTo
  <2> QED BY <2>1, <2>5
<1>2. CASE ~c.sysInfoAbfrage
  <2>1. InfoPart(c, r) = r /\ parts \cup InfoSays(c) = parts
    BY <1>2 DEF InfoPart, InfoSays, If
  <2>2. Lists(r, parts, 167)
    BY ListsLess
  <2> QED BY <2>1, <2>2
<1> QED BY <1>1, <1>2

LEMMA ChargeListed ==
  ASSUME NEW c, c.manuelleSpeicherladung \in BOOLEAN, NEW r, NEW parts, Lists(r, parts, 167)
  PROVE  Lists(AppendIf(c.manuelleSpeicherladung, r, Data("EMS_REQ_START_MANUAL_CHARGE", 4, c.ladungsMenge)),
               parts \cup ChargeSays(c), 178)
<1> DEFINE f == c.manuelleSpeicherladung
           x == c.ladungsMenge
           q == AppendIf(f, r, Data("EMS_REQ_START_MANUAL_CHARGE", 4, x))
<1>1. CASE f
  <2>1. Appends(q, r, "EMS_REQ_START_MANUAL_CHARGE", 4, x)
    BY <1>1 DEF Appends, AppendIf
  <2>2. parts \cup ChargeSays(c) = ListingData(parts, "EMS_REQ_START_MANUAL_CHARGE", x)
    BY <1>1 DEF ChargeSays, If, ListingData
  <2> HIDE DEF q, x
  <2>3. Lists(q, ListingData(parts, "EMS_REQ_START_MANUAL_CHARGE", x), 178)
    BY <2>1, DataTo
  <2> QED BY <2>2, <2>3 DEF q, x
<1>2. CASE ~f
  <2>1. q = r /\ parts \cup ChargeSays(c) = parts
    BY <1>2 DEF AppendIf, ChargeSays, If
  <2>2. Lists(r, parts, 178)
    BY ListsLess
  <2> QED BY <2>1, <2>2
<1> QED BY <1>1, <1>2

\* An element that is appended under a condition.
AppendsIf(condition, q, r, t, n, x) == q = AppendIf(condition, r, Data(t, n, x))

WithIf(condition, leaves, t, x) == leaves \cup If(condition, Leaf(t, x))

LEMMA HoldsIf ==
  ASSUME NEW r, NEW tag, NEW leaves, NEW most \in Nat, Holds(r, tag, leaves, most),
         NEW condition \in BOOLEAN,
         NEW q, NEW t, NEW n \in Nat, NEW x, AppendsIf(condition, q, r, t, n, x),
         NEW more \in Nat, most + 7 + n = more, more <= 65528
  PROVE  Holds(q, tag, WithIf(condition, leaves, t, x), more)
<1>1. CASE condition
  <2>1. Appends(q, r, t, n, x) /\ WithIf(condition, leaves, t, x) = With(leaves, t, x)
    BY <1>1 DEF Appends, AppendsIf, AppendIf, If, With, WithIf
  <2>2. Holds(q, tag, With(leaves, t, x), more)
    BY <2>1, HoldsTo
  <2> QED BY <2>1, <2>2
<1>2. CASE ~condition
  <2>1. q = r /\ WithIf(condition, leaves, t, x) = leaves
    BY <1>2 DEF AppendsIf, AppendIf, If, WithIf
  <2>2. most <= more
    OBVIOUS
  <2>3. Holds(r, tag, leaves, more)
    BY <2>2, HoldsLess
  <2> QED BY <2>1, <2>3
<1> QED BY <1>1, <1>2

LEMMA PowerHeld ==
  ASSUME NEW c, c.automatischLeistungEinstellen \in BOOLEAN,
         c.ladeLeistungGesetzt \in BOOLEAN, c.entladeLeistungGesetzt \in BOOLEAN
  PROVE  Holds(PMContainer(c), "EMS_REQ_SET_POWER_SETTINGS", PowerLeaves(c), 38)
<1> DEFINE t == "EMS_REQ_SET_POWER_SETTINGS"
           f == c.automatischLeistungEinstellen
           g == c.ladeLeistungGesetzt
           h == c.entladeLeistungGesetzt
           lim == g \/ h
           x == c.ladeLeistung
           y == c.entladeLeistung
           o == CreateContainerValue(t)
           a == AppendIf(f, o, Data("EMS_POWER_LIMITS_USED", 1, 0))
           b == AppendIf(lim, a, Data("EMS_POWER_LIMITS_USED", 1, 1))
           d == AppendIf(g, b, Data("EMS_MAX_CHARGE_POWER", 4, x))
           e == AppendIf(h, d, Data("EMS_MAX_DISCHARGE_POWER", 4, y))
           A == WithIf(f, {}, "EMS_POWER_LIMITS_USED", 0)
           B == WithIf(lim, A, "EMS_POWER_LIMITS_USED", 1)
           D == WithIf(g, B, "EMS_MAX_CHARGE_POWER", x)
           E == WithIf(h, D, "EMS_MAX_DISCHARGE_POWER", y)
<1>1. PMContainer(c) = e
  BY DEF PMContainer
<1>2. PowerLeaves(c) = E
  BY DEF PowerLeaves, WithIf
<1>3. Holds(o, t, {}, 0)
  BY NothingHeld
<1>4. f \in BOOLEAN /\ g \in BOOLEAN /\ h \in BOOLEAN /\ lim \in BOOLEAN
  OBVIOUS
<1> HIDE DEF f, g, h, lim, x, y, o, t
<1>5. /\ AppendsIf(f, a, o, "EMS_POWER_LIMITS_USED", 1, 0)
      /\ AppendsIf(lim, b, a, "EMS_POWER_LIMITS_USED", 1, 1)
      /\ AppendsIf(g, d, b, "EMS_MAX_CHARGE_POWER", 4, x)
      /\ AppendsIf(h, e, d, "EMS_MAX_DISCHARGE_POWER", 4, y)
  BY DEF AppendsIf
<1> HIDE DEF a, b, d, e
<1>6. Holds(a, t, A, 8)
  BY <1>3, <1>4, <1>5, HoldsIf
<1>7. Holds(b, t, B, 16)
  BY <1>4, <1>5, <1>6, HoldsIf
<1>8. Holds(d, t, D, 27)
  BY <1>4, <1>5, <1>7, HoldsIf
<1>9. Holds(e, t, E, 38)
  BY <1>4, <1>5, <1>8, HoldsIf
<1> QED BY <1>1, <1>2, <1>9 DEF t

LEMMA ReserveHeld ==
  ASSUME NEW c
  PROVE  Holds(EpContainer(c), "EP_REQ_SET_EP_RESERVE",
               Leaf("EP_PARAM_INDEX", 0) \cup Leaf("EP_PARAM_EP_RESERVE_ENERGY", c.epReserveWh), 19)
<1> DEFINE t == "EP_REQ_SET_EP_RESERVE"
           x == c.epReserveWh
           o == CreateContainerValue(t)
           a == AppendValue(o, Data("EP_PARAM_INDEX", 1, 0))
           b == AppendValue(a, Data("EP_PARAM_EP_RESERVE_ENERGY", 4, x))
           A == With({}, "EP_PARAM_INDEX", 0)
           B == With(A, "EP_PARAM_EP_RESERVE_ENERGY", x)
<1>1. EpContainer(c) = b
  BY DEF EpContainer
<1>2. B = Leaf("EP_PARAM_INDEX", 0) \cup Leaf("EP_PARAM_EP_RESERVE_ENERGY", x)
  BY DEF With
<1>3. Holds(o, t, {}, 0)
  BY NothingHeld
<1>4. Appends(a, o, "EP_PARAM_INDEX", 1, 0) /\ Appends(b, a, "EP_PARAM_EP_RESERVE_ENERGY", 4, x)
  BY DEF Appends
<1> HIDE DEF o, t, x, a, b
<1>5. Holds(a, t, A, 8)
  BY <1>3, <1>4, HoldsTo
<1>6. Holds(b, t, B, 19)
  BY <1>4, <1>5, HoldsTo
<1> QED BY <1>1, <1>2, <1>6 DEF t, x

\* Whatever the context, all parts of a request fit into it, and a station that takes it
\* apart finds exactly them.
LEMMA CommandListed ==
  ASSUME NEW c, IsContext(c), NEW dcb, NEW now
  PROVE  Lists(CommandRoot(c, dcb, now), CommandSays(c, dcb, now), 249)
<1> DEFINE a == ReadPart(c, Root)
           b == DumpPart(c, dcb, a)
           d == AppendContainerIf(c.historieAbfrage, b, HistoryContainer(c, now))
           e == InfoPart(c, d)
           f == AppendIf(c.manuelleSpeicherladung, e,
                         Data("EMS_REQ_START_MANUAL_CHARGE", 4, c.ladungsMenge))
           g == AppendContainerIf(c.leistungAendern, f, PMContainer(c))
           h == AppendContainerIf(c.setEPReserve, g, EpContainer(c))
           A == ReadSays(c)
           B == A \cup DumpSays(c, dcb)
           D == B \cup HistorySays(c, now)
           E == D \cup InfoSays(c)
           F == E \cup ChargeSays(c)
           G == F \cup PowerSays(c)
           H == G \cup ReserveSays(c)
<1>1. CommandRoot(c, dcb, now) = h /\ CommandSays(c, dcb, now) = H
  BY DEF CommandRoot, CommandSays
<1>2. /\ c["werteAbfragen"] \in BOOLEAN /\ c["modulInfoDump"] \in BOOLEAN
      /\ c["historieAbfrage"] \in BOOLEAN /\ c["sysInfoAbfrage"] \in BOOLEAN
      /\ c["manuelleSpeicherladung"] \in BOOLEAN /\ c["leistungAendern"] \in BOOLEAN
      /\ c["setEPReserve"] \in BOOLEAN /\ c["automatischLeistungEinstellen"] \in BOOLEAN
      /\ c["ladeLeistungGesetzt"] \in BOOLEAN /\ c["entladeLeistungGesetzt"] \in BOOLEAN
  BY FieldNames DEF IsContext, ContextOK
<1>3. Lists(a, A, 23)
  BY <1>2, ReadListed
<1> HIDE DEF a, A
<1>4. Lists(b, B, 102)
  BY <1>2, <1>3, DumpListed
<1> HIDE DEF b, B
<1>5. Lists(d, D, 146)
  BY <1>2, <1>4, HistoryListed
<1> HIDE DEF d, D
<1>6. Lists(e, E, 167)
  BY <1>2, <1>5, InfoListed
<1> HIDE DEF e, E
<1>7. Lists(f, F, 178)
  BY <1>2, <1>6, ChargeListed
<1> HIDE DEF f, F
<1>8. Lists(g, G, 223)
  <2> DEFINE x == c.leistungAendern
             v == PMContainer(c)
             leaves == PowerLeaves(c)
  <2>1. Holds(v, "EMS_REQ_SET_POWER_SETTINGS", leaves, 38)
    BY <1>2, PowerHeld
  <2>2. G = ListingIf(x, F, "EMS_REQ_SET_POWER_SETTINGS", leaves)
    BY DEF PowerSays, ListingIf
  <2>3. ExtendsIf(x, g, f, v) /\ x \in BOOLEAN
    BY <1>2 DEF ExtendsIf
  <2> HIDE DEF g, v, x, leaves
  <2>4. Lists(g, ListingIf(x, F, "EMS_REQ_SET_POWER_SETTINGS", leaves), 223)
    BY <1>7, <2>1, <2>3, ListsIf
  <2> QED BY <2>2, <2>4
<1> HIDE DEF g, G
<1>9. Lists(h, H, 249)
  <2> DEFINE x == c.setEPReserve
             v == EpContainer(c)
             leaves == Leaf("EP_PARAM_INDEX", 0) \cup Leaf("EP_PARAM_EP_RESERVE_ENERGY", c.epReserveWh)
  <2>1. Holds(v, "EP_REQ_SET_EP_RESERVE", leaves, 19)
    BY ReserveHeld
  <2>2. H = ListingIf(x, G, "EP_REQ_SET_EP_RESERVE", leaves)
    BY DEF ReserveSays, ListingIf
  <2>3. ExtendsIf(x, h, g, v) /\ x \in BOOLEAN
    BY <1>2 DEF ExtendsIf
  <2> HIDE DEF h, v, x, leaves
  <2>4. Lists(h, ListingIf(x, G, "EP_REQ_SET_EP_RESERVE", leaves), 249)
    BY <1>8, <2>1, <2>3, ListsIf
  <2> QED BY <2>2, <2>4
<1> HIDE DEF h, H
<1> QED BY <1>1, <1>9

-----------------------------------------------------------------------------
(* The invariant: the context is what was said, the frame what the context says *)

LEMMA LastOfOne ==
  ASSUME NEW s, NEW A, NEW B, ~GivenIn(s, B)
  PROVE  LastOf(s, A \cup B) = LastOf(s, A) /\ (GivenIn(s, A \cup B) <=> GivenIn(s, A))
<1>1. \A i \in DOMAIN s : s[i].opt \in A \cup B <=> s[i].opt \in A
  BY DEF GivenIn
<1>2. GivenIn(s, A \cup B) <=> GivenIn(s, A)
  BY <1>1 DEF GivenIn
<1>3. \A i : i \in DOMAIN s /\ IsLast(s, A \cup B, i) <=> i \in DOMAIN s /\ IsLast(s, A, i)
  BY <1>1 DEF IsLast
<1> DEFINE x == CHOOSE i : i \in DOMAIN s /\ IsLast(s, A \cup B, i)
           y == CHOOSE i : i \in DOMAIN s /\ IsLast(s, A, i)
<1>4. x = y
  BY <1>3
<1>5. LastOf(s, A \cup B) = s[x] /\ LastOf(s, A) = s[y]
  BY DEF LastOf
<1> HIDE DEF x, y
<1> QED BY <1>2, <1>4, <1>5

\* The tag that counts, where -r is not given both ways, and the date, filled in.
TagSettled(s, c) ==
  GivenIn(s, {"r", "r name"}) /\ ~(GivenIn(s, {"r"}) /\ GivenIn(s, {"r name"}))
    => c.leseTag = LastOf(s, {"r", "r name"}).s

DateSettled(c) == c.historieAbfrage => c.historieDatum \in {"today", "date"}

Untouched == Fields \ {"leseTag", "tagName", "historieDatum"}

LEMMA LookedDated ==
  ASSUME IsContext(g_ctx)
  PROVE  /\ \A f \in Untouched : Dated(Looked)[f] = g_ctx[f]
         /\ Dated(Looked).leseTag = IF LooksUpName THEN g_ctx.tagName ELSE g_ctx.leseTag
         /\ Dated(Looked).historieDatum = IF g_ctx.historieAbfrage /\ g_ctx.historieDatum = "none"
                                          THEN "today" ELSE g_ctx.historieDatum
<1> DEFINE c == g_ctx
           a == [[c EXCEPT !["leseTag"] = c.tagName] EXCEPT !["tagName"] = NoTag]
           b == Looked
           e == [b EXCEPT !["historieDatum"] = "today"]
           d == Dated(b)
<1>1. DOMAIN c = Fields /\ {"leseTag", "tagName", "historieDatum", "historieAbfrage"} \subseteq Fields
  BY FieldNames DEF IsContext, Fields
<1>2. /\ DOMAIN b = Fields
      /\ \A f \in Fields : f \notin {"leseTag", "tagName"} => b[f] = c[f]
      /\ b["leseTag"] = IF LooksUpName THEN c["tagName"] ELSE c["leseTag"]
  <2>1. CASE LooksUpName
    <3>1. b = a
      BY <2>1 DEF Looked
    <3>2. DOMAIN a = DOMAIN c /\ \A f \in DOMAIN c : a[f] = IF f = "tagName" THEN NoTag ELSE IF f = "leseTag" THEN c.tagName ELSE c[f]
      BY PutTwo
    <3> HIDE DEF a, b
    <3> QED BY <3>1, <3>2, <2>1, <1>1
  <2>2. CASE ~LooksUpName
    <3>1. b = c
      BY <2>2 DEF Looked
    <3> QED BY <3>1, <2>2, <1>1
  <2> QED BY <2>1, <2>2
<1>3. b["historieAbfrage"] = c["historieAbfrage"] /\ b["historieDatum"] = c["historieDatum"]
  BY <1>1, <1>2
<1> HIDE DEF b
<1>4. /\ \A f \in Fields : f # "historieDatum" => d[f] = b[f]
      /\ d["historieDatum"] = IF b["historieAbfrage"] /\ b["historieDatum"] = "none"
                              THEN "today" ELSE b["historieDatum"]
  <2>1. CASE b.historieAbfrage /\ b.historieDatum = "none"
    <3>1. d = e
      BY <2>1 DEF Dated
    <3>2. \A f \in DOMAIN b : e[f] = IF f = "historieDatum" THEN "today" ELSE b[f]
      BY Put
    <3> HIDE DEF d, e
    <3> QED BY <3>1, <3>2, <2>1, <1>1, <1>2
  <2>2. CASE ~(b.historieAbfrage /\ b.historieDatum = "none")
    <3>1. d = b
      BY <2>2 DEF Dated
    <3> QED BY <3>1, <2>2
  <2> QED BY <2>1, <2>2
<1> HIDE DEF d
<1>5. d["leseTag"] = b["leseTag"]
  BY <1>1, <1>4
<1>6. \A f \in Untouched : d[f] = c[f]
  BY <1>2, <1>4 DEF Untouched
<1> QED BY <1>2, <1>3, <1>4, <1>5, <1>6 DEF d, b

LEMMA HeardStays ==
  ASSUME NEW s, NEW c, NEW d, Heard(s, c), \A f \in Untouched : d[f] = c[f]
  PROVE  Heard(s, d)
<1>1. EffectFields \ {"leseTag", "tagName", "historieDatum"} \subseteq Untouched
  BY DEF EffectFields, Untouched, Fields, Flags, Words, Uint32Fields, Uint16Fields, FloatFields, IntFields
<1>2. \A f \in EffectFields \ {"leseTag", "tagName", "historieDatum"} : d[f] = c[f]
  BY <1>1
<1>3. HeardFlags(s, d)
  BY <1>2 DEF Heard, HeardFlags, EffectFields
<1>4. HeardNumbers(s, d)
  BY <1>2 DEF Heard, HeardNumbers, EffectFields
<1> QED BY <1>3, <1>4 DEF Heard

\* What counts once the options are read.
LEMMA Settling ==
  ASSUME IsContext(g_ctx), Heard(argv, g_ctx), HeardTags(argv, g_ctx),
         g_ctx.historieDatum \in {"none", "today", "malformed", "date"},
         checkArgumentsEarly(Looked)
  PROVE  /\ Heard(argv, Dated(Looked))
         /\ TagSettled(argv, Dated(Looked))
         /\ DateSettled(Dated(Looked))
         /\ Dated(Looked).historieDatum \in {"none", "today", "malformed", "date"}
<1> DEFINE c == g_ctx
           d == Dated(Looked)
<1>1. /\ \A f \in Untouched : d[f] = c[f]
      /\ d.leseTag = IF LooksUpName THEN c.tagName ELSE c.leseTag
      /\ d.historieDatum = IF c.historieAbfrage /\ c.historieDatum = "none"
                           THEN "today" ELSE c.historieDatum
  BY LookedDated
<1>2. checkArgumentsEarly(d)
  <2>1. IsContext(Looked)
    BY LookedKeeps DEF Keeps
  <2> QED BY <2>1, DatedPasses
<1> HIDE DEF d
<1>3. Heard(argv, d)
  BY <1>1, HeardStays
<1>4. d["historieAbfrage"] = c["historieAbfrage"]
  BY <1>1 DEF Untouched, Fields, Flags
<1>5. DateSettled(d)
  BY <1>1, <1>2, <1>4 DEF DateSettled, checkArgumentsEarly, DateAccepted
<1>6. TagSettled(argv, d)
  <2> SUFFICES ASSUME GivenIn(argv, {"r", "r name"}),
                      ~(GivenIn(argv, {"r"}) /\ GivenIn(argv, {"r name"}))
               PROVE  d.leseTag = LastOf(argv, {"r", "r name"}).s
    BY DEF TagSettled
  <2>1. /\ ~GivenIn(argv, {"r name"}) => LastOf(argv, {"r", "r name"}) = LastOf(argv, {"r"})
                                          /\ GivenIn(argv, {"r"})
        /\ ~GivenIn(argv, {"r"}) => LastOf(argv, {"r", "r name"}) = LastOf(argv, {"r name"})
                                     /\ GivenIn(argv, {"r name"})
    <3> DEFINE A == {"r"}
               B == {"r name"}
               C == {"r", "r name"}
    <3>1. C = A \cup B /\ C = B \cup A
      OBVIOUS
    <3>2. GivenIn(argv, C)
      OBVIOUS
    <3> HIDE DEF A, B, C
    <3>3. ~GivenIn(argv, B) => LastOf(argv, A \cup B) = LastOf(argv, A) /\ (GivenIn(argv, A \cup B) <=> GivenIn(argv, A))
      BY LastOfOne
    <3>4. ~GivenIn(argv, A) => LastOf(argv, B \cup A) = LastOf(argv, B) /\ (GivenIn(argv, B \cup A) <=> GivenIn(argv, B))
      BY LastOfOne
    <3>5. /\ ~GivenIn(argv, B) => LastOf(argv, C) = LastOf(argv, A) /\ GivenIn(argv, A)
          /\ ~GivenIn(argv, A) => LastOf(argv, C) = LastOf(argv, B) /\ GivenIn(argv, B)
      BY <3>1, <3>2, <3>3, <3>4
    <3> QED BY <3>5 DEF A, B, C
  <2>2. c.werteAbfragen
    BY DEF Heard, HeardFlags
  <2>3. CASE ~GivenIn(argv, {"r name"})
    <3>1. LastOf(argv, {"r", "r name"}) = LastOf(argv, {"r"}) /\ GivenIn(argv, {"r"})
      BY <2>1, <2>3
    <3>2. c.leseTag = LastOf(argv, {"r"}).s /\ c.tagName = NoTag
      BY <2>3, <3>1 DEF HeardTags
    <3> QED BY <1>1, <3>1, <3>2 DEF LooksUpName
  <2>4. CASE ~GivenIn(argv, {"r"})
    <3>1. LastOf(argv, {"r", "r name"}) = LastOf(argv, {"r name"}) /\ GivenIn(argv, {"r name"})
      BY <2>1, <2>4
    <3>2. c.leseTag = NoTag /\ c.tagName = LastOf(argv, {"r name"}).s
      BY <2>4, <3>1 DEF HeardTags
    <3> QED BY <1>1, <2>2, <3>1, <3>2 DEF LooksUpName
  <2> QED BY <2>3, <2>4
<1>7. d.historieDatum \in {"none", "today", "malformed", "date"}
  BY <1>1
<1> QED BY <1>3, <1>5, <1>6, <1>7 DEF d

Settled == {"config", "limits", "connect", "login", "command", "sent"}

\* Of what the frame was built.
LoginFrame   == frame = CreateFrameAsBuffer(AppendContainer(Root, AuthenContainer))
CommandFrame(c, dcb) == (dcb # None => c.modulInfoDump)
                          /\ frame = CreateFrameAsBuffer(CommandRoot(c, dcb, asOf))

Configured(config) ==
  \E f \in ConfigFiles : CopiesAll(f) /\ Complete(ConfigOf(f)) /\ config = ConfigOf(f)

Requests ==
  /\ Heard(argv, g_ctx)
  /\ pc = "options" => HeardTags(argv, g_ctx)
  /\ g_ctx.historieDatum \in {"none", "today", "malformed", "date"}
  /\ pc \in Settled => TagSettled(argv, g_ctx) /\ DateSettled(g_ctx)
  /\ pc \in Settled \ {"config"} => Configured(e3dc_config)
  /\ pc = "command" => LoginFrame
  /\ pc = "sent" => asOf \in Moments /\ \E dcb \in {None} \cup DcbIndices : CommandFrame(g_ctx, dcb)

LEMMA RequestsInit == Init => Requests
<1> SUFFICES ASSUME Init PROVE Requests
  OBVIOUS
<1>1. argv = <<>> /\ pc = "options" /\ g_ctx = InitialContext
  BY DEF Init
<1>2. Heard(argv, g_ctx) /\ HeardTags(argv, g_ctx)
  BY <1>1, HeardAtFirst
<1>3. g_ctx["historieDatum"] = NoTag
  <2>1. "historieDatum" \in Words /\ "historieDatum" \in Fields /\ "historieDatum" \notin Flags
    BY DEF Fields, Words, Flags
  <2> QED BY <2>1, <1>1 DEF InitialContext
<1>4. g_ctx.historieDatum = "none"
  BY <1>3 DEF NoTag
<1> QED BY <1>1, <1>2, <1>4 DEF Requests, Settled

LEMMA RequestsNext == Inv /\ Requests /\ [Next]_vars => Requests'
<1> SUFFICES ASSUME Inv, Requests, [Next]_vars PROVE Requests'
  OBVIOUS
<1>0. IsContext(g_ctx) /\ argv \in Seq(Options)
  BY DEF Inv, Typed
\* Where the program goes on, or ends, with what it has.
<1>1. ASSUME UNCHANGED <<argv, g_ctx>>, pc' # "options",
             pc' \in Settled => pc \in Settled,
             pc' \in Settled \ {"config"} => Configured(e3dc_config)',
             pc' = "command" => LoginFrame',
             pc' = "sent" => asOf' \in Moments /\ \E dcb \in {None} \cup DcbIndices : CommandFrame(g_ctx, dcb)'
      PROVE  Requests'
  BY <1>1 DEF Requests
<1>2. ASSUME NEW o \in Options, ReadOption(o) PROVE Requests'
  <2>1. /\ pc = "options" /\ argv' = Append(argv, o) /\ g_ctx' = SetOption(g_ctx, o)
        /\ pc' \in {"exit", "options"}
    BY <1>2 DEF ReadOption
  <2>2. Heard(argv', g_ctx') /\ HeardTags(argv', g_ctx')
    BY <2>1, <1>0, HeardNext DEF Requests
  <2>3. Stores(g_ctx, g_ctx', o)
    BY <2>1, <1>0, OptionEffect
  <2>4. g_ctx'.historieDatum \in {"none", "today", "malformed", "date"}
    BY <2>3, OptionsAssumption DEF Stores, Requests
  <2> QED BY <2>1, <2>2, <2>4 DEF Requests, Settled
<1>3. CASE ListTags
  BY <1>1, <1>3 DEF ListTags, Settled
<1>4. CASE EndOfOptions
  <2>1. /\ pc = "options" /\ pc' = "config" /\ g_ctx' = Dated(Looked) /\ argv' = argv
        /\ checkArgumentsEarly(Looked)
    BY <1>4 DEF EndOfOptions
  <2> DEFINE d == Dated(Looked)
  <2>2. /\ Heard(argv, d) /\ TagSettled(argv, d) /\ DateSettled(d)
        /\ d.historieDatum \in {"none", "today", "malformed", "date"}
    BY <2>1, <1>0, Settling DEF Requests
  <2> HIDE DEF d
  <2>3. g_ctx' = d
    BY <2>1 DEF d
  <2> QED BY <2>1, <2>2, <2>3 DEF Requests, Settled
<1>5. CASE EndsWithUsage
  BY <1>1, <1>5 DEF EndsWithUsage, Settled
<1>6. CASE readConfig
  <2>1. PICK f \in ConfigFiles : CopiesAll(f) /\ Complete(ConfigOf(f)) /\ e3dc_config' = ConfigOf(f)
    BY <1>6 DEF readConfig
  <2>2. Configured(e3dc_config)'
    BY <2>1 DEF Configured
  <2> QED BY <1>1, <1>6, <2>2 DEF readConfig, Settled
<1>7. CASE ConfigUnusable
  BY <1>1, <1>7 DEF ConfigUnusable, Settled
<1>8. ASSUME pc \in Settled \ {"config"}, UNCHANGED e3dc_config PROVE Configured(e3dc_config)'
  BY <1>8 DEF Requests, Configured
<1>9. CASE checkArguments
  <2>1. /\ pc = "limits" /\ pc' \in {"connect", "exit"} /\ UNCHANGED <<argv, g_ctx, e3dc_config>>
    BY <1>9 DEF checkArguments
  <2> QED BY <1>1, <1>8, <2>1 DEF Settled
<1>10. CASE connectToServer
  BY <1>1, <1>8, <1>10 DEF connectToServer, Settled
<1>11. CASE SendAuthentication
  <2>1. /\ pc = "login" /\ pc' = "command" /\ UNCHANGED <<argv, g_ctx, e3dc_config>>
        /\ frame' = CreateFrameAsBuffer(AppendContainer(Root, AuthenContainer))
    BY <1>11 DEF SendAuthentication
  <2>2. LoginFrame'
    BY <2>1 DEF LoginFrame, AuthenContainer
  <2> QED BY <1>1, <1>8, <2>1, <2>2 DEF Settled
<1>12. CASE SendCommand
  <2>1. PICK now \in Moments : frame' = CreateFrameAsBuffer(CommandRoot(g_ctx, None, now)) /\ asOf' = now
    BY <1>12 DEF SendCommand
  <2>2. pc = "command" /\ pc' = "sent" /\ UNCHANGED <<argv, g_ctx, e3dc_config>>
    BY <1>12 DEF SendCommand
  <2>3. asOf' \in Moments /\ CommandFrame(g_ctx, None)'
    BY <2>1, <2>2 DEF CommandFrame
  <2> QED BY <1>1, <1>8, <2>2, <2>3 DEF Settled
<1>13. CASE YearRefused
  BY <1>1, <1>13 DEF YearRefused, Settled
<1>14. CASE SendAgain
  <2>1. PICK now \in Moments, dcb \in {None} \cup DcbIndices :
          /\ dcb # None => g_ctx.modulInfoDump
          /\ frame' = CreateFrameAsBuffer(CommandRoot(g_ctx, dcb, now)) /\ asOf' = now
    BY <1>14 DEF SendAgain
  <2>2. pc = "sent" /\ pc' = "sent" /\ UNCHANGED <<argv, g_ctx, e3dc_config>>
    BY <1>14 DEF SendAgain
  <2>3. asOf' \in Moments /\ CommandFrame(g_ctx, dcb)'
    BY <2>1, <2>2 DEF CommandFrame
  <2> QED BY <1>1, <1>8, <2>2, <2>3 DEF Settled
<1>15. CASE UNCHANGED vars
  <2>1. UNCHANGED <<argv, pc, g_ctx, e3dc_config, frame, asOf>>
    BY <1>15 DEF vars
  <2>2. /\ pc = "command" => LoginFrame'
        /\ \A dcb : CommandFrame(g_ctx, dcb) => CommandFrame(g_ctx, dcb)'
        /\ Configured(e3dc_config) => Configured(e3dc_config)'
    BY <2>1 DEF LoginFrame, CommandFrame, AuthenContainer, Requests, Configured
  <2> QED BY <2>1, <2>2 DEF Requests
<1> QED BY <1>2, <1>3, <1>4, <1>5, <1>6, <1>7, <1>9, <1>10, <1>11, <1>12, <1>13, <1>14, <1>15 DEF Next

LEMMA RequestsAlways == Spec => [](Inv /\ Requests)
<1>1. Init => Inv /\ Requests
  BY InvInit, RequestsInit
<1>2. Inv /\ Requests /\ [Next]_vars => Inv' /\ Requests'
  BY InvNext, RequestsNext
<1> QED BY <1>1, <1>2, PTL DEF Spec

-----------------------------------------------------------------------------
(* Theorems *)

\* Whatever is read of a module is asked of the one named last, by -b or by -m: both
\* leave it in batIndex, no option behind or before them changes it, and every part of
\* a request that names a module takes it from there.
THEOREM OneModuleIsAsked == Spec => []OneModuleAsked
<1>1. ASSUME Inv, Requests PROVE OneModuleAsked
  <2>1. g_ctx.batIndex = ModuleAsked
    BY <1>1 DEF Requests, Heard, HeardNumbers, ModuleAsked, Given, GivenIn, Last, LastOf, IsLast
  <2> SUFFICES ASSUME NEW v \in Sent, v.tag \in {"BAT_INDEX", "PVI_INDEX"}, v.length > 0
               PROVE  v.content = g_ctx.batIndex
    BY <2>1 DEF OneModuleAsked
  <2>2. Permitted(g_ctx, v) /\ v.length # 0
    BY <1>1, SentMeans
  <2> QED BY <2>2 DEF Permitted, Sensitive, ControlTags
<1> QED BY <1>1, RequestsAlways, PTL

\* The values of a frame, taken apart, are the elements of its root, in their order.
LEMMA FrameValues ==
  ASSUME NEW root, Fits(root), frame = CreateFrameAsBuffer(root)
  PROVE  /\ DOMAIN Values = DOMAIN root.items
         /\ \A i \in DOMAIN Values : Values[i] = root.items[i].value
<1>1. Values = ValuesOf(root)
  BY FrameTakenApart DEF Values
<1> QED BY <1>1 DEF ValuesOf

LEMMA LoginHeld ==
  ASSUME NEW u \in 0..127, NEW p \in 0..127,
         u = e3dc_config["e3dc_user"], p = e3dc_config["e3dc_password"]
  PROVE  Holds(AuthenContainer, "RSCP_REQ_AUTHENTICATION",
               Leaf("RSCP_AUTHENTICATION_USER", u) \cup Leaf("RSCP_AUTHENTICATION_PASSWORD", p), 268)
<1> DEFINE t == "RSCP_REQ_AUTHENTICATION"
           o == CreateContainerValue(t)
           a == AppendValue(o, Data("RSCP_AUTHENTICATION_USER", u, u))
           b == AppendValue(a, Data("RSCP_AUTHENTICATION_PASSWORD", p, p))
           A == With({}, "RSCP_AUTHENTICATION_USER", u)
           B == With(A, "RSCP_AUTHENTICATION_PASSWORD", p)
<1>1. AuthenContainer = b
  BY DEF AuthenContainer
<1>2. B = Leaf("RSCP_AUTHENTICATION_USER", u) \cup Leaf("RSCP_AUTHENTICATION_PASSWORD", p)
  BY DEF With
<1>3. Holds(o, t, {}, 0)
  BY NothingHeld
<1>4. Appends(a, o, "RSCP_AUTHENTICATION_USER", u, u) /\ Appends(b, a, "RSCP_AUTHENTICATION_PASSWORD", p, p)
  BY DEF Appends
<1>5. /\ u \in Nat /\ p \in Nat /\ 7 + u \in Nat /\ 7 + u <= 65528 /\ 0 + 7 + u = 7 + u
      /\ 14 + u + p \in Nat /\ (7 + u) + 7 + p = 14 + u + p /\ 14 + u + p <= 65528 /\ 14 + u + p <= 268
  OBVIOUS
<1> HIDE DEF o, t, a, b
<1>6. Holds(a, t, A, 7 + u)
  BY <1>3, <1>4, <1>5, HoldsTo
<1> HIDE DEF A
<1>7. Holds(b, t, B, 14 + u + p)
  BY <1>4, <1>5, <1>6, HoldsTo
<1> HIDE DEF B
<1>8. Holds(b, t, B, 268)
  BY <1>5, <1>7, HoldsLess
<1> QED BY <1>1, <1>2, <1>8 DEF t

\* A request with one container.
LEMMA Alone ==
  ASSUME NEW v, v.length \in Nat, v.length <= 268
  PROVE  LET q == AppendContainer(Root, v)
         IN Fits(q) /\ DOMAIN q.items = {1} /\ q.items[1].value = v
<1> DEFINE n == HeaderSize + v.length
           q == Append16(Root, v, n)
<1>1. Fits(Root) /\ Root.items = <<>> /\ Root.length = 0
  BY EmptyFits, DataIsValue DEF Root, CreateContainerValue
<1>2. n \in Nat /\ Root.length + n <= RSCP_MAX_DATA_LENGTH
  BY <1>1 DEF HeaderSize, RSCP_MAX_DATA_LENGTH
<1>3. AppendContainer(Root, v) = q
  BY AsAppended
<1>4. Root.length + HeaderSize + v.length <= RSCP_MAX_DATA_LENGTH
  BY <1>1 DEF HeaderSize, RSCP_MAX_DATA_LENGTH
<1>5. Fits(q)
  BY <1>1, <1>3, <1>4, Grown
<1> HIDE DEF n
<1>6. q.items = Append(<<>>, Item(0, v))
  BY <1>1, <1>2, Appended DEF Fits
<1> HIDE DEF q
<1>7. DOMAIN q.items = 1..1 /\ q.items[1] = Item(0, v)
  BY <1>6, EmptySeq, AppendSeq
<1> QED BY <1>3, <1>5, <1>7 DEF Item

\* The frame of the login is one container with the credentials: none of them is too
\* long for its place, and each is that of the environment where there is one.
THEOREM LoginIsComplete == Spec => []LogsInCompletely
<1>1. ASSUME Inv, Requests, pc = "command"
      PROVE  \E f \in ConfigFiles :
        [i \in DOMAIN Values |-> PartOf(Values[i])] =
        <<[tag |-> "RSCP_REQ_AUTHENTICATION", content |-> 0,
           parts |-> Leaf("RSCP_AUTHENTICATION_USER",
                          IF f["E3DC_USER"] > 0 THEN f["E3DC_USER"] ELSE f["e3dc_user"]) \cup
                     Leaf("RSCP_AUTHENTICATION_PASSWORD",
                          IF f["E3DC_PASSWORD"] > 0 THEN f["E3DC_PASSWORD"] ELSE f["e3dc_password"])]>>
  <2>1. LoginFrame /\ Configured(e3dc_config)
    BY <1>1 DEF Requests, Settled
  <2>2. PICK f \in ConfigFiles : e3dc_config = ConfigOf(f)
    BY <2>1 DEF Configured
  <2> DEFINE u == IF f["E3DC_USER"] > 0 THEN f["E3DC_USER"] ELSE f["e3dc_user"]
             p == IF f["E3DC_PASSWORD"] > 0 THEN f["E3DC_PASSWORD"] ELSE f["e3dc_password"]
             leaves == Leaf("RSCP_AUTHENTICATION_USER", u) \cup Leaf("RSCP_AUTHENTICATION_PASSWORD", p)
             whole == [tag |-> "RSCP_REQ_AUTHENTICATION", content |-> 0, parts |-> leaves]
             v == AuthenContainer
             root == AppendContainer(Root, v)
  <2>3. u = e3dc_config["e3dc_user"] /\ p = e3dc_config["e3dc_password"]
    BY <2>2 DEF ConfigOf, Credentials, Numbers, CredentialOf, EnvOf
  <2>4. e3dc_config["e3dc_user"] \in 0..127 /\ e3dc_config["e3dc_password"] \in 0..127
    BY <1>1 DEF Inv, Typed, Credentials, CONFIG_FIELD_SIZE_CREDENTIAL
  <2> HIDE DEF u, p
  <2>5. Holds(v, "RSCP_REQ_AUTHENTICATION", leaves, 268)
    BY <2>3, <2>4, LoginHeld
  <2> HIDE DEF v
  <2>6. v.length \in Nat /\ v.length <= 268
    BY <2>5 DEF Holds, Fits, IsValue
  <2>7. Fits(root) /\ DOMAIN root.items = {1} /\ root.items[1].value = v
    BY <2>6, Alone
  <2>8. frame = CreateFrameAsBuffer(root)
    BY <2>1 DEF LoginFrame, v
  <2> HIDE DEF root, leaves
  <2>9. DOMAIN Values = {1} /\ Values[1] = v
    BY <2>7, <2>8, FrameValues
  <2>10. {PartOf(v)} = {whole}
    BY <2>5, PartOfContainer DEF Part
  <2> HIDE DEF whole
  <2>11. PartOf(Values[1]) = whole
    BY <2>9, <2>10
  <2>12. [i \in DOMAIN Values |-> PartOf(Values[i])] = <<whole>>
    <3> DEFINE F(i) == PartOf(Values[i])
               D == DOMAIN Values
    <3>1. D = 1..1 /\ F(1) = whole
      BY <2>9, <2>11
    <3> HIDE DEF F, D
    <3>2. [i \in D |-> F(i)] = <<whole>>
      BY <3>1
    <3> QED BY <3>2 DEF F, D
  <2> QED BY <2>12 DEF whole, leaves, u, p
<1>2. Inv /\ Requests => LogsInCompletely
  BY <1>1 DEF LogsInCompletely
<1> QED BY <1>2, RequestsAlways, PTL

-----------------------------------------------------------------------------
(* A request and the command line *)

\* The parts of the last request sent, as the station finds them.
LEMMA CommandFound ==
  ASSUME Inv, Requests, NEW dcb, CommandFrame(g_ctx, dcb)
  PROVE  /\ {PartOf(Values[i]) : i \in DOMAIN Values} = CommandSays(g_ctx, dcb, asOf)
         /\ \A i \in DOMAIN Values : PartOf(Values[i]).tag = Values[i].tag
<1> DEFINE root == CommandRoot(g_ctx, dcb, asOf)
<1>1. Lists(root, CommandSays(g_ctx, dcb, asOf), 249)
  BY CommandListed DEF Inv, Typed
<1>2. frame = CreateFrameAsBuffer(root)
  BY DEF CommandFrame
<1> HIDE DEF root
<1>3. /\ DOMAIN Values = DOMAIN root.items
      /\ \A i \in DOMAIN Values : Values[i] = root.items[i].value
  BY <1>1, <1>2, FrameValues DEF Lists
<1>4. {PartOf(Values[i]) : i \in DOMAIN Values} = {PartOf(w) : w \in Elements(root)}
  BY <1>3 DEF Elements
<1>5. \A i \in DOMAIN Values : PartOf(Values[i]).tag = Values[i].tag
  BY DEF PartOf
<1> QED BY <1>1, <1>4, <1>5 DEF Lists

LEMMA SaidReading ==
  ASSUME Requests, pc = "sent", ~Overridden
  PROVE  ReadSays(g_ctx) = If(Given({"r", "r name"}), ReadAsked(Last({"r", "r name"}).s))
<1>1. g_ctx.werteAbfragen = Given({"r", "r name"})
  BY DEF Requests, Heard, HeardFlags, Given, GivenIn
<1>2. g_ctx.batIndex = ModuleAsked
  BY DEF Requests, Heard, HeardNumbers, ModuleAsked, Given, GivenIn, Last, LastOf, IsLast
<1>3. Given({"r", "r name"}) => g_ctx.leseTag = Last({"r", "r name"}).s
  BY DEF Requests, Settled, TagSettled, Overridden, Given, GivenIn, Last, LastOf, IsLast
<1> DEFINE t == g_ctx.leseTag
<1>4. ASSUME Given({"r", "r name"}) PROVE ReadSays(g_ctx) = ReadAsked(t)
  BY <1>1, <1>2, <1>4 DEF ReadSays, ReadAsked
<1>5. ASSUME ~Given({"r", "r name"}) PROVE ReadSays(g_ctx) = {}
  BY <1>1, <1>5 DEF ReadSays
<1> HIDE DEF t
<1>6. CASE Given({"r", "r name"})
  <2>1. If(Given({"r", "r name"}), ReadAsked(Last({"r", "r name"}).s)) = ReadAsked(Last({"r", "r name"}).s)
    BY <1>6 DEF If
  <2> QED BY <2>1, <1>3, <1>4, <1>6 DEF t
<1>7. CASE ~Given({"r", "r name"})
  BY <1>5, <1>7 DEF If
<1> QED BY <1>6, <1>7

LEMMA SaidControls ==
  ASSUME Requests
  PROVE  /\ ChargeSays(g_ctx) = If(Given({"e"}), Part("EMS_REQ_START_MANUAL_CHARGE", Uint32(Last({"e"}).n), {}))
         /\ PowerSays(g_ctx) = If(Given({"a", "c", "d"}), Part("EMS_REQ_SET_POWER_SETTINGS", 0, PowerAsked))
         /\ ReserveSays(g_ctx) = If(Given({"E"}), Part("EP_REQ_SET_EP_RESERVE", 0,
              Leaf("EP_PARAM_INDEX", 0) \cup Leaf("EP_PARAM_EP_RESERVE_ENERGY", atof(Last({"E"})))))
         /\ InfoSays(g_ctx) = If(Given({"info"}), Part("INFO_REQ_SERIAL_NUMBER", 0, {}) \cup
                                                  Part("INFO_REQ_PRODUCTION_DATE", 0, {}) \cup
                                                  Part("INFO_REQ_SW_RELEASE", 0, {}))
<1>1. /\ g_ctx.leistungAendern = Given({"a", "c", "d"})
      /\ g_ctx.automatischLeistungEinstellen = Given({"a"})
      /\ g_ctx.ladeLeistungGesetzt = Given({"c"})
      /\ g_ctx.entladeLeistungGesetzt = Given({"d"})
      /\ g_ctx.manuelleSpeicherladung = Given({"e"})
      /\ g_ctx.setEPReserve = Given({"E"})
      /\ g_ctx.sysInfoAbfrage = Given({"info"})
  BY DEF Requests, Heard, HeardFlags, Given, GivenIn
<1>2. /\ Given({"c"}) => g_ctx.ladeLeistung = Uint32(Last({"c"}).n)
      /\ Given({"d"}) => g_ctx.entladeLeistung = Uint32(Last({"d"}).n)
      /\ Given({"e"}) => g_ctx.ladungsMenge = Uint32(Last({"e"}).n)
      /\ Given({"E"}) => g_ctx.epReserveWh = atof(Last({"E"}))
  BY DEF Requests, Heard, HeardNumbers, Given, GivenIn, Last, LastOf, IsLast
<1>3. Given({"c", "d"}) = (Given({"c"}) \/ Given({"d"}))
  BY DEF Given
<1>4. ChargeSays(g_ctx) = If(Given({"e"}), Part("EMS_REQ_START_MANUAL_CHARGE", Uint32(Last({"e"}).n), {}))
  BY <1>1, <1>2 DEF ChargeSays, If
<1>5. PowerLeaves(g_ctx) = PowerAsked
  <2>1. If(g_ctx.automatischLeistungEinstellen, Leaf("EMS_POWER_LIMITS_USED", 0))
          = If(Given({"a"}), Leaf("EMS_POWER_LIMITS_USED", 0))
    BY <1>1 DEF If
  <2>2. If(g_ctx.ladeLeistungGesetzt \/ g_ctx.entladeLeistungGesetzt, Leaf("EMS_POWER_LIMITS_USED", 1))
          = If(Given({"c", "d"}), Leaf("EMS_POWER_LIMITS_USED", 1))
    BY <1>1, <1>3 DEF If
  <2>3. If(g_ctx.ladeLeistungGesetzt, Leaf("EMS_MAX_CHARGE_POWER", g_ctx.ladeLeistung))
          = If(Given({"c"}), Leaf("EMS_MAX_CHARGE_POWER", Uint32(Last({"c"}).n)))
    BY <1>1, <1>2 DEF If
  <2>4. If(g_ctx.entladeLeistungGesetzt, Leaf("EMS_MAX_DISCHARGE_POWER", g_ctx.entladeLeistung))
          = If(Given({"d"}), Leaf("EMS_MAX_DISCHARGE_POWER", Uint32(Last({"d"}).n)))
    BY <1>1, <1>2 DEF If
  <2> QED BY <2>1, <2>2, <2>3, <2>4 DEF PowerLeaves, PowerAsked
<1>6. PowerSays(g_ctx) = If(Given({"a", "c", "d"}), Part("EMS_REQ_SET_POWER_SETTINGS", 0, PowerAsked))
  BY <1>1, <1>5 DEF PowerSays, If
<1>7. ReserveSays(g_ctx) = If(Given({"E"}), Part("EP_REQ_SET_EP_RESERVE", 0,
         Leaf("EP_PARAM_INDEX", 0) \cup Leaf("EP_PARAM_EP_RESERVE_ENERGY", atof(Last({"E"})))))
  BY <1>1, <1>2 DEF ReserveSays, If
<1>8. InfoSays(g_ctx) = If(Given({"info"}), Part("INFO_REQ_SERIAL_NUMBER", 0, {}) \cup
                                            Part("INFO_REQ_PRODUCTION_DATE", 0, {}) \cup
                                            Part("INFO_REQ_SW_RELEASE", 0, {}))
  BY <1>1 DEF InfoSays, If
<1> QED BY <1>4, <1>6, <1>7, <1>8

LEMMA SaidDumping ==
  ASSUME Requests, NEW dcb \in {None} \cup DcbIndices
  PROVE  DumpSays(g_ctx, dcb) \in DumpsAsked
<1>1. g_ctx.modulInfoDump = Given({"m"})
  BY DEF Requests, Heard, HeardFlags, Given, GivenIn
<1>2. g_ctx.batIndex = ModuleAsked
  BY DEF Requests, Heard, HeardNumbers, ModuleAsked, Given, GivenIn, Last, LastOf, IsLast
<1>3. FirstDumpSays(g_ctx) = FirstDumpAsked
  BY <1>2 DEF FirstDumpSays, FirstDumpAsked, ModuleTags
<1>4. DcbSays(g_ctx, dcb) = DcbAsked(dcb)
  BY <1>2 DEF DcbSays, DcbAsked
<1>5. CASE Given({"m"})
  <2>1. DumpsAsked = {FirstDumpAsked} \cup {DcbAsked(d) : d \in DcbIndices}
    BY <1>5 DEF DumpsAsked
  <2>2. DumpSays(g_ctx, dcb) = IF dcb = None THEN FirstDumpSays(g_ctx) ELSE DcbSays(g_ctx, dcb)
    BY <1>1, <1>5 DEF DumpSays, If
  <2>3. CASE dcb = None
    BY <2>1, <2>2, <2>3, <1>3
  <2>4. CASE dcb # None
    BY <2>1, <2>2, <2>4, <1>4
  <2> QED BY <2>3, <2>4
<1>6. CASE ~Given({"m"})
  BY <1>1, <1>6 DEF DumpSays, If, DumpsAsked
<1> QED BY <1>5, <1>6

\* Of the parts of a request only that of the history has its tag, where nothing is read.
LEMMA NoHistory ==
  ASSUME NEW c, NEW dcb
  PROVE  \A p \in DumpSays(c, dcb) \cup InfoSays(c) \cup ChargeSays(c) \cup PowerSays(c) \cup ReserveSays(c) :
           p.tag \notin HistoryTags
<1> DEFINE tags == {"BAT_REQ_DATA", "INFO_REQ_SERIAL_NUMBER", "INFO_REQ_PRODUCTION_DATE",
                    "INFO_REQ_SW_RELEASE", "EMS_REQ_START_MANUAL_CHARGE",
                    "EMS_REQ_SET_POWER_SETTINGS", "EP_REQ_SET_EP_RESERVE"}
<1>1. HistoryTags \cap tags = {}
  BY DEF HistoryTags, HistoryTag, HistoryTypes
<1>2. \A tag, content, parts : \A p \in Part(tag, content, parts) : p.tag = tag
  BY DEF Part
<1>3. \A condition, S : If(condition, S) \subseteq S
  BY DEF If
<1>4. \A p \in DumpSays(c, dcb) : p.tag \in tags
  <2>1. \A p \in FirstDumpSays(c) \cup DcbSays(c, dcb) : p.tag = "BAT_REQ_DATA"
    BY <1>2 DEF FirstDumpSays, DcbSays
  <2>2. DumpSays(c, dcb) \subseteq FirstDumpSays(c) \cup DcbSays(c, dcb)
    BY DEF DumpSays, If
  <2> QED BY <2>1, <2>2
<1>5. \A p \in InfoSays(c) : p.tag \in tags
  BY <1>2, <1>3 DEF InfoSays
<1>6. \A p \in ChargeSays(c) : p.tag \in tags
  BY <1>2, <1>3 DEF ChargeSays
<1>7. \A p \in PowerSays(c) : p.tag \in tags
  BY <1>2, <1>3 DEF PowerSays
<1>8. \A p \in ReserveSays(c) : p.tag \in tags
  BY <1>2, <1>3 DEF ReserveSays
<1> HIDE DEF tags
<1> QED BY <1>1, <1>4, <1>5, <1>6, <1>7, <1>8

\* A station that takes a request apart finds what the command line says, all of it and
\* nothing else, unless one option has taken the place of another: for every command
\* line, configuration, tag and moment, in every round of a dump or a watch.
THEOREM RequestSaysWhatWasAsked == Spec => []SaysWhatWasAsked
<1>1. ASSUME Inv, Requests, pc = "sent", ~Overridden,
             NEW others, others = {i \in DOMAIN Values : Given({"H"}) => Values[i].tag \notin HistoryTags}
      PROVE  \E dump \in DumpsAsked : {PartOf(Values[i]) : i \in others} = Asked \cup dump
  <2>1. PICK dcb \in {None} \cup DcbIndices : CommandFrame(g_ctx, dcb)
    BY <1>1 DEF Requests
  <2> DEFINE c == g_ctx
             read == ReadSays(c)
             dump == DumpSays(c, dcb)
             history == HistorySays(c, asOf)
             info == InfoSays(c)
             charge == ChargeSays(c)
             power == PowerSays(c)
             reserve == ReserveSays(c)
             rest == dump \cup info \cup charge \cup power \cup reserve
  <2>2. /\ {PartOf(Values[i]) : i \in DOMAIN Values} = CommandSays(c, dcb, asOf)
        /\ \A i \in DOMAIN Values : PartOf(Values[i]).tag = Values[i].tag
    BY <1>1, <2>1, CommandFound
  <2>3. CommandSays(c, dcb, asOf) = read \cup history \cup rest
    <3>1. CommandSays(c, dcb, asOf) = read \cup dump \cup history \cup info \cup charge \cup power \cup reserve
      BY DEF CommandSays
    <3> HIDE DEF read, dump, history, info, charge, power, reserve
    <3> QED BY <3>1
  <2>4. Asked \cup dump = read \cup rest
    <3>1. read = If(Given({"r", "r name"}), ReadAsked(Last({"r", "r name"}).s))
      BY <1>1, SaidReading
    <3>2. /\ charge = If(Given({"e"}), Part("EMS_REQ_START_MANUAL_CHARGE", Uint32(Last({"e"}).n), {}))
          /\ power = If(Given({"a", "c", "d"}), Part("EMS_REQ_SET_POWER_SETTINGS", 0, PowerAsked))
          /\ reserve = If(Given({"E"}), Part("EP_REQ_SET_EP_RESERVE", 0,
               Leaf("EP_PARAM_INDEX", 0) \cup Leaf("EP_PARAM_EP_RESERVE_ENERGY", atof(Last({"E"})))))
          /\ info = If(Given({"info"}), Part("INFO_REQ_SERIAL_NUMBER", 0, {}) \cup
                                        Part("INFO_REQ_PRODUCTION_DATE", 0, {}) \cup
                                        Part("INFO_REQ_SW_RELEASE", 0, {}))
      BY <1>1, SaidControls
    <3> HIDE DEF read, dump, history, info, charge, power, reserve
    <3>3. Asked = UNION {read, info, charge, power, reserve}
      BY <3>1, <3>2 DEF Asked
    <3> QED BY <3>3
  <2>5. dump \in DumpsAsked
    BY <1>1, SaidDumping
  <2>6. \A p \in rest : p.tag \notin HistoryTags
    BY NoHistory
  <2>7. c.historieAbfrage = Given({"H"}) /\ c.werteAbfragen = Given({"r", "r name"})
    BY <1>1 DEF Requests, Heard, HeardFlags, Given, GivenIn
  <2>8. checkArgumentsEarly(c) /\ TypeKnown(c)
    BY <1>1 DEF Inv, Checked, Connecting
  <2>9. ASSUME ~Given({"H"}) PROVE history = {}
    BY <2>7, <2>9 DEF HistorySays, If
  <2>10. ASSUME Given({"H"}) PROVE read = {} /\ \A p \in history : p.tag \in HistoryTags
    <3>1. c.historieAbfrage /\ ~c.werteAbfragen /\ c.historieTyp \in HistoryTypes
      BY <2>7, <2>8, <2>10 DEF checkArgumentsEarly, TypeKnown
    <3>2. read = {}
      BY <3>1 DEF ReadSays
    <3>3. \A p \in history : p.tag = HistoryTag(c.historieTyp)
      BY <3>1 DEF HistorySays, If, Part
    <3> QED BY <3>1, <3>2, <3>3 DEF HistoryTags
  <2> HIDE DEF read, rest, history, dump
  <2>11. {PartOf(Values[i]) : i \in others} = read \cup rest
    <3>1. CASE ~Given({"H"})
      <4>1. others = DOMAIN Values
        BY <1>1, <3>1
      <4> QED BY <4>1, <3>1, <2>2, <2>3, <2>9
    <3>2. CASE Given({"H"})
      <4>1. others = {i \in DOMAIN Values : Values[i].tag \notin HistoryTags}
        BY <1>1, <3>2
      <4> DEFINE all == {PartOf(Values[i]) : i \in DOMAIN Values}
      <4>2. {PartOf(Values[i]) : i \in others} = {p \in all : p.tag \notin HistoryTags}
        BY <4>1, <2>2
      <4>3. all = history \cup rest /\ read = {}
        BY <3>2, <2>2, <2>3, <2>10
      <4> HIDE DEF all
      <4> QED BY <4>2, <4>3, <3>2, <2>6, <2>10
    <3> QED BY <3>1, <3>2
  <2> QED BY <2>4, <2>5, <2>11
<1>2. Inv /\ Requests => SaysWhatWasAsked
  BY <1>1 DEF SaysWhatWasAsked
<1> QED BY <1>2, RequestsAlways, PTL

-----------------------------------------------------------------------------
(* The calendar of a history query *)

LEMMA Divisions ==
  ASSUME NEW y \in Int
  PROVE  /\ y \div 4 = (y - 1) \div 4 + (IF y % 4 = 0 THEN 1 ELSE 0)
         /\ y \div 100 = (y - 1) \div 100 + (IF y % 100 = 0 THEN 1 ELSE 0)
         /\ y \div 400 = (y - 1) \div 400 + (IF y % 400 = 0 THEN 1 ELSE 0)
         /\ y % 400 = 0 => y % 100 = 0
         /\ y % 100 = 0 => y % 4 = 0
OBVIOUS

LEMMA LeapStep ==
  ASSUME NEW y \in Int
  PROVE  /\ LeapYearsTo(y) \in Int
         /\ LeapYearsTo(y) = LeapYearsTo(y - 1) + (IF IsLeapYear(y) THEN 1 ELSE 0)
<1> DEFINE a == y \div 4
           b == y \div 100
           d == y \div 400
           e == (y - 1) \div 4
           f == (y - 1) \div 100
           g == (y - 1) \div 400
<1>1. a \in Int /\ b \in Int /\ d \in Int /\ e \in Int /\ f \in Int /\ g \in Int
  OBVIOUS
<1>2. /\ a = e + (IF y % 4 = 0 THEN 1 ELSE 0)
      /\ b = f + (IF y % 100 = 0 THEN 1 ELSE 0)
      /\ d = g + (IF y % 400 = 0 THEN 1 ELSE 0)
      /\ y % 400 = 0 => y % 100 = 0
      /\ y % 100 = 0 => y % 4 = 0
  BY Divisions
<1>3. LeapYearsTo(y) = a - b + d /\ LeapYearsTo(y - 1) = e - f + g
  BY DEF LeapYearsTo
<1> HIDE DEF a, b, d, e, f, g
<1> QED BY <1>1, <1>2, <1>3 DEF IsLeapYear

LEMMA Days ==
  ASSUME NEW y \in Int, NEW m \in 1..12, NEW d \in Int
  PROVE  DayNumber(y, m, d) \in Int
<1>1. LeapYearsTo(y - 1) \in Int /\ LeapYearsTo(1969) \in Int
  BY LeapStep
<1>2. <<0, 31, 59, 90, 120, 151, 181, 212, 243, 273, 304, 334>>[m] \in Int
  OBVIOUS
<1> QED BY <1>1, <1>2 DEF DayNumber

LEMMA YearLength ==
  ASSUME NEW y \in Int
  PROVE  DayNumber(y + 1, 1, 1) = DayNumber(y, 1, 1) + 365 + (IF IsLeapYear(y) THEN 1 ELSE 0)
<1> DEFINE l == LeapYearsTo(y)
           k == LeapYearsTo(y - 1)
           z == LeapYearsTo(1969)
<1>1. l \in Int /\ k \in Int /\ z \in Int /\ l = k + (IF IsLeapYear(y) THEN 1 ELSE 0)
  BY LeapStep
<1>2. (y + 1) - 1 = y
  OBVIOUS
<1>3. DayNumber(y + 1, 1, 1) = 365 * (y + 1 - 1970) + l - z
  BY <1>1, <1>2 DEF DayNumber
<1>4. DayNumber(y, 1, 1) = 365 * (y - 1970) + k - z
  BY <1>1 DEF DayNumber
<1> HIDE DEF l, k, z
<1> QED BY <1>1, <1>3, <1>4

LEMMA MonthLength ==
  ASSUME NEW date, date.year \in Int, date.month \in 1..12
  PROVE  /\ NextMonth(date) = DayNumber(date.year, date.month, 1) + getDaysInMonth(date.month, date.year)
         /\ getDaysInMonth(date.month, date.year) \in 28..31
<1> DEFINE y == date.year
           m == date.month
           base == 365 * (y - 1970) + LeapYearsTo(y - 1) - LeapYearsTo(1969)
           leap == IF IsLeapYear(y) THEN 1 ELSE 0
<1>1. base \in Int /\ leap \in Int
  BY LeapStep
<1>2. \A k \in 1..12, d \in Int :
        DayNumber(y, k, d) = base + <<0, 31, 59, 90, 120, 151, 181, 212, 243, 273, 304, 334>>[k]
                               + (IF k > 2 THEN leap ELSE 0) + d - 1
  BY DEF DayNumber
<1>3. DayNumber(y + 1, 1, 1) = DayNumber(y, 1, 1) + 365 + leap
  BY YearLength
<1> HIDE DEF base, leap
<1>4. /\ DayNumber(y, 1, 1) = base /\ DayNumber(y, 2, 1) = base + 31
      /\ DayNumber(y, 3, 1) = base + 59 + leap /\ DayNumber(y, 4, 1) = base + 90 + leap
      /\ DayNumber(y, 5, 1) = base + 120 + leap /\ DayNumber(y, 6, 1) = base + 151 + leap
      /\ DayNumber(y, 7, 1) = base + 181 + leap /\ DayNumber(y, 8, 1) = base + 212 + leap
      /\ DayNumber(y, 9, 1) = base + 243 + leap /\ DayNumber(y, 10, 1) = base + 273 + leap
      /\ DayNumber(y, 11, 1) = base + 304 + leap /\ DayNumber(y, 12, 1) = base + 334 + leap
  BY <1>1, <1>2
<1>5. /\ getDaysInMonth(1, y) = 31 /\ getDaysInMonth(2, y) = 28 + leap /\ getDaysInMonth(3, y) = 31
      /\ getDaysInMonth(4, y) = 30 /\ getDaysInMonth(5, y) = 31 /\ getDaysInMonth(6, y) = 30
      /\ getDaysInMonth(7, y) = 31 /\ getDaysInMonth(8, y) = 31 /\ getDaysInMonth(9, y) = 30
      /\ getDaysInMonth(10, y) = 31 /\ getDaysInMonth(11, y) = 30 /\ getDaysInMonth(12, y) = 31
      /\ leap \in 0..1
  BY DEF getDaysInMonth, leap
<1>6. NextMonth(date) = IF m = 12 THEN DayNumber(y + 1, 1, 1) ELSE DayNumber(y, m + 1, 1)
  BY DEF NextMonth
<1>7. m \in {1, 2, 3, 4, 5, 6, 7, 8, 9, 10, 11, 12}
  OBVIOUS
<1> HIDE DEF m, y
<1>8. NextMonth(date) = DayNumber(y, m, 1) + getDaysInMonth(m, y)
  BY <1>1, <1>3, <1>4, <1>5, <1>6, <1>7
<1>9. getDaysInMonth(m, y) \in 28..31
  BY <1>5, <1>7
<1> QED BY <1>8, <1>9 DEF m, y

\* The clocks change on a Sunday.
LEMMA ChangesOnSunday ==
  ASSUME NEW y \in Int, NEW m \in {3, 10}
  PROVE  LastSunday(y, m) \in Int /\ (LastSunday(y, m) + 3) % 7 = 6
<1> DEFINE d == DayNumber(y, m, 31)
<1>1. d \in Int
  <2>1. m \in 1..12 /\ 31 \in Int
    OBVIOUS
  <2> QED BY <2>1, Days
<1> DEFINE s == LastSunday(y, m)
           r == (d + 4) % 7
           q == (d + 4) \div 7
<1>2. s = d - r
  BY Zenon DEF LastSunday, WeekDay
<1> HIDE DEF d, s
<1>3. r \in 0..6 /\ q \in Int /\ d + 4 = 7 * q + r
  BY <1>1
<1> HIDE DEF r, q
<1>4. s \in Int /\ s + 3 = 7 * (q - 1) + 6 /\ q - 1 \in Int
  BY <1>1, <1>2, <1>3
<1>5. (s + 3) % 7 = 6
  BY <1>4
<1> QED BY <1>4, <1>5 DEF s

\* The weekday in the week that begins on a Monday.
LEMMA Mondays ==
  ASSUME NEW d \in Int
  PROVE  /\ DaysToMonday(WeekDay(d)) = (d + 3) % 7
         /\ (d + 3) % 7 \in 0..6
         /\ (d - ((d + 3) % 7) + 3) % 7 = 0
BY DEF DaysToMonday, WeekDay

LEMMA WeekDays ==
  ASSUME NEW d \in Int
  PROVE  LET monday == d - ((d + 3) % 7)
         IN {e \in d - 6..d + 6 : (e + 3) \div 7 = (d + 3) \div 7} = monday..monday + 6
<1> DEFINE k == (d + 3) % 7
           q == (d + 3) \div 7
<1>1. k \in 0..6 /\ q \in Int /\ d + 3 = 7 * q + k
  OBVIOUS
<1> HIDE DEF k, q
<1>2. \A e \in Int : (e + 3) \div 7 = q <=> e \in d - k..d - k + 6
  <2> SUFFICES ASSUME NEW e \in Int PROVE (e + 3) \div 7 = q <=> e \in d - k..d - k + 6
    OBVIOUS
  <2> DEFINE p == (e + 3) \div 7
             r == (e + 3) % 7
  <2>1. p \in Int /\ r \in 0..6 /\ e + 3 = 7 * p + r
    OBVIOUS
  <2> HIDE DEF p, r
  <2>2. p = q <=> e \in d - k..d - k + 6
    BY <1>1, <2>1
  <2> QED BY <2>2 DEF p
<1>3. \A e \in Int : e \in d - k..d - k + 6 => e \in d - 6..d + 6
  BY <1>1
<1>4. d - k..d - k + 6 \subseteq Int /\ d - 6..d + 6 \subseteq Int
  BY <1>1
<1>5. {e \in d - 6..d + 6 : (e + 3) \div 7 = q} = d - k..d - k + 6
  BY <1>2, <1>3, <1>4
<1> QED BY <1>5, Zenon DEF k, q

\* Midnight is in summer behind the Sunday of March, until that of October.
LEMMA SummerMidnight ==
  ASSUME NEW y \in Int, NEW d \in Int
  PROVE  /\ IsSummer(y, 24 * d) <=> LastSunday(y, 3) < d /\ d <= LastSunday(y, 10)
         /\ IsSummer(y, 24 * d) => IsSummer(y, 24 * d - 1)
<1> DEFINE a == LastSunday(y, 3)
           b == LastSunday(y, 10)
<1>1. a \in Int /\ b \in Int
  BY ChangesOnSunday
<1>2. \A h \in Int : IsSummer(y, h) <=> h >= 24 * a + 2 /\ h < 24 * b + 2
  BY DEF IsSummer
<1> HIDE DEF a, b
<1>3. 24 * d \in Int /\ 24 * d - 1 \in Int
  OBVIOUS
<1>4. IsSummer(y, 24 * d) <=> a < d /\ d <= b
  BY <1>1, <1>2, <1>3
<1>5. a < d /\ d <= b => 24 * d - 1 >= 24 * a + 2 /\ 24 * d - 1 < 24 * b + 2
  BY <1>1
<1> QED BY <1>2, <1>3, <1>4, <1>5 DEF a, b

\* All midnights of a week, which begins on a Monday, are in the same time.
LEMMA SameAllWeek ==
  ASSUME NEW y \in Int, NEW d \in Int
  PROVE  Isdst(y, 24 * (d - ((d + 3) % 7))) = Isdst(y, 24 * d)
<1> DEFINE k == (d + 3) % 7
           a == LastSunday(y, 3)
           b == LastSunday(y, 10)
<1>1. a \in Int /\ b \in Int /\ (a + 3) % 7 = 6 /\ (b + 3) % 7 = 6
  BY ChangesOnSunday
<1>2. k \in 0..6 /\ d - k \in Int /\ (d - k + 3) % 7 = 0
  BY Mondays
<1>3. /\ IsSummer(y, 24 * d) <=> a < d /\ d <= b
      /\ IsSummer(y, 24 * (d - k)) <=> a < d - k /\ d - k <= b
  BY <1>2, SummerMidnight
<1> HIDE DEF k, a, b
<1>4. \A s \in Int : (s + 3) % 7 = 6 => (s < d <=> s < d - k)
  <2> SUFFICES ASSUME NEW s \in Int, (s + 3) % 7 = 6 PROVE s < d <=> s < d - k
    OBVIOUS
  <2> DEFINE p == (s + 3) \div 7
             q == (d - k + 3) \div 7
  <2>1. p \in Int /\ q \in Int /\ s + 3 = 7 * p + 6 /\ d - k + 3 = 7 * q
    BY <1>2
  <2> HIDE DEF p, q
  <2> QED BY <1>2, <2>1
<1>5. (a < d <=> a < d - k) /\ (b < d <=> b < d - k)
  BY <1>1, <1>4
<1>6. (d <= b <=> ~(b < d)) /\ (d - k <= b <=> ~(b < d - k))
  BY <1>1, <1>2
<1>7. IsSummer(y, 24 * d) <=> IsSummer(y, 24 * (d - k))
  BY <1>3, <1>5, <1>6
<1>8. Isdst(y, 24 * (d - k)) = Isdst(y, 24 * d)
  BY <1>7 DEF Isdst
<1> QED BY <1>8 DEF k

\* The week begins at midnight of its Monday, where tm_isdst is right for that day.
LEMMA WeekBegins ==
  ASSUME NEW date, date.year \in Int, NEW d \in Int, d = DayNumber(date.year, date.month, date.day),
         NEW isdst, isdst \in {-1, Isdst(date.year, 24 * (d - ((d + 3) % 7)))}
  PROVE  WeekStart(date, isdst) = Midnight(date.year, d - ((d + 3) % 7))
<1> DEFINE y == date.year
           k == (d + 3) % 7
           t == Isdst(y, 24 * d)
           start == Mktime(y, 24 * d, isdst)
           monday == 24 * (d - k)
<1>0. d - k \in Int /\ k \in 0..6 /\ monday = 24 * d - 24 * k
  BY Mondays
<1>1. Isdst(y, monday) = t
  BY SameAllWeek
<1>9. t \in 0..1 /\ (t = 1 <=> IsSummer(y, 24 * d))
  BY DEF Isdst
<1>10. isdst \in {-1, t}
  <2>1. isdst \in {-1, Isdst(y, monday)}
    OBVIOUS
  <2> HIDE DEF monday, t
  <2> QED BY <2>1, <1>1
<1>2. start = 24 * d - t
  <2> HIDE DEF y
  <2>1. start = IF isdst = -1 THEN 24 * d - t ELSE 24 * d - isdst
    BY DEF Mktime
  <2> HIDE DEF start, t
  <2> QED BY <2>1, <1>10
<1>3. Isdst(y, start) = t
  <2> HIDE DEF start, t
  <2>1. CASE t = 1
    <3>1. IsSummer(y, 24 * d - 1) /\ start = 24 * d - 1
      BY <1>2, <1>9, <2>1, SummerMidnight
    <3> QED BY <3>1, <2>1 DEF Isdst
  <2>2. CASE t = 0
    <3>1. ~IsSummer(y, 24 * d) /\ start = 24 * d
      BY <1>2, <1>9, <2>2
    <3> QED BY <3>1, <2>2 DEF Isdst
  <2> QED BY <1>9, <2>1, <2>2
<1>4. Localtime(y, start) = 24 * d
  <2> HIDE DEF start, t
  <2>1. Localtime(y, start) = start + t
    BY <1>3 DEF Localtime
  <2> QED BY <2>1, <1>2, <1>9
<1>5. (24 * d) \div 24 = d
  OBVIOUS
<1>6. WeekStart(date, isdst) = Mktime(y, 24 * d - 24 * k, t)
  <2>1. WeekStart(date, isdst) =
          Mktime(y, Localtime(y, start) - 24 * DaysToMonday(WeekDay(Localtime(y, start) \div 24)), Isdst(y, start))
    BY DEF WeekStart
  <2>2. DaysToMonday(WeekDay(d)) = k
    BY Mondays
  <2> HIDE DEF start, k, t
  <2> QED BY <2>1, <2>2, <1>3, <1>4, <1>5
<1> HIDE DEF t, start, k
<1>7. Mktime(y, 24 * d - 24 * k, t) = 24 * d - 24 * k - t
  BY <1>9 DEF Mktime
<1>8. Midnight(y, d - k) = monday - t
  BY <1>1 DEF Midnight
<1>11. WeekStart(date, isdst) = Midnight(y, d - k)
  BY <1>0, <1>6, <1>7, <1>8, <1>9
<1> QED BY <1>11 DEF k

FirstDay(days) == CHOOSE d \in days : \A e \in days : d <= e

LEMMA FirstOf ==
  ASSUME NEW a \in Int, NEW b \in Int, a <= b
  PROVE  FirstDay(a..b) = a
<1>1. a \in a..b /\ \A e \in a..b : a <= e
  OBVIOUS
<1>2. \A d \in a..b : (\A e \in a..b : d <= e) => d = a
  BY <1>1
<1> QED BY <1>1, <1>2 DEF FirstDay

\* The period of a date, from its first day on, as the query asks for it.
LEMMA PeriodBegins ==
  ASSUME NEW date, date.year \in Int, date.day \in Int, date.month \in 1..12,
         NEW type \in HistoryTypes, NEW days, days = PeriodOf(date, type),
         NEW first, first = FirstDay(days)
  PROVE  /\ \A isdst \in {-1, Isdst(date.year, 24 * first)} :
              dateToTimestamp(date, type, isdst) = Midnight(date.year, first)
         /\ type # "year" \/ ~IsLeapYear(date.year) => HistorySpan(date, type) = Cardinality(days)
<1> DEFINE y == date.year
           m == date.month
           n == date.day
<1>0. 1 \in 1..12 /\ 12 \in 1..12 /\ y + 1 \in Int /\ 1 \in Int
  OBVIOUS
<1>1. \A d \in Int : \A isdst \in {-1, Isdst(y, 24 * d)} : Mktime(y, 24 * d, isdst) = Midnight(y, d)
  <2> SUFFICES ASSUME NEW d \in Int, NEW isdst \in {-1, Isdst(y, 24 * d)}
               PROVE  Mktime(y, 24 * d, isdst) = Midnight(y, d)
    OBVIOUS
  <2>1. Isdst(y, 24 * d) \in 0..1
    BY DEF Isdst
  <2> QED BY <2>1 DEF Mktime, Midnight
<1>2. CASE type = "day"
  <2> DEFINE d == DayNumber(y, m, n)
  <2>1. d \in Int
    BY Days
  <2>2. days = {d}
    BY <1>2 DEF PeriodOf
  <2>3. \A isdst : dateToTimestamp(date, type, isdst) = Mktime(y, 24 * d, isdst)
    BY <1>2 DEF dateToTimestamp
  <2>4. HistorySpan(date, type) = 1
    BY <1>2 DEF HistorySpan
  <2> HIDE DEF d, y
  <2>5. first = d
    BY <2>1, <2>2 DEF FirstDay
  <2>6. Cardinality(days) = 1
    BY <2>2, FS_Singleton
  <2> QED BY <2>1, <2>3, <2>4, <2>5, <2>6, <1>1 DEF y
<1>3. CASE type = "week"
  <2> DEFINE d == DayNumber(y, m, n)
             monday == d - ((d + 3) % 7)
  <2>1. d \in Int
    BY Days
  <2>2. days = {e \in d - 6..d + 6 : (e + 3) \div 7 = (d + 3) \div 7}
    BY <1>3 DEF PeriodOf
  <2>3. \A isdst : dateToTimestamp(date, type, isdst) = WeekStart(date, isdst)
    BY <1>3 DEF dateToTimestamp
  <2>4. HistorySpan(date, type) = 7
    BY <1>3 DEF HistorySpan
  <2>5. \A isdst \in {-1, Isdst(y, 24 * monday)} : WeekStart(date, isdst) = Midnight(y, monday)
    <3> HIDE DEF d
    <3>1. d = DayNumber(date.year, date.month, date.day)
      BY DEF d
    <3> QED BY <2>1, <3>1, WeekBegins
  <2> HIDE DEF d
  <2>6. days = monday..monday + 6
    BY <2>1, <2>2, WeekDays
  <2>7. monday \in Int
    BY <2>1
  <2> HIDE DEF monday, y
  <2>8. first = monday
    BY <2>6, <2>7, FirstOf
  <2>9. Cardinality(days) = 7
    <3>1. monday + 6 \in Int /\ ~(monday > monday + 6) /\ (monday + 6) - monday + 1 = 7
      BY <2>7
    <3> QED BY <2>6, <2>7, <3>1, FS_Interval
  <2> QED BY <2>3, <2>4, <2>5, <2>8, <2>9 DEF y
<1>4. CASE type = "month"
  <2> DEFINE d == DayNumber(y, m, 1)
             l == getDaysInMonth(m, y)
  <2>1. d \in Int
    BY <1>0, Days
  <2>2. NextMonth(date) = d + l /\ l \in 28..31
    BY MonthLength
  <2>3. days = d..(NextMonth(date) - 1)
    BY <1>4 DEF PeriodOf
  <2>4. \A isdst : dateToTimestamp(date, type, isdst) = Mktime(y, 24 * d, isdst)
    BY <1>4 DEF dateToTimestamp
  <2>5. HistorySpan(date, type) = l
    BY <1>4 DEF HistorySpan
  <2> HIDE DEF d, l, y
  <2> DEFINE last == NextMonth(date) - 1
  <2>6. last \in Int /\ d <= last /\ last - d + 1 = l
    BY <2>1, <2>2
  <2> HIDE DEF last
  <2>7. days = d..last
    BY <2>3 DEF last
  <2>8. first = d
    BY <2>1, <2>6, <2>7, FirstOf
  <2>9. Cardinality(days) = l
    BY <2>1, <2>6, <2>7, FS_Interval
  <2> QED BY <2>1, <2>4, <2>5, <2>8, <2>9, <1>1 DEF y
<1>5. CASE type = "year"
  <2> DEFINE d == DayNumber(y, 1, 1)
             l == 365 + (IF IsLeapYear(y) THEN 1 ELSE 0)
             next == DayNumber(y + 1, 1, 1)
             last == next - 1
  <2>1. d \in Int
    BY <1>0, Days
  <2>2. next = d + l
    BY <2>1, YearLength
  <2>3. days = d..last
    BY <1>5 DEF PeriodOf
  <2>4. \A isdst : dateToTimestamp(date, type, isdst) = Mktime(y, 24 * d, isdst)
    BY <1>5 DEF dateToTimestamp
  <2>5. HistorySpan(date, type) = 365
    BY <1>5 DEF HistorySpan
  <2>6. l \in 365..366 /\ (~IsLeapYear(y) => l = 365)
    OBVIOUS
  <2> HIDE DEF d, l, y, next
  <2>7. last \in Int /\ d <= last /\ last - d + 1 = l
    BY <2>1, <2>2, <2>6
  <2> HIDE DEF last
  <2>8. first = d
    BY <2>1, <2>3, <2>7, FirstOf
  <2>9. Cardinality(days) = l
    BY <2>1, <2>3, <2>7, FS_Interval
  <2> QED BY <2>1, <2>4, <2>5, <2>6, <2>8, <2>9, <1>1, <1>5 DEF y
<1> QED BY <1>2, <1>3, <1>4, <1>5 DEF HistoryTypes

\* The date meant is one of the calendar, "today" as well as one given.
LEMMA DateIsMeant ==
  ASSUME Inv, Requests, pc = "sent", g_ctx.historieAbfrage
  PROVE  LET date == DateMeant(g_ctx, asOf)
         IN /\ date.year \in Int /\ date.month \in 1..12 /\ date.day \in Int
            /\ g_ctx.historieDatum = "date" => DateExists(date)
<1> DEFINE c == g_ctx
           date == DateMeant(c, asOf)
<1>1. asOf \in Moments /\ c.historieDatum \in {"today", "date"}
  BY DEF Requests, Settled, DateSettled
<1>2. checkArgumentsEarly(c) /\ c["datum"] \in Int
  BY FieldNames DEF Inv, Checked, Connecting, Typed, IsContext, ContextOK
<1>3. CASE c.historieDatum = "today"
  <2>1. date = [year |-> asOf.year, month |-> asOf.month, day |-> asOf.day]
    BY <1>3 DEF DateMeant
  <2>2. date.year = asOf.year /\ date.month = asOf.month /\ date.day = asOf.day
    BY <2>1
  <2>3. asOf.year \in Int /\ asOf.month \in 1..12
        /\ asOf.day \in 1..getDaysInMonth(asOf.month, asOf.year)
    BY <1>1, MomentsAssumption DEF DateExists
  <2>4. asOf.day \in Int
    BY <2>3
  <2> QED BY <1>3, <2>2, <2>3, <2>4
<1>4. CASE c.historieDatum = "date"
  <2>1. date = DateOf(c.datum)
    BY <1>4 DEF DateMeant
  <2>2. DateExists(date)
    BY <1>2, <1>4, <2>1 DEF checkArgumentsEarly, DateAccepted
  <2>3. date.year \in Int /\ date.day \in Int
    BY <1>2, <2>1 DEF DateOf
  <2> QED BY <2>2, <2>3 DEF DateExists
<1> QED BY <1>1, <1>3, <1>4

PartsUnder(tag) == UNION {PartsOf(Values[i]) : i \in {i \in DOMAIN Values : Values[i].tag = tag}}

LEMMA HistoryFound ==
  ASSUME Inv, Requests, pc = "sent", g_ctx.historieAbfrage,
         NEW type, type = Last({"H"}).s, NEW date, date = DateMeant(g_ctx, asOf),
         NEW parts, parts = PartsUnder(HistoryTag(type))
  PROVE  /\ type \in HistoryTypes
         /\ Leaf("DB_REQ_HISTORY_TIME_START", dateToTimestamp(date, type, IsdstMeant(g_ctx, asOf))) \subseteq parts
         /\ Leaf("DB_REQ_HISTORY_TIME_SPAN", HistorySpan(date, type)) \subseteq parts
<1> DEFINE c == g_ctx
           x == Leaf("DB_REQ_HISTORY_TIME_START", dateToTimestamp(date, type, IsdstMeant(c, asOf)))
           y == Leaf("DB_REQ_HISTORY_TIME_INTERVAL", HistoryInterval(type))
           z == Leaf("DB_REQ_HISTORY_TIME_SPAN", HistorySpan(date, type))
           leaves == x \cup y \cup z
           t == HistoryTag(type)
           p == [tag |-> t, content |-> 0, parts |-> leaves]
<1>1. Given({"H"})
  BY DEF Requests, Heard, HeardFlags, Given, GivenIn
<1>2. c.historieTyp = type
  BY <1>1 DEF Requests, Heard, HeardNumbers, Given, GivenIn, Last, LastOf, IsLast
<1>3. type \in HistoryTypes
  BY <1>2 DEF Inv, Checked, TypeKnown
<1>4. PICK dcb \in {None} \cup DcbIndices : CommandFrame(c, dcb)
  BY DEF Requests
<1>5. {PartOf(Values[i]) : i \in DOMAIN Values} = CommandSays(c, dcb, asOf)
  BY <1>4, CommandFound
<1>6. HistorySays(c, asOf) = {p}
  BY <1>2 DEF HistorySays, If, Part
<1>7. HistorySays(c, asOf) \subseteq CommandSays(c, dcb, asOf)
  BY DEF CommandSays
<1> HIDE DEF p, t, leaves
<1>8. PICK i \in DOMAIN Values : PartOf(Values[i]) = p
  BY <1>5, <1>6, <1>7
<1>9. Values[i].tag = t /\ PartsOf(Values[i]) = leaves
  BY <1>8 DEF PartOf, p
<1>10. leaves \subseteq parts
  BY <1>9 DEF t, PartsUnder
<1> QED BY <1>3, <1>10 DEF leaves

\* A history query starts at midnight of the first day of the period that its date lies
\* in and spans all of its days, also across a change of the clocks, which is never
\* within a week's midnights: for every date the checks accept and every "today" whose
\* tm_isdst is that of the first day; in leap years not for type "year".
THEOREM PeriodIsRight == Spec => []PeriodAsked
<1>1. ASSUME Inv, Requests, pc = "sent", g_ctx.historieAbfrage,
             NEW type, type = Last({"H"}).s, NEW date, date = DateMeant(g_ctx, asOf),
             NEW days, days = PeriodOf(date, type),
             NEW first, first = FirstDay(days),
             NEW parts, parts = PartsUnder(HistoryTag(type))
      PROVE  /\ IsdstMeant(g_ctx, asOf) \in {-1, Isdst(date.year, 24 * first)} =>
                  Leaf("DB_REQ_HISTORY_TIME_START", Midnight(date.year, first)) \subseteq parts
             /\ type # "year" \/ ~IsLeapYear(date.year) =>
                  Leaf("DB_REQ_HISTORY_TIME_SPAN", Cardinality(days)) \subseteq parts
             /\ g_ctx.historieDatum = "date" => DateExists(date)
  <2>1. /\ type \in HistoryTypes
        /\ Leaf("DB_REQ_HISTORY_TIME_START", dateToTimestamp(date, type, IsdstMeant(g_ctx, asOf))) \subseteq parts
        /\ Leaf("DB_REQ_HISTORY_TIME_SPAN", HistorySpan(date, type)) \subseteq parts
    BY <1>1, HistoryFound
  <2>2. /\ date.year \in Int /\ date.month \in 1..12 /\ date.day \in Int
        /\ g_ctx.historieDatum = "date" => DateExists(date)
    BY <1>1, DateIsMeant
  <2>3. /\ \A isdst \in {-1, Isdst(date.year, 24 * first)} :
              dateToTimestamp(date, type, isdst) = Midnight(date.year, first)
        /\ type # "year" \/ ~IsLeapYear(date.year) => HistorySpan(date, type) = Cardinality(days)
    BY <1>1, <2>1, <2>2, PeriodBegins
  <2> QED BY <2>1, <2>2, <2>3
<1>2. ASSUME Inv, Requests PROVE PeriodAsked
  <2> SUFFICES ASSUME pc = "sent", g_ctx.historieAbfrage PROVE PeriodAsked
    BY DEF PeriodAsked
  <2> DEFINE type  == Last({"H"}).s
             date  == DateMeant(g_ctx, asOf)
             days  == PeriodOf(date, type)
             first == FirstDay(days)
             parts == PartsUnder(HistoryTag(type))
  <2>1. /\ IsdstMeant(g_ctx, asOf) \in {-1, Isdst(date.year, 24 * first)} =>
             Leaf("DB_REQ_HISTORY_TIME_START", Midnight(date.year, first)) \subseteq parts
        /\ type # "year" \/ ~IsLeapYear(date.year) =>
             Leaf("DB_REQ_HISTORY_TIME_SPAN", Cardinality(days)) \subseteq parts
        /\ g_ctx.historieDatum = "date" => DateExists(date)
    <3>1. parts = PartsUnder(HistoryTag(type))
      OBVIOUS
    <3> HIDE DEF parts
    <3>2. first = FirstDay(days)
      OBVIOUS
    <3> HIDE DEF first
    <3>3. days = PeriodOf(date, type)
      OBVIOUS
    <3> HIDE DEF days
    <3>4. date = DateMeant(g_ctx, asOf) /\ type = Last({"H"}).s
      OBVIOUS
    <3> HIDE DEF date, type
    <3> QED BY <1>1, <1>2, <3>1, <3>2, <3>3, <3>4
  <2> QED BY <2>1, Zenon DEF PeriodAsked, PartsUnder, FirstDay
<1> QED BY <1>2, RequestsAlways, PTL
=============================================================================
