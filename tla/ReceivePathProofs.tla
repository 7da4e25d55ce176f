-------------------------- MODULE ReceivePathProofs -------------------------
(***************************************************************************)
(* Theorems about ReceivePath: for every block size, growth, limit and set *)
(* of frame lengths and pieces.                                            *)
(***************************************************************************)
EXTENDS ReceivePath, TLAPS

-----------------------------------------------------------------------------
(* Rounding *)

\* A multiple of y, at most x and less than y below it.
LEMMA RoundsDown ==
  ASSUME NEW x \in Nat, NEW y \in Nat \ {0}
  PROVE  /\ ROUNDDOWN(x, y) \in Nat
         /\ ROUNDDOWN(x, y) <= x
         /\ x < ROUNDDOWN(x, y) + y
         /\ ROUNDDOWN(x, y) = y * (x \div y)
BY DEF ROUNDDOWN

LEMMA MultiplesApart ==
  ASSUME NEW y \in Nat \ {0}, NEW a \in Nat, NEW b \in Nat, y * a < y * b + y
  PROVE  y * a <= y * b
OBVIOUS

\* The smallest multiple of y that is at least x: it is at most any other.
LEMMA RoundsUp ==
  ASSUME NEW x \in Nat, NEW y \in Nat \ {0}
  PROVE  /\ ROUNDUP(x, y) \in Nat
         /\ x <= ROUNDUP(x, y)
         /\ \A z \in Nat : x <= ROUNDDOWN(z, y) => ROUNDUP(x, y) <= ROUNDDOWN(z, y)
<1> DEFINE w == x + y - 1
<1>1. w \in Nat
  OBVIOUS
<1>2. ROUNDUP(x, y) = ROUNDDOWN(w, y)
  BY DEF ROUNDUP
<1>3. /\ ROUNDDOWN(w, y) \in Nat /\ ROUNDDOWN(w, y) <= w /\ w < ROUNDDOWN(w, y) + y
      /\ ROUNDDOWN(w, y) = y * (w \div y)
  <2> HIDE DEF w
  <2> QED BY <1>1, RoundsDown
<1>4. ASSUME NEW z \in Nat, x <= ROUNDDOWN(z, y)
      PROVE  ROUNDDOWN(w, y) <= ROUNDDOWN(z, y)
  <2>1. ROUNDDOWN(z, y) \in Nat /\ ROUNDDOWN(z, y) = y * (z \div y)
    BY RoundsDown
  <2>2. z \div y \in Nat /\ w \div y \in Nat
    BY <1>1
  <2>3. y * (w \div y) < y * (z \div y) + y
    BY <1>3, <1>4, <2>1
  <2> HIDE DEF w
  <2> QED BY <1>3, <2>1, <2>2, <2>3, MultiplesApart
<1> QED BY <1>2, <1>3, <1>4

-----------------------------------------------------------------------------
(* The stream *)

\* Where frame i begins: behind the frame before.
Begin(i) == IF i = 1 THEN 0 ELSE frames[i - 1].start + Padded(frames[i - 1])

\* The frames follow each other without a gap, no two at one place.
Stream ==
  /\ \A i \in 1..Len(frames) : frames[i].start = Begin(i) /\ frames[i].start < StreamEnd
  /\ \A i, j \in 1..Len(frames) : i < j => frames[i].start < frames[j].start

LEMMA LengthIsPositive ==
  ASSUME NEW f \in FrameType
  PROVE  f.length \in Nat \ {0}
<1>1. f.length \in FrameLengths
  BY DEF FrameType
<1>2. f.length \in 1..RSCP_MAX_FRAME_LENGTH
  BY <1>1, LengthsAssumption
<1> QED BY <1>2, LimitAssumption

LEMMA PaddedIsLong ==
  ASSUME NEW f \in FrameType
  PROVE  Padded(f) \in Nat /\ 0 < f.length /\ f.length <= Padded(f)
<1>1. f.length \in Nat \ {0}
  BY LengthIsPositive
<1> QED BY <1>1, RoundsUp, BlockAssumption DEF Padded

LEMMA StreamEndIsNat ==
  ASSUME frames \in Seq(FrameType)
  PROVE  StreamEnd \in Nat /\ StreamEnd = Begin(Len(frames) + 1)
<1>1. CASE frames = <<>>
  BY <1>1 DEF StreamEnd, Begin
<1>2. CASE frames # <<>>
  <2>1. Len(frames) \in Nat \ {0} /\ frames[Len(frames)] \in FrameType
    BY <1>2
  <2>2. Padded(frames[Len(frames)]) \in Nat /\ frames[Len(frames)].start \in Nat
    BY <2>1, PaddedIsLong DEF FrameType
  <2> QED BY <1>2, <2>1, <2>2 DEF StreamEnd, Begin
<1> QED BY <1>1, <1>2

-----------------------------------------------------------------------------
(* Types *)

\* A frame that is complete is in the buffer with its padding.
LEMMA CompleteFits ==
  ASSUME TypeOK, NEW f \in FrameType, f.length <= iLength
  PROVE  Processed(f) \in Nat /\ Processed(f) <= iReceivedBytes
<1>1. f.length \in Nat
  BY LengthIsPositive
<1>2. iReceivedBytes \in Nat
  BY DEF TypeOK
<1>3. iLength \in Nat /\ iLength <= iReceivedBytes
  BY <1>2, RoundsDown, BlockAssumption DEF iLength
<1>4. Processed(f) \in Nat /\ Processed(f) <= iLength
  BY <1>1, <1>2, RoundsUp, BlockAssumption DEF Processed, iLength
<1> QED BY <1>2, <1>3, <1>4

LEMMA TypeHoldsFirst == Init => TypeOK
BY DEF Init, TypeOK, Places, Reasons

LEMMA SentFrames ==
  ASSUME frames \in Seq(FrameType), NEW f \in Sent
  PROVE  f \in FrameType /\ \E k \in 1..Len(frames) : f = frames[k]
BY DEF Sent

LEMMA TypeStep == TypeOK /\ [Next]_vars => TypeOK'
<1> SUFFICES ASSUME TypeOK, [Next]_vars PROVE TypeOK'
  OBVIOUS
<1>1. CASE StationSends
  <2>1. PICK n \in FrameLengths, k \in Kinds :
          frames' = Append(frames, [start |-> StreamEnd, length |-> n, kind |-> k])
    BY <1>1 DEF StationSends
  <2>2. [start |-> StreamEnd, length |-> n, kind |-> k] \in FrameType
    BY StreamEndIsNat, KindsAssumption DEF TypeOK, FrameType
  <2>3. frames' \in Seq(FrameType)
    BY <2>1, <2>2 DEF TypeOK
  <2> QED BY <1>1, <2>3 DEF StationSends, loopVars, TypeOK
<1>2. CASE Enter \/ Leave \/ GiveUp \/ RoomEnough
  BY <1>2 DEF Enter, Leave, GiveUp, RoomEnough, TypeOK, Places, Reasons
<1>3. CASE Expand
  <2>1. bufferSize' \in Nat /\ iReceivedBytes <= bufferSize'
    BY <1>3, GrowthAssumption DEF Expand, TypeOK
  <2> QED BY <1>3, <2>1 DEF Expand, TypeOK, Places
<1>4. CASE Receive
  <2>1. PICK k \in Pieces : k <= Room /\ iReceivedBytes' = iReceivedBytes + k
    BY <1>4 DEF Receive
  <2>2. iReceivedBytes' \in Nat /\ iReceivedBytes' <= bufferSize
    BY <2>1, PiecesAssumption DEF TypeOK, Room
  <2> QED BY <1>4, <2>2 DEF Receive, TypeOK, Places
<1>5. CASE TimesOut \/ ConnectionFails \/ WaitsForMore \/ NoFrame
  BY <1>5 DEF TimesOut, ConnectionFails, WaitsForMore, NoFrame, TypeOK, Places, Reasons
<1>6. CASE TakeFrame
  <2>1. PICK f \in Sent :
          /\ Complete(f)
          /\ got' = Append(got, f)
          /\ ivEnd' = base + Processed(f)
          /\ base' = base + Processed(f)
          /\ iReceivedBytes' = iReceivedBytes - Processed(f)
          /\ intact' \in IF MayGarble(f) THEN BOOLEAN ELSE {intact}
    BY <1>6 DEF TakeFrame, NextIV
  <2>2. f \in FrameType
    BY SentFrames DEF TypeOK
  <2>3. f.length <= iLength
    <3>1. iLength \in Nat
      BY RoundsDown, BlockAssumption DEF iLength, TypeOK
    <3>2. f.length \in Nat
      BY <2>2, LengthIsPositive
    <3> QED BY <2>1, <3>1, <3>2 DEF Complete
  <2>4. Processed(f) \in Nat /\ Processed(f) <= iReceivedBytes
    BY <2>2, <2>3, CompleteFits
  <2>5. /\ iReceivedBytes' \in Nat /\ iReceivedBytes' <= bufferSize
        /\ base' \in Nat /\ ivEnd' \in Nat
    BY <2>1, <2>4 DEF TypeOK
  <2>6. got' \in Seq(FrameType)
    BY <2>1, <2>2 DEF TypeOK
  <2>7. intact' \in BOOLEAN
    BY <2>1 DEF TypeOK
  <2> QED BY <1>6, <2>5, <2>6, <2>7 DEF TakeFrame, AfterFrame, TypeOK, Places
<1>7. CASE UNCHANGED vars
  BY <1>7 DEF vars, loopVars, TypeOK
<1> QED BY <1>1, <1>2, <1>3, <1>4, <1>5, <1>6, <1>7 DEF Next, Program, Stopped

\* The counts of bytes fit together for every frame that comes, and in every
\* build: no more is taken out of the buffer than was received.
THEOREM TypeCorrect == Spec => []TypeOK
BY TypeHoldsFirst, TypeStep, PTL DEF Spec

-----------------------------------------------------------------------------
(* In step *)

\* The buffer begins with the frame that is next, the IV belongs to it, and
\* all of it has been sent.
InPlace ==
  /\ intact /\ ivEnd = base
  /\ Len(got) <= Len(frames) /\ \A k \in 1..Len(got) : got[k] = frames[k]
  /\ base = Begin(Len(got) + 1)
  /\ base + iReceivedBytes <= StreamEnd
  /\ ended # "no" => pc = "idle"

Safe == TypeOK /\ Stream /\ InPlace /\ InStep

LEMMA SafeFirst == Init => Safe
BY TypeHoldsFirst DEF Init, Safe, Stream, InPlace, InStep, Begin, StreamEnd

\* What has been sent stays, and the next frame begins where it ended.
LEMMA StreamGrows ==
  ASSUME TypeOK, Stream, StationSends
  PROVE  /\ Stream'
         /\ Len(frames') = Len(frames) + 1
         /\ \A k \in 1..Len(frames) : frames'[k] = frames[k]
         /\ \A i \in 1..Len(frames) + 1 : Begin(i)' = Begin(i)
         /\ StreamEnd \in Nat /\ StreamEnd' \in Nat /\ StreamEnd < StreamEnd'
<1>1. PICK n \in FrameLengths, k \in Kinds :
        frames' = Append(frames, [start |-> StreamEnd, length |-> n, kind |-> k])
  BY DEF StationSends
<1> DEFINE new == [start |-> StreamEnd, length |-> n, kind |-> k]
<1>2. StreamEnd \in Nat /\ StreamEnd = Begin(Len(frames) + 1)
  BY StreamEndIsNat DEF TypeOK
<1>3. new \in FrameType /\ new.start = StreamEnd
  BY <1>2, KindsAssumption DEF FrameType
<1>4. frames' = Append(frames, new)
  BY <1>1
<1> HIDE DEF new
<1>5. frames \in Seq(FrameType) /\ Len(frames) \in Nat
  BY DEF TypeOK
<1>6. /\ Len(frames') = Len(frames) + 1
      /\ frames'[Len(frames) + 1] = new
      /\ \A i \in 1..Len(frames) : frames'[i] = frames[i]
      /\ frames' # <<>>
  BY <1>3, <1>4, <1>5
<1>7. ASSUME NEW i \in 1..Len(frames) + 1
      PROVE  Begin(i)' = Begin(i)
  <2>1. i # 1 => i - 1 \in 1..Len(frames)
    BY <1>5
  <2> QED BY <1>6, <2>1 DEF Begin, Padded
<1>8. Padded(new) \in Nat /\ 0 < Padded(new)
  BY <1>3, PaddedIsLong, LengthIsPositive
<1>9. StreamEnd' = StreamEnd + Padded(new)
  BY <1>3, <1>6 DEF StreamEnd, Padded
<1>10. \A i \in 1..Len(frames') : frames'[i].start = Begin(i)' /\ frames'[i].start < StreamEnd'
  <2>1. ASSUME NEW i \in 1..Len(frames)
        PROVE  frames'[i].start = Begin(i)' /\ frames'[i].start < StreamEnd'
    <3>1. frames[i].start = Begin(i) /\ frames[i].start < StreamEnd /\ frames[i] \in FrameType
      BY <1>5, <2>1 DEF Stream
    <3>2. frames[i].start \in Nat
      BY <3>1 DEF FrameType
    <3>3. Begin(i)' = Begin(i)
      BY <1>5, <1>7
    <3> QED BY <1>2, <1>6, <1>8, <1>9, <3>1, <3>2, <3>3
  <2>2. ASSUME NEW i \in Nat, i = Len(frames) + 1
        PROVE  frames'[i].start = Begin(i)' /\ frames'[i].start < StreamEnd'
    <3>1. Begin(i)' = Begin(i)
      BY <1>5, <1>7, <2>2
    <3> QED BY <1>2, <1>3, <1>6, <1>8, <1>9, <2>2, <3>1
  <2> QED BY <1>5, <1>6, <2>1, <2>2
<1>11. \A i, j \in 1..Len(frames') : i < j => frames'[i].start < frames'[j].start
  <2> SUFFICES ASSUME NEW i \in 1..Len(frames'), NEW j \in 1..Len(frames'), i < j
               PROVE  frames'[i].start < frames'[j].start
    OBVIOUS
  <2>1. i \in 1..Len(frames)
    BY <1>5, <1>6
  <2>2. CASE j \in 1..Len(frames)
    BY <1>6, <2>1, <2>2 DEF Stream
  <2>3. CASE j = Len(frames) + 1
    BY <1>3, <1>6, <2>1, <2>3 DEF Stream
  <2> QED BY <1>5, <1>6, <2>2, <2>3
<1> QED BY <1>2, <1>6, <1>7, <1>8, <1>9, <1>10, <1>11 DEF Stream

\* The frame at the front of the buffer is the next in the stream, and there
\* is one whenever something is in the buffer.
LEMMA FrontIsNext ==
  ASSUME TypeOK, Stream, InPlace
  PROVE  /\ \A f \in Sent : f.start = base =>
              Len(got) < Len(frames) /\ f = frames[Len(got) + 1]
         /\ iReceivedBytes > 0 =>
              /\ Len(got) + 1 \in 1..Len(frames)
              /\ frames[Len(got) + 1] \in Sent
              /\ frames[Len(got) + 1].start = base
<1>1. /\ frames \in Seq(FrameType) /\ Len(frames) \in Nat
      /\ Len(got) \in Nat /\ Len(got) <= Len(frames)
      /\ base \in Nat /\ iReceivedBytes \in Nat
  BY DEF TypeOK, InPlace
<1>2. StreamEnd \in Nat /\ StreamEnd = Begin(Len(frames) + 1)
  BY StreamEndIsNat DEF TypeOK
<1>3. Len(got) < Len(frames) => frames[Len(got) + 1].start = base
  BY <1>1 DEF Stream, InPlace
<1>4. Len(got) = Len(frames) => base = StreamEnd
  BY <1>2 DEF InPlace
<1>5. ASSUME NEW f \in Sent, f.start = base
      PROVE  Len(got) < Len(frames) /\ f = frames[Len(got) + 1]
  <2>1. PICK k \in 1..Len(frames) : f = frames[k]
    BY <1>1, SentFrames
  <2>2. frames[k].start = base /\ base < StreamEnd
    BY <1>5, <2>1 DEF Stream
  <2>3. Len(got) < Len(frames)
    BY <1>1, <1>2, <1>4, <2>2
  <2>4. Len(got) + 1 \in 1..Len(frames)
    BY <1>1, <2>3
  <2>5. ~(k < Len(got) + 1) /\ ~(Len(got) + 1 < k)
    BY <1>1, <1>3, <2>2, <2>3, <2>4 DEF Stream
  <2> QED BY <1>1, <2>1, <2>3, <2>5
<1>6. ASSUME iReceivedBytes > 0
      PROVE  Len(got) + 1 \in 1..Len(frames)
  BY <1>1, <1>2, <1>4, <1>6 DEF InPlace
<1> QED BY <1>1, <1>3, <1>5, <1>6 DEF Sent

\* The frame taken is the next of the stream, and the buffer then begins with
\* the one behind it.
LEMMA TakesNext ==
  ASSUME TypeOK, Stream, InPlace, OverlapGarbles = FALSE, TakeFrame
  PROVE  /\ Len(got) < Len(frames)
         /\ got' = Append(got, frames[Len(got) + 1])
         /\ InPlace'
<1>1. PICK f \in Sent :
        /\ Complete(f)
        /\ got' = Append(got, f)
        /\ ivEnd' = base + Processed(f)
        /\ base' = base + Processed(f)
        /\ iReceivedBytes' = iReceivedBytes - Processed(f)
        /\ intact' \in IF MayGarble(f) THEN BOOLEAN ELSE {intact}
  BY DEF TakeFrame, NextIV
<1>2. Len(got) < Len(frames) /\ f = frames[Len(got) + 1]
  BY <1>1, FrontIsNext DEF Complete, Reads
<1>3. f \in FrameType /\ f.start = base
  BY <1>1, SentFrames DEF TypeOK, Complete, Reads
<1>4. f.length <= iLength
  <2>1. iLength \in Nat
    BY RoundsDown, BlockAssumption DEF iLength, TypeOK
  <2> QED BY <1>1, <1>3, <2>1, LengthIsPositive DEF Complete
<1>5. Processed(f) \in Nat /\ Processed(f) <= iReceivedBytes
  BY <1>3, <1>4, CompleteFits
<1>6. intact' = intact
  BY <1>1 DEF MayGarble
<1>7. /\ got \in Seq(FrameType) /\ Len(got) \in Nat /\ Len(frames) \in Nat
      /\ base \in Nat /\ iReceivedBytes \in Nat
  BY DEF TypeOK
<1>8. /\ Len(got') = Len(got) + 1
      /\ \A k \in 1..Len(got) : got'[k] = got[k]
      /\ got'[Len(got) + 1] = f
  BY <1>1, <1>3, <1>7
<1>9. frames' = frames /\ ended' = ended /\ pc = "parse"
  BY DEF TakeFrame
<1>10. ASSUME NEW k \in 1..Len(got') PROVE got'[k] = frames'[k]
  BY <1>2, <1>7, <1>8, <1>9 DEF InPlace
<1>11. (base = Begin(Len(got) + 1))'
  BY <1>1, <1>2, <1>3, <1>7, <1>8, <1>9 DEF Begin, Processed, Padded
<1>12. (base + iReceivedBytes <= StreamEnd)'
  BY <1>1, <1>5, <1>7, <1>9 DEF InPlace, StreamEnd, Padded
<1>13. (intact /\ ivEnd = base /\ Len(got) <= Len(frames))'
  BY <1>1, <1>2, <1>6, <1>7, <1>8, <1>9 DEF InPlace
<1>14. (ended # "no" => pc = "idle")'
  BY <1>9 DEF InPlace
<1> QED BY <1>1, <1>2, <1>10, <1>11, <1>12, <1>13, <1>14 DEF InPlace

\* What the other steps of the loop leave as it is.
Kept == UNCHANGED <<frames, base, ivEnd, intact, got>>

LEMMA LoopKeeps ==
  ASSUME Enter \/ Leave \/ Expand \/ GiveUp \/ RoomEnough \/ Receive \/ TimesOut
           \/ ConnectionFails \/ WaitsForMore \/ NoFrame \/ UNCHANGED vars
  PROVE  Kept
BY DEF Kept, Enter, Leave, Expand, GiveUp, RoomEnough, Receive, TimesOut,
       ConnectionFails, WaitsForMore, NoFrame, vars, loopVars

LEMMA KeptInPlace ==
  ASSUME Stream, InPlace, Kept,
         iReceivedBytes' = iReceivedBytes \/ (base + iReceivedBytes <= StreamEnd)',
         (ended # "no" => pc = "idle")'
  PROVE  Stream' /\ InPlace'
BY DEF Kept, Stream, InPlace, Begin, StreamEnd, Padded

\* Bytes are taken for no frame only if the frame at the front is unsound.
LEMMA RefusesUnsound ==
  ASSUME TypeOK, Stream, InPlace, NoFrame
  PROVE  InStep'
<1>1. iReceivedBytes > 0
  <2>1. iReceivedBytes \in Nat /\ iLength \in Nat /\ iLength <= iReceivedBytes /\ iLength > 0
    BY RoundsDown, BlockAssumption DEF iLength, TypeOK, NoFrame
  <2> QED BY <2>1
<1> DEFINE f == frames[Len(got) + 1]
<1>2. f \in Sent /\ f.start = base
  BY <1>1, FrontIsNext
<1>3. f \in FrameType
  BY <1>2, SentFrames DEF TypeOK
<1> HIDE DEF f
<1>4. f.kind # "sound"
  <2>1. SUFFICES ASSUME f.kind = "sound" PROVE FALSE
    OBVIOUS
  <2>2. Reads(f)
    BY <1>2, <2>1 DEF Reads, InPlace
  <2>3. iLength \in Nat /\ f.length \in Nat
    BY <1>3, LengthIsPositive, RoundsDown, BlockAssumption DEF iLength, TypeOK
  <2>4. iLength < f.length \/ iLength >= f.length
    BY <2>3
  <2> QED BY <1>2, <2>1, <2>2, <2>4 DEF NoFrame, Incomplete, Complete
<1>5. frames' = frames /\ base' = base
  BY DEF NoFrame
<1> QED BY <1>2, <1>4, <1>5 DEF InStep, Sent

LEMMA SafeStep == ASSUME OverlapGarbles = FALSE PROVE Safe /\ [Next]_vars => Safe'
<1> SUFFICES ASSUME Safe, [Next]_vars PROVE Safe'
  OBVIOUS
<1> USE DEF Safe
<1>1. TypeOK'
  BY TypeStep
<1>2. CASE StationSends
  <2>1. /\ Stream' /\ StreamEnd \in Nat /\ StreamEnd' \in Nat /\ StreamEnd < StreamEnd'
        /\ Len(frames') = Len(frames) + 1
        /\ \A k \in 1..Len(frames) : frames'[k] = frames[k]
        /\ \A i \in 1..Len(frames) + 1 : Begin(i)' = Begin(i)
    BY <1>2, StreamGrows
  <2>2. UNCHANGED loopVars
    BY <1>2 DEF StationSends
  <2>3. /\ Len(got) \in Nat /\ Len(frames) \in Nat /\ Len(got) <= Len(frames)
        /\ base \in Nat /\ iReceivedBytes \in Nat
    BY DEF TypeOK, InPlace
  <2>4. (Len(got) <= Len(frames) /\ \A k \in 1..Len(got) : got[k] = frames[k])'
    BY <2>1, <2>2, <2>3 DEF loopVars, InPlace
  <2>5. (base = Begin(Len(got) + 1))'
    <3>1. PICK i \in 1..Len(frames) + 1 : i = Len(got) + 1
      BY <2>3
    <3>2. Begin(i)' = Begin(i) /\ base = Begin(i)
      BY <2>1, <3>1 DEF InPlace
    <3> QED BY <2>2, <3>1, <3>2 DEF loopVars
  <2>6. (base + iReceivedBytes <= StreamEnd)'
    BY <2>1, <2>2, <2>3 DEF loopVars, InPlace
  <2>7. InPlace'
    BY <2>2, <2>4, <2>5, <2>6 DEF loopVars, InPlace
  <2>8. InStep'
    <3>1. \A f \in Sent : f \in Sent'
      BY <2>1, <2>3 DEF Sent, TypeOK
    <3> QED BY <2>2, <3>1 DEF InStep, loopVars
  <2> QED BY <1>1, <2>1, <2>7, <2>8
<1>3. CASE TakeFrame
  <2>1. InPlace'
    BY <1>3, TakesNext
  <2>2. Stream'
    BY <1>3 DEF TakeFrame, Stream, Begin, StreamEnd, Padded
  <2>3. InStep'
    BY <1>3 DEF TakeFrame, InPlace, InStep
  <2> QED BY <1>1, <2>1, <2>2, <2>3
<1>4. CASE Enter \/ Leave \/ Expand \/ GiveUp \/ RoomEnough \/ Receive \/ TimesOut
             \/ ConnectionFails \/ WaitsForMore \/ NoFrame \/ UNCHANGED vars
  <2>1. Kept
    BY <1>4, LoopKeeps
  <2>2. (ended # "no" => pc = "idle")'
    BY <1>4 DEF InPlace, Enter, Leave, GoesOn, Expand, GiveUp, RoomEnough, Receive, TimesOut,
                ConnectionFails, WaitsForMore, NoFrame, vars, loopVars
  <2>3. iReceivedBytes' = iReceivedBytes \/ (base + iReceivedBytes <= StreamEnd)'
    <3>1. CASE Receive
      <4>1. PICK k \in Pieces :
              base + iReceivedBytes + k <= StreamEnd /\ iReceivedBytes' = iReceivedBytes + k
        BY <3>1 DEF Receive
      <4>2. base + (iReceivedBytes + k) = base + iReceivedBytes + k
        BY PiecesAssumption DEF TypeOK
      <4>3. base' = base /\ StreamEnd' = StreamEnd
        BY <2>1 DEF Kept, StreamEnd, Padded
      <4> QED BY <4>1, <4>2, <4>3
    <3>2. CASE ~Receive
      BY <1>4, <3>2 DEF Enter, Leave, Expand, GiveUp, RoomEnough, TimesOut,
                        ConnectionFails, WaitsForMore, NoFrame, vars, loopVars
    <3> QED BY <3>1, <3>2
  <2>4. Stream' /\ InPlace'
    BY <2>1, <2>2, <2>3, KeptInPlace
  <2>5. InStep'
    <3>1. CASE NoFrame
      BY <3>1, RefusesUnsound
    <3>2. CASE ~NoFrame
      <4>1. ended' = ended \/ ended' # "no frame"
        BY <1>4, <3>2 DEF Enter, Leave, Expand, GiveUp, RoomEnough, Receive, TimesOut,
                          ConnectionFails, WaitsForMore, vars, loopVars
      <4> QED BY <2>1, <4>1 DEF Kept, InStep, Sent
    <3> QED BY <3>1, <3>2
  <2> QED BY <1>1, <2>4, <2>5
<1> QED BY <1>2, <1>3, <1>4 DEF Next, Program, Stopped

\* Where memcpy copies upwards, the invariant behind the theorems below holds.
LEMMA SafeAlways == ASSUME OverlapGarbles = FALSE PROVE Spec => []Safe
BY SafeFirst, SafeStep, PTL DEF Spec

\* However the stream is cut into pieces and whenever a receive times out, the
\* connection is given up for bytes that are no frame only where the station
\* sent such bytes: buffer, count and IV stay in step.
THEOREM StaysInStep == ASSUME OverlapGarbles = FALSE PROVE Spec => []InStep
BY SafeAlways, PTL DEF Safe

\* Every frame sent is handed on whole and in its turn: the receive path
\* implements FrameQueue.
THEOREM QueueImplemented == ASSUME OverlapGarbles = FALSE PROVE Spec => HandsOnInOrder
<1>1. Init => Queue!Init
  BY DEF Init, Queue!Init
<1>2. Safe /\ [Next]_vars => [Queue!Next]_(Queue!vars)
  <2> SUFFICES ASSUME Safe, [Next]_vars PROVE [Queue!Next]_(Queue!vars)
    OBVIOUS
  <2>1. CASE StationSends
    <3>1. PICK n \in FrameLengths, k \in Kinds :
            frames' = Append(frames, [start |-> StreamEnd, length |-> n, kind |-> k])
      BY <2>1 DEF StationSends
    <3> DEFINE new == [start |-> StreamEnd, length |-> n, kind |-> k]
    <3>2. new \in FrameType
      BY StreamEndIsNat, KindsAssumption DEF Safe, TypeOK, FrameType
    <3>3. frames' = Append(frames, new)
      BY <3>1
    <3> HIDE DEF new
    <3>4. frames' # <<>> /\ frames'[Len(frames')] = new
      BY <3>2, <3>3 DEF Safe, TypeOK
    <3>5. Queue!Put
      BY <2>1, <3>2, <3>3, <3>4 DEF StationSends, loopVars, Queue!Put
    <3> QED BY <3>5 DEF Queue!Next
  <2>2. CASE TakeFrame
    BY <2>2, TakesNext DEF Safe, TakeFrame, Queue!Next, Queue!Take
  <2>3. CASE Enter \/ Leave \/ Expand \/ GiveUp \/ RoomEnough \/ Receive \/ TimesOut
               \/ ConnectionFails \/ WaitsForMore \/ NoFrame \/ UNCHANGED vars
    BY <2>3, LoopKeeps DEF Kept, Queue!vars
  <2> QED BY <2>1, <2>2, <2>3 DEF Next, Program, Stopped
<1> QED BY <1>1, <1>2, SafeAlways, PTL DEF Spec, HandsOnInOrder, Queue!Spec

-----------------------------------------------------------------------------
(* Nothing is held back *)

\* What reaches beyond a rounded length does so in whole multiples.
LEMMA RoundingOrder ==
  ASSUME NEW x \in Nat, NEW y \in Nat \ {0}, NEW z \in Nat, ROUNDUP(x, y) <= z
  PROVE  ROUNDUP(x, y) <= ROUNDDOWN(z, y)
<1> DEFINE w == x + y - 1
<1>1. w \in Nat /\ ROUNDUP(x, y) = ROUNDDOWN(w, y)
  BY DEF ROUNDUP
<1>2. w \div y \in Nat /\ z \div y \in Nat
  BY <1>1
<1> HIDE DEF w
<1>3. ROUNDDOWN(w, y) = y * (w \div y)
  BY <1>1, RoundsDown
<1>4. ROUNDDOWN(z, y) = y * (z \div y) /\ z < ROUNDDOWN(z, y) + y /\ ROUNDDOWN(z, y) \in Nat
  BY RoundsDown
<1>5. y * (w \div y) < y * (z \div y) + y
  <2>1. ROUNDDOWN(w, y) \in Nat
    BY <1>1, RoundsDown
  <2>2. ROUNDDOWN(w, y) <= z
    BY <1>1
  <2> HIDE DEF ROUNDDOWN
  <2> QED BY <1>3, <1>4, <2>1, <2>2
<1> QED BY <1>1, <1>2, <1>3, <1>4, <1>5, MultiplesApart

\* Outside of the inner loop the frame at the front is not there as a whole.
FrontOpen == \A f \in Sent : f.start = base => iReceivedBytes < Padded(f)

Open == pc # "parse" /\ ended = "no" => FrontOpen

LEMMA FrontKept ==
  ASSUME FrontOpen, Kept, iReceivedBytes' = iReceivedBytes
  PROVE  FrontOpen'
BY DEF FrontOpen, Kept, Sent, Padded

\* The inner loop is left for more bytes only with an open frame in front.
LEMMA WaitsOpen ==
  ASSUME Safe, WaitsForMore
  PROVE  FrontOpen
<1> SUFFICES ASSUME NEW f \in Sent, f.start = base
             PROVE  iReceivedBytes < Padded(f)
  BY DEF FrontOpen
<1> USE DEF Safe
<1>1. f \in FrameType
  BY SentFrames DEF TypeOK
<1>2. /\ f.length \in Nat /\ 0 < f.length
      /\ Padded(f) \in Nat /\ f.length <= Padded(f)
  BY <1>1, LengthIsPositive, PaddedIsLong
<1>3. iReceivedBytes \in Nat /\ iLength \in Nat
  BY RoundsDown, BlockAssumption DEF iLength, TypeOK
<1>4. iLength < f.length
  <2>1. CASE iLength = 0
    BY <1>2, <2>1
  <2>2. CASE \E g \in Sent : Incomplete(g)
    <3>1. PICK g \in Sent : Incomplete(g)
      BY <2>2
    <3>2. g.start = base /\ iLength < g.length
      BY <3>1 DEF Incomplete, Reads
    <3>3. g = f
      BY <3>2, FrontIsNext
    <3> QED BY <3>2, <3>3
  <2> QED BY <2>1, <2>2 DEF WaitsForMore
<1>5. SUFFICES ASSUME Padded(f) <= iReceivedBytes PROVE FALSE
  BY <1>2, <1>3
<1>6. Padded(f) <= iLength
  BY <1>2, <1>3, <1>5, RoundingOrder, BlockAssumption DEF Padded, iLength
<1> QED BY <1>2, <1>3, <1>4, <1>6

LEMMA OpenStep == Safe /\ Safe' /\ Open /\ [Next]_vars => Open'
<1> SUFFICES ASSUME Safe, Safe', Open, [Next]_vars, (pc # "parse" /\ ended = "no")'
             PROVE  FrontOpen'
  BY DEF Open
<1>1. CASE StationSends
  <2>1. UNCHANGED loopVars
    BY <1>1 DEF StationSends
  <2>2. FrontOpen
    BY <2>1 DEF Open, loopVars
  <2>3. /\ Len(frames') = Len(frames) + 1
        /\ \A k \in 1..Len(frames) : frames'[k] = frames[k]
        /\ StreamEnd \in Nat
    BY <1>1, StreamGrows DEF Safe
  <2>4. PICK n \in FrameLengths, k \in Kinds :
          frames' = Append(frames, [start |-> StreamEnd, length |-> n, kind |-> k])
    BY <1>1 DEF StationSends
  <2> DEFINE new == [start |-> StreamEnd, length |-> n, kind |-> k]
  <2>5. new \in FrameType /\ new.start = StreamEnd
    BY <2>3, KindsAssumption DEF FrameType
  <2>6. frames' = Append(frames, new)
    BY <2>4
  <2> HIDE DEF new
  <2>7. /\ frames \in Seq(FrameType) /\ base \in Nat /\ iReceivedBytes \in Nat
        /\ base + iReceivedBytes <= StreamEnd
    BY DEF Safe, TypeOK, InPlace
  <2>8. \A f \in Sent' : f \in Sent \/ f = new
    BY <2>6, <2>7 DEF Sent
  <2>9. ASSUME NEW f \in Sent', f.start = base
        PROVE  iReceivedBytes < Padded(f)
    <3>1. CASE f \in Sent
      BY <2>2, <2>9, <3>1 DEF FrontOpen
    <3>2. CASE f = new
      <4>1. Padded(new) \in Nat /\ 0 < Padded(new)
        BY <2>5, PaddedIsLong, LengthIsPositive
      <4> QED BY <2>3, <2>5, <2>7, <2>9, <3>2, <4>1
    <3> QED BY <2>8, <3>1, <3>2
  <2> QED BY <2>1, <2>9 DEF FrontOpen, loopVars, Padded
<1>2. CASE Enter \/ Leave \/ Expand \/ RoomEnough \/ TimesOut \/ UNCHANGED vars
  <2>1. Kept /\ iReceivedBytes' = iReceivedBytes
    BY <1>2, LoopKeeps DEF Enter, Leave, Expand, RoomEnough, TimesOut, vars, loopVars
  <2>2. pc # "parse" /\ ended = "no"
    BY <1>2 DEF Enter, Leave, GoesOn, Expand, RoomEnough, TimesOut, vars, loopVars
  <2> QED BY <2>1, <2>2, FrontKept DEF Open
<1>3. CASE WaitsForMore
  <2>1. Kept /\ iReceivedBytes' = iReceivedBytes
    BY <1>3, LoopKeeps DEF WaitsForMore
  <2> QED BY <1>3, <2>1, WaitsOpen, FrontKept
<1>4. CASE GiveUp \/ ConnectionFails \/ NoFrame
  BY <1>4 DEF GiveUp, ConnectionFails, NoFrame
<1>5. CASE Receive \/ TakeFrame
  BY <1>5 DEF Receive, TakeFrame, AfterFrame
<1> QED BY <1>1, <1>2, <1>3, <1>4, <1>5 DEF Next, Program, Stopped

LEMMA OpenFirst == Init => Open
BY DEF Init, Open, FrontOpen, Sent

LEMMA RecvRuns == Safe /\ pc = "recv" => ended = "no"
BY DEF Safe, InPlace

\* The program never blocks in recv with a whole frame in its buffer.
THEOREM HoldsNothingBack == ASSUME OverlapGarbles = FALSE PROVE Spec => []NothingHeldBack
<1>1. Safe /\ Open => NothingHeldBack
  BY RecvRuns DEF Open, FrontOpen, NothingHeldBack
<1> QED BY <1>1, OpenFirst, OpenStep, SafeAlways, PTL DEF Spec

-----------------------------------------------------------------------------
(* The size of the buffer *)

Multiple == \E q \in Nat : bufferSize = Growth * q

\* A multiple of the growth beyond the limit is a growth or more above the
\* last multiple within it.
LEMMA BeyondLimit ==
  ASSUME NEW g \in Nat \ {0}, NEW q \in Nat, NEW m \in Nat, g * q > m
  PROVE  /\ m \div g \in Nat /\ g * (m \div g) \in Nat
         /\ g * q >= g * (m \div g) + g
<1> DEFINE d == m \div g
<1>1. d \in Nat /\ g * d \in Nat /\ g * d <= m
  OBVIOUS
<1> HIDE DEF d
<1>2. d < q
  <2>1. SUFFICES ASSUME q <= d PROVE FALSE
    BY <1>1
  <2>2. g * q <= g * d
    BY <1>1, <2>1
  <2> QED BY <1>1, <2>2
<1>3. g * (d + 1) <= g * q
  BY <1>1, <1>2
<1>4. g * (d + 1) = g * d + g
  BY <1>1
<1> QED BY <1>1, <1>3, <1>4 DEF d

\* Where the growth is made of whole blocks, so is a multiple of it.
LEMMA WholeBlocks ==
  ASSUME NEW y \in Nat \ {0}, NEW m \in Nat, NEW d \in Nat
  PROVE  (y * m) * d \in Nat /\ ROUNDDOWN((y * m) * d, y) = (y * m) * d
<1>1. (y * m) * d = y * (m * d) /\ m * d \in Nat
  OBVIOUS
<1>2. ASSUME NEW k \in Nat PROVE (y * k) % y = 0 /\ y * k \in Nat
  OBVIOUS
<1>3. (y * (m * d)) % y = 0 /\ y * (m * d) \in Nat
  BY <1>1, <1>2
<1>4. ASSUME NEW z \in Nat, z % y = 0 PROVE z - (z % y) = z
  BY <1>4
<1> QED BY <1>1, <1>3, <1>4 DEF ROUNDDOWN

Fits == Multiple /\ BufferFits

LEMMA FitsFirst == Init => Fits
<1>1. Growth * 0 = 0
  BY GrowthAssumption
<1> QED BY <1>1 DEF Init, Fits, Multiple, BufferFits

\* The buffer is refused only for a frame beyond the last multiple.
LEMMA RefusesLargest ==
  ASSUME NEW m \in Nat, Growth = AES_BLOCK_SIZE * m, Safe, Open, Multiple, GiveUp
  PROVE  BufferFits'
<1> DEFINE L == Growth * (RSCP_MAX_FRAME_LENGTH \div Growth)
<1>1. PICK q \in Nat : bufferSize = Growth * q
  BY DEF Multiple
<1>2. Growth * q > RSCP_MAX_FRAME_LENGTH
  BY <1>1 DEF GiveUp, TooLarge
<1>3. /\ RSCP_MAX_FRAME_LENGTH \div Growth \in Nat
      /\ L \in Nat /\ bufferSize >= L + Growth
  BY <1>1, <1>2, BeyondLimit, GrowthAssumption, LimitAssumption
<1>4. ROUNDDOWN(L, AES_BLOCK_SIZE) = L
  BY <1>3, WholeBlocks, BlockAssumption
<1> HIDE DEF L
<1>5. iReceivedBytes \in Nat /\ bufferSize \in Nat /\ Growth \in Nat
  BY GrowthAssumption DEF Safe, TypeOK
<1>6. L < iReceivedBytes
  <2>1. \A b, l, g, r \in Nat : b >= l + g /\ b - r < g => l < r
    OBVIOUS
  <2>2. bufferSize - iReceivedBytes < Growth
    BY DEF GiveUp, Room
  <2> QED BY <1>3, <1>5, <2>1, <2>2
<1> DEFINE f == frames[Len(got) + 1]
<1>7. f \in Sent /\ f.start = base
  BY <1>3, <1>5, <1>6, FrontIsNext DEF Safe
<1>8. f \in FrameType
  BY <1>7, SentFrames DEF Safe, TypeOK
<1> HIDE DEF f
<1>9. iReceivedBytes < Padded(f)
  BY <1>7 DEF Open, FrontOpen, GiveUp, GoesOn, Safe, InPlace
<1>10. f.length \in Nat /\ Padded(f) \in Nat
  BY <1>8, LengthIsPositive, PaddedIsLong
<1>11. f.length > L
  <2>1. SUFFICES ASSUME f.length <= L PROVE FALSE
    BY <1>3, <1>10
  <2>2. Padded(f) <= L
    BY <1>3, <1>4, <1>10, <2>1, RoundsUp, BlockAssumption DEF Padded
  <2> QED BY <1>3, <1>5, <1>6, <1>9, <1>10, <2>2
<1>12. frames' = frames /\ base' = base
  BY DEF GiveUp
<1> QED BY <1>7, <1>11, <1>12 DEF BufferFits, Sent, L

LEMMA FitsStep ==
  ASSUME NEW m \in Nat, Growth = AES_BLOCK_SIZE * m
  PROVE  Safe /\ Open /\ Fits /\ [Next]_vars => Fits'
<1> SUFFICES ASSUME Safe, Open, Fits, [Next]_vars PROVE Fits'
  OBVIOUS
<1>1. Multiple'
  <2>1. CASE Expand
    <3>1. PICK q \in Nat : bufferSize = Growth * q
      BY DEF Fits, Multiple
    <3>2. Growth * (q + 1) = Growth * q + Growth
      BY GrowthAssumption
    <3> QED BY <2>1, <3>1, <3>2 DEF Expand, Multiple
  <2>2. CASE ~Expand
    <3>1. bufferSize' = bufferSize
      BY <2>2 DEF Next, Program, Stopped, StationSends, Enter, Leave, GiveUp, RoomEnough,
                  Receive, TimesOut, ConnectionFails, WaitsForMore, NoFrame, TakeFrame,
                  vars, loopVars
    <3> QED BY <3>1 DEF Fits, Multiple
  <2> QED BY <2>1, <2>2
<1>2. BufferFits'
  <2>1. CASE GiveUp
    BY <2>1, RefusesLargest DEF Fits
  <2>2. CASE StationSends
    <3>1. \A f \in Sent : f \in Sent'
      <4>1. /\ Len(frames') = Len(frames) + 1
            /\ \A k \in 1..Len(frames) : frames'[k] = frames[k]
        BY <2>2, StreamGrows DEF Safe
      <4> QED BY <2>2, <4>1 DEF Safe, TypeOK, Sent, StationSends
    <3> QED BY <2>2, <3>1 DEF StationSends, loopVars, Fits, BufferFits
  <2>3. CASE TakeFrame
    BY <2>3 DEF TakeFrame, Safe, InPlace, BufferFits
  <2>4. CASE Enter \/ Leave \/ Expand \/ RoomEnough \/ Receive \/ TimesOut
               \/ ConnectionFails \/ WaitsForMore \/ NoFrame \/ UNCHANGED vars
    <3>1. Kept
      BY <2>4, LoopKeeps
    <3>2. ended' = ended \/ ended' # "too large"
      BY <2>4 DEF Enter, Leave, Expand, RoomEnough, Receive, TimesOut,
                  ConnectionFails, WaitsForMore, NoFrame, vars, loopVars
    <3> QED BY <3>1, <3>2 DEF Kept, Fits, BufferFits, Sent
  <2> QED BY <2>1, <2>2, <2>3, <2>4 DEF Next, Program, Stopped
<1> QED BY <1>1, <1>2 DEF Fits

\* Where the growth is made of whole blocks, as 4096 is of 32, the buffer is
\* refused only for frames beyond the last multiple of the growth within the
\* limit, that is of more than 65536 bytes in the code.
THEOREM RefusesOnlyLargest ==
  ASSUME OverlapGarbles = FALSE, NEW m \in Nat, Growth = AES_BLOCK_SIZE * m
  PROVE  Spec => []BufferFits
<1>1. Safe /\ Open /\ Fits /\ [Next]_vars => Fits'
  BY FitsStep
<1>2. Fits => BufferFits
  BY DEF Fits
<1>3. Spec => []Safe
  BY SafeAlways
<1> QED BY <1>1, <1>2, <1>3, FitsFirst, OpenFirst, OpenStep, PTL DEF Spec
=============================================================================
