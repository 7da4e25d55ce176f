---------------------------- MODULE ReceivePath -----------------------------
(***************************************************************************)
(* How frames are cut out of the byte stream: receiveLoop with its static  *)
(* buffer, processReceiveBuffer and parseFrame (src/src/rscp_handler.cpp,  *)
(* src/src/RscpProtocol.cpp).                                              *)
(*                                                                         *)
(* The station encrypts each frame, padded with zeros to whole blocks, as  *)
(* one chain of blocks from the first frame to the last.  Bytes are not    *)
(* modelled one by one: a byte is its position in that stream, the buffer  *)
(* holds a stretch of it, and a block decrypts to what was sent when the   *)
(* block before it was used as its IV.                                     *)
(***************************************************************************)
EXTENDS Naturals, Sequences

CONSTANTS
  AES_BLOCK_SIZE,
  Growth,                   \* the buffer grows by so much, 4096
  RSCP_MAX_FRAME_LENGTH,
  FrameLengths,             \* lengths of frames, header and CRC included
  Kinds,                    \* the kinds of frames explored
  MaxFrames,                \* bound: frames the station sends
  Pieces,                   \* the numbers of bytes one recv may return
  OverlapGarbles            \* memcpy may garble regions that overlap

FrameKinds == {"sound",
               "no frame",  \* not RSCP, or encrypted with another key
               "bad crc"}

ASSUME BlockAssumption == AES_BLOCK_SIZE \in Nat \ {0}     \* a power of two
ASSUME GrowthAssumption == Growth \in Nat \ {0}
ASSUME LimitAssumption == RSCP_MAX_FRAME_LENGTH \in Nat
ASSUME LengthsAssumption == FrameLengths \subseteq 1..RSCP_MAX_FRAME_LENGTH
ASSUME KindsAssumption == Kinds \subseteq FrameKinds
ASSUME FramesAssumption == MaxFrames \in Nat
ASSUME PiecesAssumption == Pieces \subseteq Nat \ {0}
ASSUME OverlapAssumption == OverlapGarbles \in BOOLEAN

VARIABLES
  frames,                   \* the stream: the frames the station has sent
  pc,                       \* "idle" outside of receiveLoop, else see Places
  iReceivedBytes,           \* bytes in use at the front of vecDynamicBuffer
  bufferSize,               \* vecDynamicBuffer.size()
  base,                     \* position in the stream of vecDynamicBuffer[0]
  ivEnd,                    \* ucDecryptionIV is the block that ends here
  intact,                   \* the bytes in use are those received
  iReceivedRscpFrames,      \* in this call; only 0 and > 0 are told apart
  ended,                    \* why bStopExecution is set; "no" while it is not
  got                       \* history: the frames handed on

loopVars == <<pc, iReceivedBytes, bufferSize, base, ivEnd, intact,
              iReceivedRscpFrames, ended, got>>
vars     == <<frames, loopVars>>

Places == {"idle",    \* outside of receiveLoop
           "head",    \* head of its outer loop
           "recv",    \* in recv
           "parse"}   \* head of its inner loop

Reasons == {"no", "closed", "too large", "no frame"}

-----------------------------------------------------------------------------
(* The station and its stream *)

ROUNDDOWN(x, y) == x - (x % y)
ROUNDUP(x, y)   == ROUNDDOWN(x + y - 1, y)

Padded(f) == ROUNDUP(f.length, AES_BLOCK_SIZE)

\* Where the next frame will begin.
StreamEnd == IF frames = <<>> THEN 0
             ELSE frames[Len(frames)].start + Padded(frames[Len(frames)])

Sent == {frames[k] : k \in DOMAIN frames}

\* Nothing behind an unsound frame is looked at, so none is sent.
StationSends ==
  /\ Len(frames) < MaxFrames
  /\ \A f \in Sent : f.kind = "sound"
  /\ \E n \in FrameLengths, k \in Kinds :
       frames' = Append(frames, [start |-> StreamEnd, length |-> n, kind |-> k])
  /\ UNCHANGED loopVars

-----------------------------------------------------------------------------
(* The outer loop: make room, receive *)

\* Slip: the buffer does not outlive the call, what is in it is lost.
EnterWithFreshBuffer ==
  /\ pc = "idle" /\ ended = "no"
  /\ pc' = "head"
  /\ iReceivedRscpFrames' = 0
  /\ iReceivedBytes' = 0 /\ base' = base + iReceivedBytes
  /\ UNCHANGED <<frames, bufferSize, ivEnd, intact, ended, got>>

Enter ==
  /\ pc = "idle" /\ ended = "no"
  /\ pc' = "head"
  /\ iReceivedRscpFrames' = 0
  /\ UNCHANGED <<frames, iReceivedBytes, bufferSize, base, ivEnd, intact, ended, got>>

Leave ==
  /\ pc = "head"
  /\ iReceivedBytes = 0 /\ iReceivedRscpFrames > 0
  /\ pc' = "idle"
  /\ UNCHANGED <<frames, iReceivedBytes, bufferSize, base, ivEnd, intact,
                 iReceivedRscpFrames, ended, got>>

GoesOn == pc = "head" /\ (iReceivedBytes > 0 \/ iReceivedRscpFrames = 0)

Room == bufferSize - iReceivedBytes

\* Slip: the size is looked at as it would be after growing.
TooLargeAfterGrowth == bufferSize + Growth > RSCP_MAX_FRAME_LENGTH

TooLarge == bufferSize > RSCP_MAX_FRAME_LENGTH

Expand ==
  /\ GoesOn
  /\ Room < Growth
  /\ ~TooLarge
  /\ bufferSize' = bufferSize + Growth
  /\ pc' = "recv"
  /\ UNCHANGED <<frames, iReceivedBytes, base, ivEnd, intact, iReceivedRscpFrames, ended, got>>

GiveUp ==
  /\ GoesOn
  /\ Room < Growth
  /\ TooLarge
  /\ ended' = "too large"
  /\ pc' = "idle"
  /\ UNCHANGED <<frames, iReceivedBytes, bufferSize, base, ivEnd, intact,
                 iReceivedRscpFrames, got>>

RoomEnough ==
  /\ GoesOn
  /\ Room >= Growth
  /\ pc' = "recv"
  /\ UNCHANGED <<frames, iReceivedBytes, bufferSize, base, ivEnd, intact,
                 iReceivedRscpFrames, ended, got>>

\* recv returns as many of the bytes sent as have come and there is room for.
Receive ==
  /\ pc = "recv"
  /\ \E k \in Pieces :
       /\ k <= Room
       /\ base + iReceivedBytes + k <= StreamEnd
       /\ iReceivedBytes' = iReceivedBytes + k
  /\ pc' = "parse"
  /\ UNCHANGED <<frames, bufferSize, base, ivEnd, intact, iReceivedRscpFrames, ended, got>>

\* What is in the buffer stays there for the next call.
TimesOut ==
  /\ pc = "recv"
  /\ pc' = "idle"
  /\ UNCHANGED <<frames, iReceivedBytes, bufferSize, base, ivEnd, intact,
                 iReceivedRscpFrames, ended, got>>

\* A socket error, or the peer has closed the connection.
ConnectionFails ==
  /\ pc = "recv"
  /\ ended' = "closed"
  /\ pc' = "idle"
  /\ UNCHANGED <<frames, iReceivedBytes, bufferSize, base, ivEnd, intact,
                 iReceivedRscpFrames, got>>

-----------------------------------------------------------------------------
(* The inner loop: decrypt what has come, hand on a frame *)

iLength == ROUNDDOWN(iReceivedBytes, AES_BLOCK_SIZE)

\* The decrypted buffer begins with the header of f.
Reads(f) == intact /\ ivEnd = base /\ f.start = base /\ f.kind # "no frame"

\* The header is that of f, but f has not come to its end.
Incomplete(f) == Reads(f) /\ iLength < f.length

Complete(f) == Reads(f) /\ iLength >= f.length

WaitsForMore ==
  /\ pc = "parse"
  /\ iLength = 0 \/ \E f \in Sent : Incomplete(f)
  /\ pc' = "head"
  /\ UNCHANGED <<frames, iReceivedBytes, bufferSize, base, ivEnd, intact,
                 iReceivedRscpFrames, ended, got>>

\* No magic or version of RSCP, or a wrong CRC.
NoFrame ==
  /\ pc = "parse"
  /\ iLength > 0
  /\ \A f \in Sent : ~Incomplete(f) /\ ~(Complete(f) /\ f.kind = "sound")
  /\ ended' = "no frame"
  /\ pc' = "idle"
  /\ UNCHANGED <<frames, iReceivedBytes, bufferSize, base, ivEnd, intact,
                 iReceivedRscpFrames, got>>

\* Slip: a frame that ends with a block is taken to be padded by another.
BlockTooMany(f) == ROUNDDOWN(f.length + AES_BLOCK_SIZE, AES_BLOCK_SIZE)

\* Slip: all that was decrypted is taken for the frame.
AllDecrypted(f) == iLength

\* The bytes of the buffer that frame f makes up.
Processed(f) == ROUNDUP(f.length, AES_BLOCK_SIZE)

\* Slip: the IV is the last block decrypted.
LastDecrypted(f) == base + iLength

\* The IV for what follows frame f: the last block of it.
NextIV(f) == base + Processed(f)

\* The rest of the buffer is moved to its front by memcpy, whose result is
\* undefined if the regions overlap.
MayGarble(f) ==
  /\ OverlapGarbles
  /\ bufferSize - Processed(f) > Processed(f)
  /\ iReceivedBytes > Processed(f)

\* Slip: one frame per recv, the rest is looked at when more has come.
OneFramePerReceive == "head"

AfterFrame == "parse"

TakeFrame ==
  /\ pc = "parse"
  /\ \E f \in Sent :
       /\ iLength > 0 /\ Complete(f) /\ f.kind = "sound"
       /\ got' = Append(got, f)
       /\ ivEnd' = NextIV(f)
       /\ base' = base + Processed(f)
       /\ iReceivedBytes' = iReceivedBytes - Processed(f)
       /\ intact' \in IF MayGarble(f) THEN BOOLEAN ELSE {intact}
  /\ iReceivedRscpFrames' = 1
  /\ pc' = AfterFrame
  /\ UNCHANGED <<frames, bufferSize, ended>>

-----------------------------------------------------------------------------
(* The whole *)

Init ==
  /\ frames = <<>>
  /\ pc = "idle" /\ ended = "no"
  /\ iReceivedBytes = 0 /\ bufferSize = 0
  /\ base = 0 /\ ivEnd = 0 /\ intact = TRUE
  /\ iReceivedRscpFrames = 0
  /\ got = <<>>

Program == \/ Enter \/ Leave \/ Expand \/ GiveUp \/ RoomEnough
           \/ WaitsForMore \/ NoFrame \/ TakeFrame

Stopped == ended # "no" /\ UNCHANGED vars

Next == StationSends \/ Program \/ Receive \/ TimesOut \/ ConnectionFails \/ Stopped

Spec == Init /\ [][Next]_vars

(* The program always takes its next step, and a program that keeps waiting
   for them gets the bytes that were sent. *)
FairSpec == Spec /\ WF_vars(Program) /\ SF_vars(Receive)

-----------------------------------------------------------------------------
(* Properties *)

FrameType == [start: Nat, length: FrameLengths, kind: FrameKinds]

\* Every variable keeps to its values; the buffer is as large as what is in it.
TypeOK ==
  /\ frames \in Seq(FrameType) /\ got \in Seq(FrameType)
  /\ pc \in Places /\ ended \in Reasons
  /\ iReceivedBytes \in Nat /\ bufferSize \in Nat /\ iReceivedBytes <= bufferSize
  /\ base \in Nat /\ ivEnd \in Nat /\ intact \in BOOLEAN
  /\ iReceivedRscpFrames \in {0, 1}

\* Buffer, IV and count of bytes stay in step: however the stream is cut into
\* pieces, and over timeouts, a connection is given up for bytes that are no
\* frame only where the station sent such bytes.
InStep == ended = "no frame" => \E f \in Sent : f.start = base /\ f.kind # "sound"

\* While the loop waits, no whole frame is in the buffer: an answer that has
\* come is handled before the program blocks for the next.
NothingHeldBack ==
  pc = "recv" => \A f \in Sent : f.start = base => iReceivedBytes < Padded(f)

\* The buffer is large enough for every frame up to a multiple of its growth.
BufferFits ==
  ended = "too large" =>
    \E f \in Sent : f.start = base /\ f.length > Growth * (RSCP_MAX_FRAME_LENGTH \div Growth)

\* The buffer is large enough for every frame of legal length.
BufferSuffices == ended # "too large"

\* The frames are handed on as FrameQueue has it.
Queue == INSTANCE FrameQueue WITH Frames <- FrameType, put <- frames, taken <- got

HandsOnInOrder == Queue!Spec

\* A program that keeps waiting gets every frame, timeouts or not, or learns
\* that the connection is lost.
AllHandedOn == []<>(pc = "recv") => []<>(Len(got) = Len(frames) \/ ended # "no")
=============================================================================
