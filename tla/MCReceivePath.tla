---------------------------- MODULE MCReceivePath ---------------------------
(* Instances of ReceivePath for TLC. *)
EXTENDS ReceivePath

\* Blocks of 4 bytes, a buffer that grows by 8 and a limit of 17: like the
\* limit of the code (65557 = 16 * 4096 + 21) it is a little above a multiple
\* of the growth.  Frames of less than a block, of that multiple and of the limit.
SmallLengths == {3, 16, 17}
SmallPieces  == 1..24

\* The largest frame the codec builds itself: 18 + 0xFFF8 + 4 bytes.
LargestLength == {65550}
LargePieces   == {4096, 1}

AllKinds  == {"sound", "no frame", "bad crc"}
SoundOnly == {"sound"}

TwoBlocks == {64}
AllSizes  == {32, 64, 128}
=============================================================================
