\* The constants of the code and the largest frame it builds itself.
CONSTANTS
  AES_BLOCK_SIZE = 32
  Growth = 4096
  RSCP_MAX_FRAME_LENGTH = 65557
  FrameLengths <- LargestLength
  Kinds <- SoundOnly
  MaxFrames = 1
  Pieces <- LargePieces
  OverlapGarbles = FALSE
SPECIFICATION Spec
INVARIANT BufferSuffices
