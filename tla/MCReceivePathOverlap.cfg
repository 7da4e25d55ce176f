\* The constants of the code; two frames come with one recv.
CONSTANTS
  AES_BLOCK_SIZE = 32
  Growth = 4096
  RSCP_MAX_FRAME_LENGTH = 65557
  FrameLengths <- TwoBlocks
  Kinds <- SoundOnly
  MaxFrames = 2
  Pieces <- AllSizes
  OverlapGarbles = TRUE
SPECIFICATION Spec
INVARIANT InStep
