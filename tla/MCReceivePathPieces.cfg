\* Up to three frames, cut into pieces in every way.
CONSTANTS
  AES_BLOCK_SIZE = 4
  Growth = 8
  RSCP_MAX_FRAME_LENGTH = 17
  FrameLengths <- SmallLengths
  Kinds <- AllKinds
  MaxFrames = 3
  Pieces <- SmallPieces
  OverlapGarbles = FALSE
SPECIFICATION FairSpec
INVARIANTS
  TypeOK
  InStep
  NothingHeldBack
  BufferFits
PROPERTIES
  HandsOnInOrder
  AllHandedOn
