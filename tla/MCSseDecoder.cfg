CONSTANTS
  Streams <- MCStreams
  Limit = 7
SPECIFICATION DecoderSpec
INVARIANTS ChunksDoNotShow TruncationShows HeldIsBounded
CHECK_DEADLOCK FALSE
