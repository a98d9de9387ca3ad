CONSTANTS
  Streams <- MCStreams
  Limit = 7
SPECIFICATION DecoderSpec
INVARIANT HeldWithinLimit
CHECK_DEADLOCK FALSE
