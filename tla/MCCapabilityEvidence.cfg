CONSTANTS
  MAX_STOP_SEQUENCES = 1
  MAX_STOP_SEQUENCE_BYTES = 1
  Instances = {i1, i2}
  Callers = {c1}
  Streams = {s1}
  Copies = {p1}
  None = None
  Metadata <- MCMetadata
  Parameters <- MCParameters
  Batches = {0, 2}
  EmbedResponses <- MCEmbedResponses
  Completions <- MCCompletions
SYMMETRY Symmetry
SPECIFICATION Spec
INVARIANTS VerifiedWasPerformed AcceptedAnswersEach
PROPERTIES EvidenceStands
CHECK_DEADLOCK FALSE
