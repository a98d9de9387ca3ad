SPECIFICATION FairSpec
CONSTANT Workers = {w1}
INVARIANT StoppedIsGone
INVARIANT NoSilentOrphan
PROPERTY OnlyTheLivingRefuse
PROPERTY CallsReturn
CHECK_DEADLOCK FALSE
