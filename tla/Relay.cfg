SPECIFICATION FairSpec
CONSTANT Loads <- TalkLoads
CHECK_DEADLOCK FALSE
INVARIANT Delivered
PROPERTY RelayEnds
