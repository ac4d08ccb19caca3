SPECIFICATION FairSpec
CONSTANTS
    MaxStreams = 1
    MaxSends = 4
    ChanCap = 2
    MaxChoices = 2
    Providers = {"openai"}
    DeadlineChoices <- Always
    StreamingChoices <- Always
CHECK_DEADLOCK FALSE
PROPERTIES
    CancelEndsProducer
