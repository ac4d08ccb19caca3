SPECIFICATION FairSpec
CONSTANTS
    MaxStreams = 1
    MaxSends = 4
    ChanCap = 2
    MaxChoices = 2
    Providers = {"openai", "codex"}
    DeadlineChoices <- AnyBoolean
    StreamingChoices <- AnyBoolean
CHECK_DEADLOCK FALSE
INVARIANTS
    InOrderNoLoss
    QuietEOFHidesNothingHeard
    ErrorIsLast
    UnknownOnlyAfterCancel
PROPERTIES
    EntriesLeaveDrainedOrCancelled
    ImplementsChunkStream
    CancelEndsCodexStream
    ReaderReachesEnd
