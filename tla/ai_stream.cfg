SPECIFICATION FairSpec
CONSTANTS
    Streams = {s1, s2}
    Conversations = {c1}
    NoStream = NoStream
    NoConversation = NoConversation
    NoTool = NoTool
    Tools <- SomeTools
    Settings <- SomeAccess
    Slots = 2
    MaxRounds = 1
    CallsPerRound = 1
    ContextLimit = 3
    MaxFaults = 1
INVARIANTS
    TypeOK
    SlotsAreAccounted
    StreamingIsWritten
    OrderlyRequestIsWellFormed
    NothingRunsUnasked
PROPERTIES
    EveryStreamEnds
    CardInterruptsChat
CHECK_DEADLOCK FALSE
