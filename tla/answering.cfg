SPECIFICATION HelperSpec
CONSTANTS
    ModelConfig <- MCModelConfig
    ToolConfig <- MCToolConfig
    Models = {"one", "endless", "rag", "unknown"}
    Replies <- MCReplies
    Streams <- MCStreams
    Questions = 4
INVARIANTS
    MemoryIsWhatIsStored
    AnswerIsTheStream
    RequestIsFaithful
    ToolOnlyAsAsked
CHECK_DEADLOCK FALSE
