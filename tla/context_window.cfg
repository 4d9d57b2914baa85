SPECIFICATION HelperSpec
CONSTANTS
    ModelConfig <- MCModelConfig
    ToolConfig <- MCToolConfig
    Models = {"one", "endless", "rag", "unknown"}
    Replies <- MCReplies
    Streams <- MCStreams
    Questions = 3
INVARIANT WindowKeepsRounds
CHECK_DEADLOCK FALSE
