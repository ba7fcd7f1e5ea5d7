\* Four lines, read two or three bytes at a time.
SPECIFICATION StreamSpec
CONSTANTS
    Bytes = 8
    Buf = 3
    PSize = 2
    Timeout = 1
    Bodies <- MCBodies
    Types = {"openai", "anthropic", "ollama"}
    MaxContent = 3
    MaxResponse = 5
INVARIANTS InOrder SplitFree CountedOnce TeePrefix
PROPERTIES  Ends ReaderFreed
CHECK_DEADLOCK FALSE
