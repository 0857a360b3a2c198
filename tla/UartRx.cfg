SPECIFICATION FairSpec
CONSTANTS
    UART1_RX_CACHE_SIZE = 3
    RX_BUFFER_SIZE = 3
    Lengths = {1, 2, 3, 4}
    MaxFrames = 4
    MaxFaults = 2
INVARIANTS TypeOK
PROPERTIES DeliversInTurn WholeAnswerTaken
