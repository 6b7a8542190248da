CONSTANTS
    Ids = {id0}
    MAX_SEND_RECORD_COUNT = 3
    Messages = {m1}
    Packets <- MCPackets
    PACKETS = 2
    CREDITS = 1
    EVM_QUEUE = 2
SPECIFICATION FairSpec
INVARIANTS InStep
PROPERTIES InOrder SendEnds CoreTold
