CONSTANTS
    Ids = {id0, id1}
    MAX_SEND_RECORD_COUNT = 3
    Messages = {m1, m2}
SPECIFICATION SendFairSpec
INVARIANTS RecordsAccounted AwakeWhileSending
PROPERTIES ChannelsKept GivenBack
