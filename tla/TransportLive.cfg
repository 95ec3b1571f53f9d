CONSTANTS
    Messages <- LiveMessages
    MaxMessages = 2
SPECIFICATION FairSpec
PROPERTY EveryMessageDelivered
CHECK_DEADLOCK FALSE
