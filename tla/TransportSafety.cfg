CONSTANTS
    Messages <- SafetyMessages
    MaxMessages = 2
SPECIFICATION Spec
INVARIANTS
    TypeOK
    DeliversFramesInOrder
    NoLostWakeup
PROPERTY ChannelRefined
CHECK_DEADLOCK FALSE
