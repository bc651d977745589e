SPECIFICATION RadioSpec
CONSTANTS DropPackets = 30
PROPERTIES UnderrunIsSeen
