SPECIFICATION TransfersSpec
CONSTANTS
    Urbs <- MCUrbs
    MaxIsoPackets = 2
    MaxTail = 1
    SeqnumWidth = 4
    UlongWidth = 64
    SizeWidth = 128
    ActualLengths <- MCActualLengths
    MaxLength = 3
    Depth = 1
    Statuses <- MCStatuses
    PacketStatuses <- MCPacketStatuses
INVARIANTS
    SentMessageFits
    PayloadFits
    DirectionSurvives
    DataInPlace
