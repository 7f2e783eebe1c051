CONSTANTS
    NumChannels = 3
    MaxTries = 1
    Pins = {"p"}
    CardPin <- MCCardPin
    AppletMaxChannel = 3
    Transport = {"answered"}
    BasicArgs = {TRUE, FALSE}
SPECIFICATION Spec
INVARIANTS ChannelsAccountedFor
PROPERTIES OnlyBasicIsTakenOver
