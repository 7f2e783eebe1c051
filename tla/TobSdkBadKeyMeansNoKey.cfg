CONSTANTS
    NumChannels = 1
    MaxTries = 1
    Pins = {"p_mf", "p_mias"}
    CardPin <- MCCardPin
    LongPins = {}
    ApiCalls = {"sign"}
    AppletMaxChannel = 1
    Transport = {"answered", "lostReq", "lostRsp"}
SPECIFICATION Spec
INVARIANTS BadKeyMeansNoKey
