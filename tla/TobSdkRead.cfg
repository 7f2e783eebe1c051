CONSTANTS
    NumChannels = 2
    MaxTries = 2
    Pins = {"p_mf", "p_mias", "p_long"}
    CardPin <- MCCardPin
    LongPins = {"p_long"}
    ApiCalls = {"cert_available", "ef"}
    AppletMaxChannel = 2
    Transport = {"answered", "lostReq", "lostRsp"}
SPECIFICATION Spec
INVARIANTS SessionReachesApplet NothingSentLocked OrphansExplained AtMostOneTry
PROPERTIES TriesOnlyByWrongPin
