CONSTANTS
    NumChannels = 2
    MaxTries = 1
    Pins = {"p_mf", "p_mias"}
    CardPin <- MCCardPin
    LongPins = {}
    ApiCalls = {"sign", "decrypt", "cert_signing", "len", "key_available"}
    AppletMaxChannel = 3
    Transport = {"answered", "lostReq", "lostRsp"}
SPECIFICATION FairSpec
INVARIANTS IInv OkMeansDelivered CleanCallSucceeds
PROPERTIES CallReturns
