CONSTANTS
    Cases = {2, 3}
    Devices = {"modem", "pcsc"}
    MaxCalls = 2
    MaxRepeats = 3
SPECIFICATION FairSpec
INVARIANTS InStep ResponseIsLastGood
PROPERTIES TransmitReturns ImplementsExchange
