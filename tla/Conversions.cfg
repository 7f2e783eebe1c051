CONSTANTS
    Alphabet <- MCAlphabet
    MaxLen <- MCMaxLen
    Footer <- MCFooter
    Captions = {11, 15}
    Junk = {0, 171, 43981, 65535}
SPECIFICATION Spec
INVARIANTS RoundTrips PemFits CropIsFirst SizesDecoded LabelIsWhole PinBlocks
CHECK_DEADLOCK FALSE
