\* Both codecs over what they write and over three pieces from outside.
SPECIFICATION Spec
CONSTANTS
    WordBits = 15
    NumBits = 6
    Fixed32Bytes = 1
    Fixed64Bytes = 2
    Texts <- MCTexts
    Numbers <- MCNumbers
    Unknowns <- MCUnknowns
    ForeignTypes <- MCForeignTypes
    Pieces <- MCPieces
    MaxPieces = 3
INVARIANTS
    TypeOK
    RoundTrip
    DecodersAgree
    NoPanic
    PopulatedIsWritten
