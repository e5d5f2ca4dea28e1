\* All vectors of up to three chunks, with every alignment.
SPECIFICATION ConversionSpec
CONSTANTS
    ChunkWords = 16
    MaxWords = 40
INVARIANTS
    ConversionTypeOK
    ResultConverted
    WritesOwnLines
