SPECIFICATION CoreSpec
CONSTANTS
    ByteMod = 4
    RamBase = 64
    RamSize = 112
    StrictMem = TRUE
    Encoding <- MCEncoding
    GprCount = 4
    ResetVector = 64
    ClintBase = 16
    ClintSize = 16
    MtimeOffset = 8
    MtimehOffset = 12
    UartBase = 4
    Images <- StaleCsrImages
INVARIANT CsrReadCurrent
