SPECIFICATION Spec
CONSTANTS
    ByteMod = 4
    RamBase = 64
    RamSize = 16
    StrictMem = FALSE
    Encoding <- MCEncoding
    GprCount = 4
    ResetVector = 64
    ClintBase = 16
    ClintSize = 16
    MtimeOffset = 8
    MtimehOffset = 12
    UartBase = 4
    Operands <- MCOperands
    Opcodes <- MCOpcodes
    Funct7s = {0, 1, 8, 24, 32, 64, 95}
    RegFields = {0, 1, 2, 5, 16, 21}
    NotUsed = NotUsed
INVARIANTS AluAgrees LanesAgree DecodersAgree
CHECK_DEADLOCK FALSE
