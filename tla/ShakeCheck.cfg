SPECIFICATION Spec
CONSTANTS
    Rounds = 24
    Size = 256
    Chunks = {0, 68, 135, 137, 272}
    MaxIn = 273
    OutChunks = {0, 68, 137}
    MaxOut = 205
    Msg <- SampleMsg
INVARIANT StreamIsSponge
