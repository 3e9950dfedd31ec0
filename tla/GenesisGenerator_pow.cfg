\* Every input path of main and every block hash function over two-byte
\* hashes of bytes 0 and 255, with a two-bit nonce. Bits = 0x0200ffff has the
\* shape of the code's 0x1d00ffff (mantissa 0x00ffff, no sign bit) and gives
\* target 255: of the four hashes, exactly the two with a zero high byte
\* (byte 2) meet it. The generator may loop forever, so no liveness here.
CONSTANTS
    HashSize = 2
    HashBytes = {0, 255}
    NonceBits = 2
    Bits = 33619967
SPECIFICATION Spec
INVARIANT MinedBlockMeetsTarget
\* main returns or exits: the process stops.
CHECK_DEADLOCK FALSE
