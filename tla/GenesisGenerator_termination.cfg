\* Termination of the mining loop over every block hash function: the uint32
\* nonce wraps, and a header none of whose nonces meets the target is mined forever.
CONSTANTS
    HashSize = 2
    HashBytes = {0, 255}
    NonceBits = 2
    Bits = 33619967
SPECIFICATION Spec

PROPERTY GeneratorTerminates
\* main returns or exits: the process stops.
CHECK_DEADLOCK FALSE
