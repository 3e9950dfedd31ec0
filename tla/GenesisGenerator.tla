-------------------------- MODULE GenesisGenerator --------------------------
(***************************************************************************)
(* The offline genesis generator (src/cmd/genesis-generator/main.go): the  *)
(* flow of main, generateKeyPair, createGenesisBlock with its mining loop, *)
(* and the helpers compactToBig and hashToBig.                             *)
(*                                                                         *)
(* The program is one sequential process; its control point is pc. The     *)
(* command-line inputs are chosen where the code reads them. Widths are    *)
(* scaled down: a block hash is a sequence of HashSize bytes (32 in the    *)
(* code), the nonce has NonceBits bits (32) and Bits is a compact target   *)
(* of the same shape as the code's 0x1d00ffff scaled to that hash size.    *)
(* SHA-256 is abstracted to an arbitrary function from nonce to block      *)
(* hash, fixed once the header is built: inside the loop only the nonce of *)
(* the header changes (timestamp, merkle root and Bits do not).            *)
(* Printing and serialization into a bytes.Buffer (which cannot fail) are  *)
(* the one Output step.                                                    *)
(***************************************************************************)
EXTENDS Integers, Sequences, SequencesExt, Bitwise

CONSTANTS
    HashSize,    \* bytes of a block hash (chainhash.HashSize)
    HashBytes,   \* the byte values a hash may hold, a subset of 0..255
    NonceBits,   \* width of Header.Nonce (uint32)
    Bits         \* Header.Bits, the compact target

ASSUME
    /\ HashSize \in Nat \ {0}
    /\ HashBytes \subseteq 0..255 /\ HashBytes # {}
    /\ NonceBits \in Nat \ {0}
    /\ Bits \in Nat

Nonces == 0..(2^NonceBits - 1)
Hashes == [1..HashSize -> HashBytes]   \* chainhash.Hash, byte i at index i+1

NoHash == [n \in {} |-> 0]  \* no header built yet
NoNonce == -1               \* nothing printed

VARIABLES
    pc,         \* control point of main
    exitCode,   \* the process's exit status, -1 while it runs
    blockHash,  \* block.BlockHash() as a function of Header.Nonce
    nonce,      \* block.Header.Nonce
    target,     \* compactToBig(header.Bits), -1 before it is computed
    printed     \* the nonce of the genesis block printed, or NoNonce

vars == <<pc, exitCode, blockHash, nonce, target, printed>>

PCs == {"parse", "network", "mode", "create", "mine", "output", "exited"}

TypeOK ==
    /\ pc \in PCs
    /\ exitCode \in {-1, 0, 1, 2}
    /\ blockHash \in {NoHash} \cup [Nonces -> Hashes]
    /\ nonce \in Nonces
    /\ target \in Int
    /\ printed \in {NoNonce} \cup Nonces

-----------------------------------------------------------------------------
(* Helpers translated from the code.                                       *)

\* compactToBig: exponent in the top byte, a 24-bit mantissa below it,
\* shifted right (exponent <= 3) or left by 8 bits per byte of exponent.
compactToBig(compact) ==
    LET exponent == shiftR(compact, 24)
        mantissa == compact & 16777215     \* 0x00ffffff
    IN  IF exponent <= 3 THEN shiftR(mantissa, 8 * (3 - exponent))
        ELSE mantissa * 2^(8 * (exponent - 3))

\* big.Int.SetBytes: the bytes as a big-endian unsigned number.
SetBytes(buf) == FoldLeft(LAMBDA acc, b : acc * 256 + b, 0, buf)

\* A fault: the hash bytes taken in stored order, without the reversal.
hashToBig_NoReverse(hash) ==
    SetBytes(hash)

\* hashToBig: reverse the hash bytes, then SetBytes.
hashToBig(hash) ==
    SetBytes(Reverse(hash))

Exit(code) == pc' = "exited" /\ exitCode' = code

-----------------------------------------------------------------------------
(* main.                                                                   *)

Init ==
    /\ pc = "parse"
    /\ exitCode = -1
    /\ blockHash = NoHash
    /\ nonce = 0
    /\ target = -1
    /\ printed = NoNonce

\* flag.Parse: a malformed flag (say a non-numeric -reward) makes the flag
\* package print usage and exit with status 2, -h with status 0.
ParseFlags ==
    /\ pc = "parse"
    /\ \/ pc' = "network" /\ UNCHANGED exitCode
       \/ Exit(2)
       \/ Exit(0)
    /\ UNCHANGED <<blockHash, nonce, target, printed>>

\* The -net switch: an unknown network name exits with status 1.
SelectNetwork ==
    /\ pc = "network"
    /\ \/ pc' = "mode" /\ UNCHANGED exitCode
       \/ Exit(1)
    /\ UNCHANGED <<blockHash, nonce, target, printed>>

\* -generate: generateKeyPair prints a new key pair and main returns, or it
\* exits with status 1 when crypto/rand fails NewPrivateKey (the address and
\* WIF constructors cannot fail on a key it made).
GenerateKeyPair ==
    /\ pc = "mode"
    /\ Exit(0) \/ Exit(1)
    /\ UNCHANGED <<blockHash, nonce, target, printed>>

\* Without -generate: an empty -address, or one DecodeAddress rejects for the
\* network, exits with status 1.
CheckAddress ==
    /\ pc = "mode"
    /\ \/ Exit(1)
       \/ pc' = "create" /\ UNCHANGED exitCode
    /\ UNCHANGED <<blockHash, nonce, target, printed>>

\* createGenesisBlock up to the loop: the coinbase transaction (an address
\* PayToAddrScript cannot script is an error), the header with Nonce 0 and
\* Bits, and the target.
CreateGenesisBlock ==
    /\ pc = "create"
    /\ \/ Exit(1) /\ UNCHANGED <<blockHash, target>>
       \/ /\ \E h \in [Nonces -> Hashes] : blockHash' = h
          /\ target' = compactToBig(Bits)
          /\ pc' = "mine"
          /\ UNCHANGED exitCode
    /\ UNCHANGED <<nonce, printed>>

\* One iteration of the mining loop: stop at a hash within the target,
\* otherwise Header.Nonce++ (a uint32, wrapping to 0).
MineStep ==
    /\ pc = "mine"
    /\ IF hashToBig(blockHash[nonce]) <= target
       THEN pc' = "output" /\ UNCHANGED nonce
       ELSE nonce' = (nonce + 1) % 2^NonceBits /\ UNCHANGED pc
    /\ UNCHANGED <<exitCode, blockHash, target, printed>>

\* Serialize into a bytes.Buffer, print the block, its hash and the Go
\* structs, and return from main.
Output ==
    /\ pc = "output"
    /\ printed' = nonce
    /\ Exit(0)
    /\ UNCHANGED <<blockHash, nonce, target>>

Next ==
    \/ ParseFlags \/ SelectNetwork \/ GenerateKeyPair \/ CheckAddress
    \/ CreateGenesisBlock
    \/ MineStep \/ Output

\* A single goroutine that never blocks: it runs while it can.
Spec == Init /\ [][Next]_vars /\ WF_vars(Next)

-----------------------------------------------------------------------------
(* Properties.                                                             *)

\* btcd's blockchain.CompactToBig, the rule a node checks proof of work
\* against: bit 23 of the mantissa is a sign bit.
CompactToBigRef(compact) ==
    LET exponent == compact \div 2^24
        negative == (compact \div 2^23) % 2 = 1
        mantissa == compact % 2^23
        mag == IF exponent <= 3 THEN mantissa \div 2^(8 * (3 - exponent))
               ELSE mantissa * 2^(8 * (exponent - 3))
    IN  IF negative THEN -mag ELSE mag

\* The number a chainhash.Hash stands for: byte i has weight 256^i.
RECURSIVE LittleEndian(_)
LittleEndian(h) == IF h = <<>> THEN 0 ELSE Head(h) + 256 * LittleEndian(Tail(h))

\* Proof of work: the genesis block main prints is one whose hash, read the
\* way btcd reads it, is within the target btcd derives from its Bits. The
\* loop compares hashToBig against compactToBig, both this tool's own
\* versions of btcd's conversions.
MinedBlockMeetsTarget ==
    printed # NoNonce =>
        LittleEndian(blockHash[printed]) <= CompactToBigRef(Bits)

\* The generator ends: main exits, with a genesis block or with an error.
GeneratorTerminates == <>(pc = "exited")

=============================================================================
