--------------------------- MODULE MessageDigest ---------------------------
(***************************************************************************)
(* The digest under which an attestation is stored, computed by three      *)
(* implementations from their own address types: SVM (attestation_info.rs  *)
(* and universal-address), EVM (computeMessageDigest and                   *)
(* UniversalAddress.sol) and Aptos (compute_message_hash and               *)
(* universal_address.move).  An adapter attests to a message on its        *)
(* destination; the destination's own integrator recomputes the digest     *)
(* when it receives.  keccak256 is taken to be injective: a digest is the  *)
(* string of bytes that is hashed.                                         *)
(***************************************************************************)
EXTENDS Naturals, Sequences, SequencesExt

CONSTANTS
  Base,                        \* 256: the values of a byte
  ChainWidth, SequenceWidth,   \* 2 and 8: bytes of a u16 and of a u64
  AddressWidth, HashWidth,     \* 32 and 32: bytes of an address and of a hash
  EvmWidth,                    \* 20: bytes of an EVM address
  None

ASSUME WidthAssumption ==
  /\ Base \in Nat \ {0, 1}
  /\ {ChainWidth, SequenceWidth, AddressWidth, HashWidth, EvmWidth}
       \subseteq Nat \ {0}
  /\ EvmWidth <= AddressWidth

VARIABLES
  platform,     \* where the message is attested to
  args,         \* what the adapter passes
  integrator,   \* the native address whose adapters are looked up
  digest        \* where the attestation is stored

digestVars == <<platform, args, integrator, digest>>

Octet == 0 .. Base - 1

Bytes(width) == [1 .. width -> Octet]

-----------------------------------------------------------------------------
(* Integers *)

\* The number written by a string of bytes, high byte first.
Number(bytes) ==
  LET Read[k \in 0 .. Len(bytes)] ==
        IF k = 0 THEN 0 ELSE Read[k - 1] * Base + bytes[k]
  IN  Read[Len(bytes)]

\* An unsigned integer of `width` bytes.
UInt(width) == {Number(bytes) : bytes \in Bytes(width)}

\* n, n >> 8, n >> 16 and so on.
Shifted(n, width) ==
  LET Shift[k \in 0 .. width] == IF k = 0 THEN n ELSE Shift[k - 1] \div Base
  IN  Shift

\* to_be_bytes on SVM and abi.encodePacked on EVM.
to_be_bytes(n, width) ==
  [k \in 1 .. width |-> Shifted(n, width)[width - k] % Base]

\* BCS writes integers with the low byte first.
bcs(n, width) == [k \in 1 .. width |-> Shifted(n, width)[k - 1] % Base]

\* Mutant: the bytes are not reversed.
bcsReversed_Forgotten(n, width) == bcs(n, width)

bcsReversed(n, width) == Reverse(bcs(n, width))

-----------------------------------------------------------------------------
(* Addresses *)

\* An EVM address is the low bytes of a word whose other bytes are zero.
fromAddress(address) ==
  [k \in 1 .. AddressWidth - EvmWidth |-> 0] \o address

\* Mutant: the upper bytes are ignored.
isEvmAddress_Truncates(universal) == TRUE

isEvmAddress(universal) ==
  \A k \in 1 .. AddressWidth - EvmWidth : universal[k] = 0

toAddress(universal) ==
  SubSeq(universal, AddressWidth - EvmWidth + 1, AddressWidth)

\* A Solana public key has the width of a universal address.
from_pubkey(pubkey) == [k \in 1 .. AddressWidth |-> pubkey[k]]

to_pubkey(universal) == [k \in 1 .. AddressWidth |-> universal[k]]

\* Aptos: aborts on a longer vector.
pad_left_32(bytes) ==
  [k \in 1 .. AddressWidth - Len(bytes) |-> 0] \o bytes

-----------------------------------------------------------------------------
(* Digests *)

\* SVM compute_message_hash and EVM computeMessageDigest.
compute_message_hash(m, dst_addr) ==
  to_be_bytes(m.src_chain, ChainWidth) \o m.src_addr
    \o to_be_bytes(m.sequence, SequenceWidth)
    \o to_be_bytes(m.dst_chain, ChainWidth) \o dst_addr \o m.payload_hash

\* Vectors have any length: the assertions of the Aptos compute_message_hash.
aptosLengthsOk(m, dst_addr) ==
  /\ Len(m.src_addr) = AddressWidth
  /\ Len(dst_addr) = AddressWidth
  /\ Len(m.payload_hash) = HashWidth

aptos_compute_message_hash(m, dst_addr) ==
  bcsReversed(m.src_chain, ChainWidth) \o m.src_addr
    \o bcsReversed(m.sequence, SequenceWidth)
    \o bcsReversed(m.dst_chain, ChainWidth) \o dst_addr \o m.payload_hash

-----------------------------------------------------------------------------
Args(addresses, hashes) ==
  [src_chain : UInt(ChainWidth), src_addr : addresses,
   sequence : UInt(SequenceWidth), dst_chain : UInt(ChainWidth),
   dst_addr : addresses, payload_hash : hashes]

FixedArgs == Args(Bytes(AddressWidth), Bytes(HashWidth))

\* On Aptos, vectors of up to one byte more than they should have.
VectorArgs ==
  Args(UNION {Bytes(width) : width \in 0 .. AddressWidth + 1},
       UNION {Bytes(width) : width \in 0 .. HashWidth + 1})

DigestInit ==
  /\ \/ platform \in {"svm", "evm"} /\ args \in FixedArgs
     \/ platform = "aptos" /\ args \in VectorArgs
  /\ integrator = None
  /\ digest = None

\* attest_message names the integrator's program; dst_addr is derived from it.
AttestSvm ==
  /\ platform = "svm" /\ digest = None
  /\ integrator' = to_pubkey(args.dst_addr)
  /\ digest' = compute_message_hash(args, from_pubkey(integrator'))
  /\ UNCHANGED <<platform, args>>

AttestEvm ==
  /\ platform = "evm" /\ digest = None
  /\ isEvmAddress(args.dst_addr)
  /\ integrator' = toAddress(args.dst_addr)
  /\ digest' = compute_message_hash(args, args.dst_addr)
  /\ UNCHANGED <<platform, args>>

\* The integrator is found from the padded vector, the hash from the vector.
AttestAptos ==
  /\ platform = "aptos" /\ digest = None
  /\ Len(args.dst_addr) <= AddressWidth
  /\ integrator' = pad_left_32(args.dst_addr)
  /\ aptosLengthsOk(args, args.dst_addr)
  /\ digest' = aptos_compute_message_hash(args, args.dst_addr)
  /\ UNCHANGED <<platform, args>>

DigestNext == AttestSvm \/ AttestEvm \/ AttestAptos

DigestSpec == DigestInit /\ [][DigestNext]_digestVars

\* The digest the receive functions compute for the native address that calls
\* them.
ReceiveDigest(caller) ==
  CASE platform = "svm" -> compute_message_hash(args, from_pubkey(caller))
    [] platform = "evm" -> compute_message_hash(args, fromAddress(caller))
    [] platform = "aptos" -> aptos_compute_message_hash(args,
                                                        pad_left_32(caller))

Natives == IF platform = "evm" THEN Bytes(EvmWidth) ELSE Bytes(AddressWidth)

-----------------------------------------------------------------------------
\* README.md: the digest is the hash of encodePacked(sourceChain,
\* sourceAddress, sequence, destinationChain, destinationAddress, payloadHash).
\* Its fields have fixed widths, so they can be read back.
Unpack(bytes) ==
  LET Field(from, width) == SubSeq(bytes, from + 1, from + width)
      src  == ChainWidth
      seq  == src + AddressWidth
      dst  == seq + SequenceWidth
      addr == dst + ChainWidth
      hash == addr + AddressWidth
  IN  [src_chain |-> Number(Field(0, ChainWidth)),
       src_addr |-> Field(src, AddressWidth),
       sequence |-> Number(Field(seq, SequenceWidth)),
       dst_chain |-> Number(Field(dst, ChainWidth)),
       dst_addr |-> Field(addr, AddressWidth),
       payload_hash |-> Field(hash, HashWidth)]

\* On every platform a stored attestation is under the packed form README.md
\* prescribes, which determines every field of the message: the platforms
\* agree on a message, and no two messages share an attestation.
DigestDeterminesMessage ==
  digest # None =>
    /\ Len(digest) = 2 * ChainWidth + 2 * AddressWidth + SequenceWidth
                       + HashWidth
    /\ Unpack(digest) = args

\* A stored attestation can be received by the integrator whose adapters were
\* looked up when it was made, and by no other address of that platform.
ReceivedByAddressee ==
  digest # None =>
    \A caller \in Natives : ReceiveDigest(caller) = digest
                              <=> caller = integrator

=============================================================================
