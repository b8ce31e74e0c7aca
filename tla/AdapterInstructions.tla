------------------------ MODULE AdapterInstructions ------------------------
(***************************************************************************)
(* AdapterInstructions.sol: the encoding of the instructions an integrator *)
(* passes to its adapters through sendMessage, and the parser, which reads *)
(* without bounds checks and compares the final offset with the length of  *)
(* the input.  What it reads past the end is whatever the memory holds.    *)
(* The parser is run on arbitrary bytes, and on the encodings of lists.    *)
(***************************************************************************)
EXTENDS Naturals, Sequences, SequencesExt

CONSTANTS
  ByteSize,      \* 256: the values of a byte
  MaxLen,        \* bound: bytes of an arbitrary input
  MaxAdapters,   \* bound: registered adapters
  Lists,         \* lists of instructions an integrator encodes
  NoList         \* the input did not come from encodeInstructions

ASSUME InstructionsAssumption ==
  ByteSize \in Nat \ {0, 1} /\ MaxLen \in Nat /\ MaxAdapters \in Nat

VARIABLES
  source,         \* the list the input encodes, or NoList
  encoded,        \* the input of parseInstructions
  numRegisteredAdapters,
  instructions,   \* the sparse array of payloads, by adapter index
  total,          \* instructionsLength
  offset,
  pc,             \* "encode", "parse", "loop", "ok" or "revert"
  parsed          \* history: the instructions read so far

instructionVars == <<source, encoded, numRegisteredAdapters, instructions,
                     total, offset, pc, parsed>>

uint8Max == ByteSize - 1

uint16Max == ByteSize * ByteSize - 1

Byte == 0 .. uint8Max

\* AdapterInstructions.Instruction: a uint8 and bytes.
Instruction == [index : Byte, payload : Seq(Byte)]

ASSUME ListsAssumption ==
  Lists \subseteq Seq(Instruction) /\ NoList \notin Lists

-----------------------------------------------------------------------------
(* Encoding *)

PayloadFits(payload) == Len(payload) <= uint16Max

\* Mutant: the number of instructions is truncated.
CountFits_Truncated(list) == TRUE

CountFits(list) == Len(list) <= uint8Max

\* abi.encodePacked(uint8 index, uint16 length, payload), big endian.
encodeInstruction(instruction) ==
  LET length == Len(instruction.payload) % (uint16Max + 1)
  IN  <<instruction.index, length \div ByteSize, length % ByteSize>>
        \o instruction.payload

\* The two checks are the reverts of encodeInstructions and encodeInstruction.
Encodable(list) ==
  /\ CountFits(list)
  /\ \A n \in 1 .. Len(list) : PayloadFits(list[n].payload)

encodeInstructions(list) ==
  <<Len(list) % ByteSize>> \o
    FlattenSeq([n \in 1 .. Len(list) |-> encodeInstruction(list[n])])

-----------------------------------------------------------------------------
(* Parsing *)

\* The bytes asUint8Unchecked may return: the input's, or any past its end.
Reads(at) == IF at < Len(encoded) THEN {encoded[at + 1]} ELSE Byte

IndexInBounds(index) == index < numRegisteredAdapters

\* Mutant: nothing compares the offset with the length.
checkLength_Unchecked == TRUE

\* BytesParsing.checkLength: all of the input was read, and nothing past it.
checkLength == offset = Len(encoded)

Empty == [index \in 0 .. numRegisteredAdapters - 1 |-> <<>>]

InstructionsInit ==
  /\ numRegisteredAdapters \in 0 .. MaxAdapters
  /\ \/ /\ source = NoList
        /\ encoded \in UNION {[1 .. len -> Byte] : len \in 0 .. MaxLen}
        /\ pc = "parse"
     \/ /\ source \in Lists
        /\ encoded = <<>>
        /\ pc = "encode"
  /\ instructions = Empty
  /\ total = 0
  /\ offset = 0
  /\ parsed = <<>>

Encode ==
  /\ pc = "encode"
  /\ \/ Encodable(source) /\ pc' = "parse"
                          /\ encoded' = encodeInstructions(source)
     \/ ~Encodable(source) /\ pc' = "revert" /\ UNCHANGED encoded
  /\ UNCHANGED <<source, numRegisteredAdapters, instructions, total, offset,
                 parsed>>

\* parseInstructions up to its loop.
parseInstructions ==
  /\ pc = "parse"
  /\ \/ encoded = <<>> /\ pc' = "ok" /\ UNCHANGED <<total, offset>>
     \/ encoded # <<>> /\ pc' = "loop" /\ total' \in Reads(0) /\ offset' = 1
  /\ UNCHANGED <<source, encoded, numRegisteredAdapters, instructions, parsed>>

\* One turn of the loop: parseInstructionUnchecked, bounds check, the store.
\* The bytes of a payload past the end of the input are taken to be alike.
ParseNext ==
  /\ pc = "loop"
  /\ Len(parsed) < total
  /\ \E index \in Reads(offset), high \in Reads(offset + 1),
        low \in Reads(offset + 2), beyond \in Byte :
       LET start   == offset + 3
           length  == high * ByteSize + low
           payload == [n \in 1 .. length |->
                         IF start + n <= Len(encoded) THEN encoded[start + n]
                                                      ELSE beyond]
       IN
       /\ offset' = start + length
       /\ \/ /\ IndexInBounds(index)
             /\ instructions' = [instructions EXCEPT ![index] = payload]
             /\ parsed' = Append(parsed,
                                 [index |-> index, payload |-> payload])
             /\ UNCHANGED pc
          \/ /\ ~IndexInBounds(index)
             /\ pc' = "revert"
             /\ UNCHANGED <<instructions, parsed>>
  /\ UNCHANGED <<source, encoded, numRegisteredAdapters, total>>

Finish ==
  /\ pc = "loop"
  /\ Len(parsed) = total
  /\ pc' = IF checkLength THEN "ok" ELSE "revert"
  /\ UNCHANGED <<source, encoded, numRegisteredAdapters, instructions, total,
                 offset, parsed>>

InstructionsNext == Encode \/ parseInstructions \/ ParseNext \/ Finish

InstructionsSpec == InstructionsInit /\ [][InstructionsNext]_instructionVars

-----------------------------------------------------------------------------
AllInBounds(list) ==
  \A n \in 1 .. Len(list) : list[n].index < numRegisteredAdapters

\* What the adapters should get: each the last instruction under its index.
LastWins(list) ==
  [index \in 0 .. numRegisteredAdapters - 1 |->
     LET of == {n \in 1 .. Len(list) : list[n].index = index}
     IN  IF of = {} THEN <<>> ELSE list[Max(of)].payload]

\* Input that parseInstructions accepts is the encoding of a list of
\* instructions for registered adapters, byte for byte, although none of its
\* reads is checked; each adapter gets the last instruction under its index.
AcceptedIsWellFormed ==
  pc = "ok" => /\ encoded = <<>> \/ encoded = encodeInstructions(parsed)
               /\ Len(parsed) <= uint8Max
               /\ AllInBounds(parsed)
               /\ instructions = LastWins(parsed)

\* A list that encodeInstructions accepts is parsed back into what each adapter
\* should get, or rejected because of an index of no adapter: no length or
\* count is ever truncated into an encoding of something else.
RoundTrip ==
  source # NoList =>
    /\ pc = "ok" => instructions = LastWins(source)
    /\ pc = "revert" /\ encoded # <<>> => ~AllInBounds(source)

=============================================================================
