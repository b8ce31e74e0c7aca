---------------------------- MODULE MCEncodings ----------------------------
(* AdapterInstructions and MessageDigest for TLC, each on its own inputs. *)
EXTENDS AdapterInstructions, MessageDigest

Repeat(byte, times) == [n \in 1 .. times |-> byte]

\* Empty, short, the longest the format holds, and one byte more.
SomePayloads == {<<>>, <<1>>, Repeat(2, uint16Max), Repeat(2, uint16Max + 1)}

\* Up to one instruction more than the format holds; indices past the adapters.
SomeLists ==
  UNION {[1 .. len -> [index : 0 .. MaxAdapters, payload : SomePayloads]]
           : len \in 0 .. ByteSize}

\* The inputs of one while the other is run.
NothingToParse ==
  /\ source = NoList
  /\ encoded = <<>>
  /\ numRegisteredAdapters = 0
  /\ instructions = Empty
  /\ total = 0
  /\ offset = 0
  /\ pc = "revert"
  /\ parsed = <<>>

NothingToAttest ==
  platform = None /\ args = None /\ integrator = None /\ digest = None

EncodingsInit ==
  \/ InstructionsInit /\ NothingToAttest
  \/ DigestInit /\ NothingToParse

EncodingsNext ==
  \/ InstructionsNext /\ UNCHANGED digestVars
  \/ DigestNext /\ UNCHANGED instructionVars

EncodingsSpec ==
  EncodingsInit /\ [][EncodingsNext]_<<instructionVars, digestVars>>

=============================================================================
