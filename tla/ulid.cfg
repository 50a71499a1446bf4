\* Ids of two bytes of time and three of entropy, bytes of two bits, characters
\* of three: ten bits, so that characters span bytes and the last one is padded.
SPECIFICATION Spec
CONSTANTS
  ByteBits = 2
  MaxByte = 3
  TimeBytes = 2
  Width = 3
  CharBits = 3
  Clock = {1, 2, 3, 4, 7, 8}
INVARIANTS
  NextIsSuccessor
PROPERTIES
  IdsGrow
  TextsGrow
