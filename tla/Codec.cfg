\* Buffers of 20 bytes hold the 8-byte message header and 12 bytes behind it: a
\* block and one group of two entries, but not the largest block (16), so that
\* the setters of that one panic; at MaxWrites = 4 every pair of setters runs in both orders with
\* one repeated; two uses of the one pooled buffer reach a recycled buffer.
CONSTANTS
  Documents <- MCDocuments
  ByteStrings <- MCByteStrings
  BufferLen = 20
  PoolCapacity = 1
  Numbers = {3, 258}
  MaxCount = 2
  MaxWrites = 4
  MaxUses = 2
SPECIFICATION Spec
INVARIANTS
  TypeOK
  RoundTrip
  GroupRoundTrip
  UnsetReadsDefault
  NoPanicInBlock
  OneDecoder
  ParsedAsWritten
PROPERTY ParseReturns
