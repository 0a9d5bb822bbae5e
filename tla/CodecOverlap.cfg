\* The same documents; only the parser's offset rule is checked.
CONSTANTS
  Documents <- MCDocuments
  ByteStrings <- MCByteStrings
  BufferLen = 20
  PoolCapacity = 1
  Numbers = {3, 258}
  MaxCount = 2
  MaxWrites = 4
  MaxUses = 2
SPECIFICATION Spec
INVARIANT OffsetsFollow
