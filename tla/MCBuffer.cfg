\* Messages of up to 3 bytes over two values, in a vector of 4 with 1 reserved.
SPECIFICATION Spec
CONSTANTS
  Zero = Zero
  a = a
  b = b
  MaxLen = 3
  Byte <- MCByte
  Message <- MCMessage
  MaxReadable = 5
  kPrePendIndex = 1
  kInitalSize = 4
INVARIANTS
  IndicesInside
  EmptyIsRewound
PROPERTIES
  GrowsWhenFull
  QueueSpec
