\* 174 streams, cut in every way; an answer of four units of header and two of file.
\* The system stops when the connection is closed and nobody sends any more.
CHECK_DEADLOCK FALSE
SPECIFICATION ConnFairSpec
CONSTANTS
  Streams <- SomeStreams
  Announces <- SomeLengths
  READ_BUFFER_SIZE = 14
  INT_MAX = 31
  HEADER = 4
  FILE = 2
  Later <- SomeLater
  MaxLater = 1
INVARIANTS TypeOK NothingEarly CompleteIsAnswered LingerAsAsked ConnTypeOK FileKept MappingReleased
PROPERTIES ProcessReadReturns WriteReturns ProtocolSpec
