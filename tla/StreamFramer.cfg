\* The server's framer over every way of cutting the streams into chunks.
\* The peer may stop sending or be refused, and then nothing more happens.
SPECIFICATION Spec
CHECK_DEADLOCK FALSE
CONSTANTS
  Streams <- MCStreams
  READ_CHUNK = 300
INVARIANTS
  TypeOK
  BufferIsWindow
  FramesTileStream
  FramesMatchHeader
  BufferBounded
  BadLengthRefused
  ChunkingIsIrrelevant
