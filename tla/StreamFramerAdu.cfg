\* The same streams against the documented bound on a frame.
\* The peer may stop sending or be refused, and then nothing more happens.
SPECIFICATION Spec
CHECK_DEADLOCK FALSE
CONSTANTS
  Streams <- MCStreams
  READ_CHUNK = 300
INVARIANTS
  FramesFitAdu
