SPECIFICATION Spec
CONSTANTS
  RING_BUFFER_SIZE = 3
  cap_before_entries = 2
  cap_post_cycles_target = 2
  tmp_before_size = 4
  MaxLines = 12
INVARIANTS TraceTypeOK RingHoldsLast CaptureHasNoHole MissesAreKept
           SegmentsApart SegmentsShowAftermath
PROPERTIES OneShot
CHECK_DEADLOCK FALSE
