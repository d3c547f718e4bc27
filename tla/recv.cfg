CONSTANTS
    Timeouts = {0, 2, 3}
    MaxFrames = 3
    MaxElapsed = 5
SPECIFICATION Spec
INVARIANT TypeOK
INVARIANT WholeFramesInTime
INVARIANT NoneMeansTimeout
INVARIANT TextsKept
INVARIANT PongsFlushed
