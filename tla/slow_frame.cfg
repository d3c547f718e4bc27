CONSTANTS
    Timeouts = {0, 2, 3}
    MaxFrames = 4
    MaxElapsed = 5
SPECIFICATION Spec
INVARIANT DeadlineKept
