SPECIFICATION Spec
CONSTANTS
    r1 = r1
    r2 = r2
    Splits <- MCSplits
    RecordingOf <- MCRecordingOf
    BPS = 10
    MaxU64 = 6
    Supply = 12
INVARIANTS Conservation LargerSplitNeverBehind
PROPERTIES RemainderBelowTracks QuietReleaseDrains
