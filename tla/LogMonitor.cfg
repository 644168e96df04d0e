CONSTANTS
    mSampleInterval = 1
    mMaxCount = 3
    MaxTime = 5
    mBlockThresholdMillis = 1
SPECIFICATION FairSpec
INVARIANTS
    OneStrayAfterStop
    SamplingStaysAlive
    SamplesWhileDispatching
    ReportInsideBlock
PROPERTIES
    StoppedSamplerRests
