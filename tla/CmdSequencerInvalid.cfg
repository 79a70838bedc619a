CONSTANTS
    Files <- MCCrc
    Missing = Missing
    Ops <- MCStart
    Blocks = {FALSE}
    Delays <- MCDelays
    SeqTimeout = 1
    Ids <- MCIds
    MaxLate = 0

CHECK_DEADLOCK FALSE
SPECIFICATION SequencerSpec
INVARIANT RunsValidated
