CONSTANTS
    Streams <- MCStreams
    Lookups <- MCLookups
    Target = 20
    MaxRecordLen = 20
    MaxU32 = 60
    Damages = TRUE
    Garbled = Garbled
    None = None
    Err = Err
SPECIFICATION Spec
INVARIANTS AnswersExact ExtentsExact IntactReadable
CHECK_DEADLOCK FALSE
