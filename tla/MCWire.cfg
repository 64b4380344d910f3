SPECIFICATION Spec
CONSTANTS
    Bytes <- MCBytes
    Streams <- MCStreams
    Built <- MCBuilt
    MaxSends = 2
    ReadBytes <- Message_read_bytes
    WriteBytes <- Message_write_bytes
INVARIANTS
    FramesDoNotDependOnReads
    
    BuiltArrives
CHECK_DEADLOCK FALSE
