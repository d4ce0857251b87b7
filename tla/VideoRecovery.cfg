CONSTANTS
    Kinds <- Both
    MaxFrames = 6
    MaxLost = 2
    KeyChunks = 2
    Window = 1
    QueueLimit = 1
SPECIFICATION Spec
INVARIANTS TypeOK NoDeltaAfterDrop
PROPERTY RefinesStream
\* All frames are encoded and delivered, and the bound is reached.
CHECK_DEADLOCK FALSE
