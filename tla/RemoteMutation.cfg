SPECIFICATION FairSpec
CONSTANTS
    Writers = {w1, w2, w3}
    NoWriter = NoWriter
INVARIANTS
    OneWriterAtATime
    FencedNeverRuns
    NoRaceWithOwnWriter
PROPERTIES
    ImplementsContract
    WriterEnds
