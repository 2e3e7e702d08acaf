SPECIFICATION Spec
CHECK_DEADLOCK FALSE
CONSTANTS
    Width = 8
    Hash <- HashOf
    Chunk <- AChunk
    Block <- ABlock
    Key <- AKey
INVARIANTS ContainersRight MatchesRight ParsedRight CodesRight
