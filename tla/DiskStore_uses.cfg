SPECIFICATION Spec
CONSTANTS
    s1 = s1
    s2 = s2
    n1 = n1
    n2 = n2
    None = None
    Shard <- MCShard
    Name <- MCName
    Uses <- SoundUses
SYMMETRY Symmetry
INVARIANTS Fresh IdsHold
CHECK_DEADLOCK FALSE
