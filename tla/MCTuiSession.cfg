CONSTANTS
    Prompts = {p1, p2}
    Runs = {w1, w2}
    None = None
SPECIFICATION FairSpec
INVARIANTS BusyFlagsAreTrue TranscriptIsKept
PROPERTIES SessionSettles
CHECK_DEADLOCK FALSE
