SPECIFICATION Spec
CONSTANTS
    Zero = Zero
    None = None
    Damaged = Damaged
    KNOWN_GOOD = KNOWN_GOOD
    CANDIDATE = CANDIDATE
    GENERATION_ROOT = GENERATION_ROOT
    Unknown = Unknown
    Identity = {Zero, KNOWN_GOOD, CANDIDATE, GENERATION_ROOT, Unknown}
    MaxSequence = 7
    STAGE_ATTEMPTS = 2
INVARIANTS AckedIsDurable ReplyMatchesSlots
