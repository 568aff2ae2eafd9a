SPECIFICATION Spec
CONSTANTS
    Zero = Zero
    None = None
    Damaged = Damaged
    KnownGood = KnownGood
    Candidate = Candidate
    Root = Root
    Identity = {Zero, KnownGood, Candidate, Root}
    MaxSequence = 6
    MaxAttempts = 3
INVARIANT UnhealthyIsNotPromoted
