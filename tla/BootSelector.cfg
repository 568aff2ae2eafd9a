SPECIFICATION FairSpec
CONSTANTS
    Zero = Zero
    None = None
    Damaged = Damaged
    KnownGood = KnownGood
    Candidate = Candidate
    Root = Root
    Identity = {Zero, KnownGood, Candidate, Root}
    MaxSequence = 8
    MaxAttempts = 3
INVARIANTS CommitIsAtomic CandidateEarned
PROPERTIES RecordSpec AlwaysBootsAgain CandidateSettled
