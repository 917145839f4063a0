\* Reports of every family, each analysed to its end.
SPECIFICATION Spec
CONSTANTS
    None = None
    Reports <- AllReports
INVARIANTS
    TypeOK
    NoHeavyPhantomLoss
    ScoreIgnoresPhantomLoss
    EveryBadHostReported
    AllClearIsTrue
    AsksHaveEvidence
    FlakyIsReported
CHECK_DEADLOCK FALSE
