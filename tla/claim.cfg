\* Two reviewers, two heads, a retarget or a push, every GitHub outcome, a
\* crash; three clock readings are enough for a claim to expire and another
\* to follow it.
CONSTANTS
    Reviewer = {r1, r2}
    Heads = 2
    Base = {main, next}
    Term = 2
    CreateOutcomes = {"ok", "failed", "foreign", "lost", "late"}
    FindOutcomes = {"ok", "error"}
    PatchOutcomes = {"ok", "error"}
    MaxClock = 3
    MaxRuns = 2
    MaxMoves = 1
    MaxVerdicts = 1
    MaxCrashes = 1
    NoClaim = NoClaim
    NoShip = NoShip
    Nobody = Nobody
    Shipper = Shipper
SPECIFICATION Spec
CHECK_DEADLOCK FALSE
SYMMETRY Symmetry
CONSTRAINT Followed
INVARIANTS ReceiptsAgree ArmedCurrent
