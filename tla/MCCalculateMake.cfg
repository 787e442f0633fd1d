SPECIFICATION Spec
CONSTANTS
    a = a  b = b  c = c
    NoRepo = NoRepo
    Name <- MCName
    RepoName = {}
    Plans <- MCPlans
INVARIANTS
    TypeOK NeverUnmarkedInVain SafeToRemove
PROPERTIES
    Refines
