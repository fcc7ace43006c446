SPECIFICATION FairSpec
CONSTANTS
    a = a
    b = b
    c = c
    d = d
    NoModule = NoModule
    Modules <- MCModules
    Rank <- MCRank
    Destructive = {c}
    Timed = {a, c}
    Holding = {a, c}
    Vantage <- MCVantage
    Requires <- MCRequires
    Experiment <- MCExperiment
    Options <- MCOptions
INVARIANTS
    TypeOK
    ExitHonest
    DestructiveLast
    ResultsInOrder
    OutcomesTruthful
PROPERTIES
    HungRecorded
    RunEnds
