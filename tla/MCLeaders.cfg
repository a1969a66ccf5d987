\* Two replicas, two repositories and room for both; failing calls, crashes.
SPECIFICATION Spec
CONSTANTS
    A = A
    B = B
    Replicas = {R1, R2}
    Interval = 3
    Margin = 1
    RepoOrder <- TwoRepos
    Jitter <- NoJitter
    MaxParallel = 2
    MaxRound = 3
    MaxFailures = 2
    MaxRestarts = 2
INVARIANTS
    TypeOK
    OneLeader
    RefreshedRegularly
