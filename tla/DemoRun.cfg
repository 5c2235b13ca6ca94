SPECIFICATION FairSpec
CONSTANTS
    a1 = a1
    a2 = a2
    Agents <- MCAgents
    Tools <- MCTools
    Denied <- MCDenied
    Statuses <- MCStatuses
    Guesses = {1}
    Limit <- MCLimit
    MaxBatch <- MCMaxBatch
    MaxCreates = 2
    MayBeLate <- MCMayBeLate
INVARIANTS
    OwnTickets
    TwiceAtMost
    DenialReported
PROPERTIES
    RunsEnd
