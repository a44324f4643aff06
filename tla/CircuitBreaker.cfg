SPECIFICATION FairSpec
CONSTANTS
    q1 = q1
    q2 = q2
    q3 = q3
    Requests = {q1, q2, q3}
    FailureThreshold = 2
    SuccessThreshold = 2
    Timeout = 2
    MaxOutages = 2
    MaxInterventions = 1
INVARIANTS
    NoOverdueTransition
PROPERTIES
    EvidenceBased
    Recovers
