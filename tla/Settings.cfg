SPECIFICATION FairSpec
CONSTANTS
    i1 = i1
    a1 = a1
    a2 = a2
    s1 = s1
    s2 = s2
    None = None
    Instances <- OneInstance
    Ids <- Accounts
    Secrets <- ClientSecrets
    Accepted <- OwnSecret
    MaxSaves = 3
INVARIANTS VerifiedWasTested SecretFirst AppliedIsStored
PROPERTY ClosingCloses
