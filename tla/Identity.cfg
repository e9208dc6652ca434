\* Bounds: two calls of the service at a time; two users, addresses and passwords; at most two mailed
\* tokens and three sessions; three calls of the authorization server and eight tokens; two API keys,
\* replicas and verifications; one login while the provider rotates through three key sets.
SPECIFICATION IdentitySpec
CONSTANTS
    p1 = p1
    p2 = p2
    e1 = e1
    e2 = e2
    none = none
    g1 = g1
    q1 = q1
    q2 = q2
    q3 = q3
    client = client
    user = user
    v1 = v1
    v2 = v2
    Calls = {q1, q2, q3}
    Clients = {client}
    Users = {user}
    Scopes = {"read", "write"}
    MaxCodes = 1
    MaxIssued = 8
    Open = TRUE
    OAuthMixes <- ServerMixes
    Keys = {"k1", "k2"}
    Replicas = {"old", "new"}
    Verifiers = {v1, v2}
    Versions = {1, 2}
    Current <- RollingPepper
    Known <- BothPeppers
    Emails = {e1, e2}
    Subjects = {g1}
    NoEmail = none
    KnownSubjects = {g1}
    MailAddresses = {e1, e2}
    NoMail = none
    Configured = {"google", "github", "x"}
    Tokens <- IdTokens
    KeySets <- KeyRotation
    MaxAddresses = 2
    MaxClock = 2
    MaxLogins = 1
    Slots = {p1, p2}
    Passwords = {1, 2}
    MaxUsers = 2
    MaxTokens = 2
    MaxSessions = 3
    MaxStates = 2
    MaxChallenges = 2
    Counters = {0, 1, 2}
    Linking = TRUE
    Provisioning = TRUE
    Steps = {1, 2}
    MaxSecrets = 1
    LockoutThreshold = 2
    MaxTries = 2
    Scenarios <- Mixes
SYMMETRY Symmetry
INVARIANTS
    AccountsAreSound
    
    GrantsAreConsented
    RefreshIsLinear
    KeysSurviveRotation
    

    
CHECK_DEADLOCK FALSE
