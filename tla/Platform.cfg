\* Bounds: two requests to the limiter within four instants; every definition of three roles; one
\* tool call at a time; two requests and two sessions in a browser; one HTTP request; two recipients and
\* two attempts per mail; two writers of an object of up to five bytes; three messages of a stream.
SPECIFICATION PlatformSpec
CONSTANTS
    Undefined = Undefined
    None = None
    Users <- BrowserUsers
    Requests = {q1, q2}
    MaxSessions = 2
    BasePath <- AuthPath
    Overrides <- RouteOverrides
    Providers <- TwoProviders
    Undecodable = Undecodable
    q1 = q1
    q2 = q2
    MaxMessages = 3
    MaxNetwork = 2
    Failures <- StreamFailures
    MaxFailureBytes = 8192
    Contracts = {TRUE, FALSE}
    Setups <- MailSetups
    Recipients = 2
    Attempts = 2
SYMMETRY Symmetry
INVARIANTS
    
    AccessIsAsDefined
    
    ClientHearsTheServer
    
CHECK_DEADLOCK FALSE
