\* Two clients with one attempt each, two acceptors, one start().
SPECIFICATION Spec
CONSTANTS
    MaxFaults = 2
    v4 = v4
    v6 = v6
    c1 = c1
    c2 = c2
    Empty = Empty
    Garbled = Garbled
    None = None
    Clients <- MCClients
    Acceptors <- MCAcceptors
    Login <- MCLogin
    Accepted <- MCAccepted
    Text <- MCText
INVARIANTS
    
    Base64RoundTrip
    CredentialsArrive
 
\* The attempts are made, or the clients or the server destroyed.
CHECK_DEADLOCK FALSE
