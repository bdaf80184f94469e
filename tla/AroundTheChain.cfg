CONSTANTS
    NULL = NULL
    Garbage = Garbage
    h1 = h1
    h2 = h2
    p1 = p1
    p2 = p2
    Hosts <- MCHosts
    Proxies <- MCProxies
    Clients <- MCClients
    Words <- MCWords
    Networks <- MCNetworks
    MaxWords = 1
    Counts = {0, 1, 2}
SPECIFICATION Spec
INVARIANTS
    OnlyTheChainsWord
