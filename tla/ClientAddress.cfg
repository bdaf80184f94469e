CONSTANTS
    NULL = NULL
    Garbage = Garbage
    h1 = h1
    h2 = h2
    p1 = p1
    p2 = p2
    Hosts <- MCHosts
    Proxies <- MCProxies
    Clients <- MCClients
    Words <- MCWords
    Networks <- MCNetworks
    MaxWords = 2
    Counts = {0, 1, 2}
SPECIFICATION Spec
INVARIANTS
    TypeOK
    NeverTheClientsWord
    AttributedToSender
    RestrictionHolds
    ListedClientPasses
