SPECIFICATION Spec
CONSTANTS
    Number <- MCNumber
    Addresses <- MCAddresses
    Letters = {"tcp", "udp"}
    PortSpecs <- MCPortSpecs
    Mappings <- MCMappings
    Items = {"i1", "i2"}
    Sandboxes <- MCSandboxes
INVARIANTS
    UnpublishExact
    
    SentinelTrue
