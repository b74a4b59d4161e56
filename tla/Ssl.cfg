SPECIFICATION Spec
CONSTANTS
    Certs <- ThreeCerts
    CertModes <- ThreeCertModes
    NoCert = "NoCert"
    MaxAddresses = 2
    MaxLost = 3
INVARIANT UsesAlive
INVARIANT ObjectsAccounted
PROPERTY ImplementsConnection
