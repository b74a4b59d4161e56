SPECIFICATION Spec
CONSTANTS
    Certs <- AllCerts
    CertModes <- AllCertModes
    NoCert = "NoCert"
INVARIANT NeverSendsToFeedback
INVARIANT NothingLeaks
INVARIANT CertificateFitsServer
INVARIANT ConnectedAsAsked
