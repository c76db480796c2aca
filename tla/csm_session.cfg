SPECIFICATION Spec
CONSTANTS
    Client = {c1, c2}
    Server = {s1, s2}
    Certified = {s1}
    Foreign = {c1, s1}
    Key = {k1, k2, k3}
    LowKey = LowKey
    NoKey = NoKey
    Nobody = Nobody
    Payload = {m}
    MaxPackets = 2
VIEW WithoutRet
SYMMETRY Symmetry
INVARIANT TypeOK
INVARIANT KeyAgreement
INVARIANT HandshakeBindsIdentity
PROPERTY ServerNeverReopensASession
PROPERTY FailedCallInstallsNothing
PROPERTY ImplementsChannel
CHECK_DEADLOCK FALSE
