SPECIFICATION PortsSpec
CONSTANTS
    Client = {c1, c2}
    Server = {s1}
    CaClient = {a1}
    CaServer = {t1, t2}
    Certified = {t1}
    Foreign = {c2}
    Nobody = Nobody
    Payload = {m}
    MaxPackets = 2
    c1 = c1
    c2 = c2
    s1 = s1
    a1 = a1
    t1 = t1
    t2 = t2
    Deployments <- MCDeployments
VIEW WithoutRet
INVARIANT TypeOK
INVARIANT AnswersOnlySpeakers
INVARIANT MirrorAgrees
INVARIANT CaClientsAddressCertified
PROPERTY FailureTeachesNothing
PROPERTY ImplementsChannel
CHECK_DEADLOCK FALSE
