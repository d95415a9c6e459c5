\* The size and the certificate of a cluster follow its nodes.
SPECIFICATION FairSpec
CONSTANTS
    Nodes <- TwoNodes
    NodeAt <- AtFirst
    Configs <- AllConfigs
    Fickle <- FirstNode
    FixedSize = 1
    NoNode = NoNode
INVARIANT TypeOK
PROPERTIES DisruptionDefers NodesServed CertificateFollows
CHECK_DEADLOCK FALSE
