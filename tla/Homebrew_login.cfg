\* PingPeriod and PongTimeout keep the ratio of the 5 and 10 seconds of the code.
CONSTANTS
    Nonces = {n1, n2}
    NoNonce = NoNonce
    PingPeriod = 2
    PongTimeout = 4
    MaxInFlight = 2
    Networks = {{}, {"loss", "refusal"}, {"loss", "repeat"}, {"repeat", "refusal"}}
SPECIFICATION FairSpec
INVARIANTS
    KeyWasAccepted
    UnansweredPingsBounded
    LoginAgreed
PROPERTIES
    NonceStable
    LoginCompletes
\* A stopped or freed client and an empty network take no further step.
CHECK_DEADLOCK FALSE
