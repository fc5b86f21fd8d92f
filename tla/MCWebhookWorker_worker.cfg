CONSTANTS
    Workers = {w1, w2}
    Deliveries = {d1, d2}
    EndpointOf <- MCEndpointOf
    Watched <- MCWatched
    BATCH_SIZE = 2
    IN_FLIGHT_LEASE_SECONDS = 2
    HTTP_TIMEOUT_SECONDS = 1
    RETRY_DELAY_SECONDS <- MCDelays
    MAX_DELIVERY_ATTEMPTS = 2
    Hosts <- MCHosts
    Answers <- MCAnswers
    Samples <- MCSamples
    MaxOverdue = 0
    MaxInterruptions = 1
SPECIFICATION FairSpec
INVARIANTS
    DoublesAreLapses
    ConnectsOutside
    GuardIsExact
PROPERTIES
    LapsesAreLate
    OutcomeIsFinal
    EveryDeliverySettles
