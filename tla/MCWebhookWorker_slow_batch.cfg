CONSTANTS
    Workers = {w1, w2}
    Deliveries = {d1, d2}
    EndpointOf <- MCEndpointOf
    Watched <- MCWatched
    BATCH_SIZE = 2
    IN_FLIGHT_LEASE_SECONDS = 3
    HTTP_TIMEOUT_SECONDS = 2
    RETRY_DELAY_SECONDS <- MCDelays
    MAX_DELIVERY_ATTEMPTS = 2
    Hosts <- MCHosts
    Answers <- MCAnswers
    Samples <- MCSamples
    MaxOverdue = 0
    MaxInterruptions = 0
SPECIFICATION Spec
INVARIANTS
    NoDoubleDelivery
CHECK_DEADLOCK FALSE
