SPECIFICATION FairSpec
CONSTANTS
    Msgs = {1, 2}
    Fetches = {f1, f2}
    NoFetch = NoFetch
    Limit = 1
    MaxFaults = 1
INVARIANTS TokensLive AloneCancelledOnRequest
PROPERTIES BodiesArrive
