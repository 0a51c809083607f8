SPECIFICATION FairSpec
CONSTANTS
    Vm = Vm
    Proxy = Proxy
    cli = cli
    other = other
    Callers = {cli}
    Asks <- Reconciles
    Watchdog = Watchdog
    Faults = {"refuse", "watch"}
    Crashing = {}
    Handles = {h1, h2}
    Workers = {w1, w2}
    None = None
INVARIANTS TypeOK StopHolds
PROPERTIES RequestsEnd CacheSettles
