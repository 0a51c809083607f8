SPECIFICATION Spec
CONSTANTS
    Vm = Vm
    Proxy = Proxy
    cli = cli
    other = other
    Callers = {cli, other}
    Asks <- Race
    Watchdog = Watchdog
    Faults = {"restart", "stuck", "watch"}
    Crashing = {Vm}
    Handles = {h1, h2}
    Workers = {w1, w2, w3}
    None = None
SYMMETRY Interchangeable
VIEW Relevant
PROPERTIES StopIsUndisturbed
