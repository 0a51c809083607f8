SPECIFICATION Spec
CONSTANTS
    a = a
    b = b
    Projects = {a, b}
    IPs = {1, 2}
    Faults = {"crash", "helper"}
SYMMETRY Interchangeable
INVARIANTS ClaimsTellTheOwner
PROPERTIES ImplementsPool
