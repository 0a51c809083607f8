SPECIFICATION FairSpec
CONSTANTS
    a = a
    b = b
    Projects = {a}
    IPs = {1, 2}
    Faults = {"restart", "foreign", "helper"}
INVARIANTS TypeOK
 
