SPECIFICATION FairSpec
CONSTANTS
    ann = ann
    bob = bob
    Shells = {ann}
    Faults = {"fail", "kill", "restart", "stop", "reboot"}
    MaxFaults = 6
INVARIANTS TypeOK ServicesAreEnforced GateIsWhole
PROPERTIES Recovers
