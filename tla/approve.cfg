SPECIFICATION FairSpec
CONSTANTS
    Absent = Absent
    t = t
    user = user
    other = other
    Texts = {t}
    Files <- Optionals
    Requests = {user, other}
    Asks <- Everybody
    Faults = {"write", "restart"}
INVARIANTS TypeOK  GateHasBaseline
PROPERTIES ApprovalTakes RowSettles
