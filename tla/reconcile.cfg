SPECIFICATION Spec
CONSTANTS
    web = web
    declared = declared
    other = other
    repo = repo
    hub = hub
    Services = {web}
    Values = {0, 1, 2}
    Hosts = {declared, other}
    RepoHost = repo
    DockerHost = hub
    Gone = Gone
    NoSnapshot = NoSnapshot
    Configs <- Edited
    MaxEdits = 2
    Faults = {"fail", "restart"}
INVARIANTS TypeOK 
PROPERTIES AppliedIsNotPending
