SPECIFICATION SyncSpec
CONSTANTS
    one = one
    two = two
    here = here
    there = there
    home = home
    away = away
    Labels = {one, two}
    Paths = {here, there, home, away}
    Undeclared = Undeclared
    NoSession = NoSession
    Gone = Gone
    Plans <- OneAtATime
    DirBytes = 4096
    Faults = {"fail"}
    MaxWrites = 3
    MaxEdits = 5
INVARIANTS SyncTypeOK
PROPERTIES   FreshIsAsDeclared
