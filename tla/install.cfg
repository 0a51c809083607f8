SPECIFICATION Spec
CONSTANTS
    Last = 3
    Definition <- SameTwice
    DeletesImage = FALSE
    CAs = {1, 2, 3}
    Faults = {"fail"}
INVARIANTS TypeOK  ImageIsWhole
