SPECIFICATION Spec
CONSTANTS
    Domains = {"d1", "d2"}
    Runs = {"p", "q"}
    MaxInodes = 5
    MaxStarts = 3
INVARIANTS NoDuplicates
PROPERTIES RenameInstallsSnapshot ImplementsDomainSet
