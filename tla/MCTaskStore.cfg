CONSTANTS
    alice = alice
    bob = bob
    TaskIds <- MCTasks
    Owners <- MCOwners
    Legacy = legacy
    Disks <- MCDisks
    Retention = 1
    MaxTime = 2
    Filters <- MCFilters
    PageSizes = {1}
SPECIFICATION Spec
PROPERTIES RestartSettles ListingComplete
SYMMETRY MCSymmetry
