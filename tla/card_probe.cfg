SPECIFICATION Spec
CONSTANTS
    Driver = "tpr"
    Cards = {c1, c2, c3}
    MaxDev = 2
    MayFail = {"qmem", "chrdev", "cdev", "enable"}
    MaxVmas = 1
    Busy = FALSE
    None = None
INVARIANTS TypeOK OwnStructure RemovesOwn UseSafe Quiet
PROPERTY Released
