SPECIFICATION Spec
CONSTANTS
    Driver = "ssi"
    Cards = {c1}
    MaxDev = 2
    MayFail = {}
    MaxVmas = 0
    Busy = FALSE
    None = None
INVARIANT RemovesOwn
