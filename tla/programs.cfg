SPECIFICATION Spec
CONSTANTS
    Tuners = {t1}
    Readers = {r1}
    Channels = {0, 1}
    Triggers = {1}
    MaxStarts = 2
    Runs <- MCRuns
    Unset = Unset
INVARIANTS Tuned TriggerWhole DmaWhileOpen
PROPERTY LossReported
